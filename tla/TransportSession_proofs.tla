----------------------- MODULE TransportSession_proofs -----------------------
(***************************************************************************)
(* Theorems about TransportController, for every value of its constants:   *)
(* first its types, then three proofs about the sessions of the transport, *)
(* each on the shoulders of the one before it:                             *)
(*                                                                         *)
(*   nothing of a session is heard outside it: NoteOns, clocks and starts  *)
(*   that reach the host belong to the session that runs;                  *)
(*                                                                         *)
(*   the flags that say "playing" agree between two operations;            *)
(*                                                                         *)
(*   a clock the cable refuses stops the transport within its window.      *)
(*                                                                         *)
(* The outbox holds music of the running session only, as every way to end *)
(* a session removes it and every way to begin one comes behind an end.    *)
(* The second half is a fact about the order of the steps of a pass, so    *)
(* the invariants speak about the agenda.                                  *)
(***************************************************************************)
EXTENDS TransportProperties, SequenceTheorems, FiniteSetTheorems, WellFoundedInduction, TLAPS

-----------------------------------------------------------------------------
(***************************************************************************)
(* Every state is well typed                                               *)
(***************************************************************************)
(* A nonempty set of naturals has a least element.                         *)
LEMMA LeastNatural ==
  ASSUME NEW S \in SUBSET Nat, S # {}
  PROVE  \E m \in S : \A k \in S : m <= k
<1> DEFINE Less == {x \in Nat \X Nat : x[1] < x[2]}
<1>1. IsWellFoundedOn(Less, Nat)
  BY NatLessThanWellFounded DEF OpToRel
<1>2. PICK m \in S : \A k \in S : ~(<<k, m>> \in Less)
  BY <1>1, WFMin
<1>3. ASSUME NEW k \in S PROVE m <= k
  <2>1. k \in Nat /\ m \in Nat
    BY <1>2, <1>3
  <2>2. SUFFICES ASSUME k < m PROVE FALSE
    BY <2>1
  <2>3. <<k, m>> \in Less
    BY <2>1, <2>2
  <2> QED BY <1>2, <1>3, <2>3
<1> QED BY <1>2, <1>3

(* The front of a nonempty outbox is one of its messages, and the oldest.  *)
LEMMA FrontOfOutbox ==
  ASSUME NEW box \in SUBSET Messages, box # {}
  PROVE  /\ OutboxFront(box) \in box
         /\ \A q \in box : OutboxFront(box).seq <= q.seq
<1> DEFINE Seqs == {p.seq : p \in box}
<1>1. Seqs \in SUBSET Nat /\ Seqs # {}
  BY DEF Messages, NoteMessages, RealtimeMessages
<1>2. PICK m \in Seqs : \A k \in Seqs : m <= k
  BY <1>1, LeastNatural
<1>3. \E p \in box : \A q \in box : p.seq <= q.seq
  BY <1>2
<1> QED BY <1>3 DEF OutboxFront

(* The front of a nonempty event queue is one of its events, and no event  *)
(* of the queue precedes it.                                               *)
LEMMA FrontOfQueue ==
  ASSUME NEW events \in SUBSET Events, events # {}
  PROVE  /\ QueueFront(events) \in events
         /\ \A f \in events : ~EventPrecedes(f, QueueFront(events))
<1> DEFINE Ats == {e.at : e \in events}
<1>1. PICK at \in Ats : \A k \in Ats : at <= k
  <2>1. Ats \in SUBSET Nat /\ Ats # {}
    BY DEF Events
  <2> QED BY <2>1, LeastNatural
<1> DEFINE Earliest == {e \in events : e.at = at}
<1> DEFINE Priorities == {Priority(e) : e \in Earliest}
<1>2. PICK priority \in Priorities : \A k \in Priorities : priority <= k
  <2>1. Priorities \in SUBSET Nat /\ Priorities # {}
    BY <1>1 DEF Priority
  <2> QED BY <2>1, LeastNatural
<1> DEFINE First == {e \in Earliest : Priority(e) = priority}
<1> DEFINE Numbers == {e.launch : e \in First}
<1>3. PICK number \in Numbers : \A k \in Numbers : number <= k
  <2>1. Numbers \in SUBSET Nat /\ Numbers # {}
    BY <1>2 DEF Events
  <2> QED BY <2>1, LeastNatural
<1>4. PICK e \in First : e.launch = number
  BY <1>3
<1>5. ASSUME NEW f \in events PROVE ~EventPrecedes(f, e)
  <2>1. f.at \in Nat /\ e.at \in Nat /\ f.launch \in Nat /\ e.launch \in Nat
    BY <1>4, <1>5 DEF Events
  <2>2. Priority(f) \in Nat /\ Priority(e) \in Nat
    BY DEF Priority
  <2>3. ~(f.at < e.at)
    BY <1>1, <1>4, <2>1
  <2>4. f.at = e.at => ~(Priority(f) < Priority(e))
    BY <1>2, <1>4, <2>2
  <2>5. f.at = e.at /\ Priority(f) = Priority(e) => ~(f.launch < e.launch)
    BY <1>3, <1>4, <2>1
  <2> QED BY <2>3, <2>4, <2>5 DEF EventPrecedes
<1> QED BY <1>4, <1>5 DEF QueueFront

-----------------------------------------------------------------------------
(***************************************************************************)
(* Types of the operators the actions are made of.                         *)
(***************************************************************************)
LEMMA AgendaTypes ==
  ASSUME NEW rest \in Seq(Labels), rest # <<>>, NEW work \in Seq(Labels)
  PROVE  /\ Head(rest) \in Labels
         /\ Tail(rest) \in Seq(Labels)
         /\ work \o Tail(rest) \in Seq(Labels)
BY HeadTailProperties, ConcatProperties

LEMMA WorkTypes ==
  /\ <<>> \in Seq(Labels)
  /\ FinishPass \in Seq(Labels)
  /\ StartSession \in Seq(Labels)
  /\ \A l \in Labels : <<l>> \in Seq(Labels)
  /\ <<"sendDue", "servicePending">> \in Seq(Labels)
  /\ <<"sendDue", "servicePending", "advance">> \in Seq(Labels)
  /\ <<"dispatchDue", "capCheck", "schedule">> \in Seq(Labels)
BY DEF FinishPass, StartSession, Labels

LEMMA PassType ==
  ASSUME NEW work \in Seq(Labels)
  PROVE  <<"servicePending">> \o work \o FinishPass \in Seq(Labels)
<1>1. <<"servicePending">> \in Seq(Labels) /\ FinishPass \in Seq(Labels)
  BY WorkTypes DEF Labels
<1>2. <<"servicePending">> \o work \in Seq(Labels)
  BY <1>1, ConcatProperties
<1> QED BY <1>1, <1>2, ConcatProperties

LEMMA PositionType ==
  ASSUME NEW t \in Nat, NEW phase \in Phases
  PROVE  At(t, phase) \in Nat
BY TimeAssumption DEF At, Phases

LEMMA SwingPhaseType ==
  ASSUME NEW sixteenth \in Nat, NEW swing \in Nat
  PROVE  SwingPhase(sixteenth, swing) \in Nat
<1>1. ClampSwing(swing) \in 50 .. 90
  BY DEF ClampSwing, SwingMin, SwingMax
<1>2. PhaseFromPercent(ClampSwing(swing)) \in Nat
  <2>1. ClampSwing(swing) * PhaseCount \in Nat
    BY <1>1, TimeAssumption
  <2> QED BY <1>1, <2>1, TimeAssumption DEF PhaseFromPercent, PhaseMax
<1> QED BY <1>2 DEF SwingPhase

LEMMA GateDeadlineType ==
  ASSUME NEW position \in Nat, NEW percent \in Nat
  PROVE  GateDeadline(position, percent) \in Nat
<1>1. FullGate \in Nat
  BY TimeAssumption DEF FullGate
<1>2. FullGate * percent \in Nat
  BY <1>1
<1> QED BY <1>2 DEF GateDeadline, GateDurationUnits

LEMMA LaunchAtType ==
  ASSUME TypeOK, NEW step \in StepChoices, NEW swing \in Swings
  PROVE  LaunchAt(step, swing) \subseteq Events
<1>1. step.note \in Notes /\ step.gate \in Nat /\ swing \in Nat
  BY ControllerAssumption DEF Step
<1>2. nextBoundary \in Nat /\ nextBoundary \div TicksPerSixteenth \in Nat
  BY TimeAssumption DEF TypeOK
<1>3. SwingPhase(nextBoundary \div TicksPerSixteenth, swing) \in Nat
  BY <1>1, <1>2, SwingPhaseType
<1> DEFINE on == At(nextBoundary, SwingPhase(nextBoundary \div TicksPerSixteenth, swing))
<1>4. on \in Nat
  BY <1>2, <1>3, TimeAssumption DEF At
<1>5. GateDeadline(on, step.gate) \in Nat
  BY <1>1, <1>4, GateDeadlineType
<1> HIDE DEF on
<1>6. LaunchAt(step, swing) =
        {Scheduled(on, "NoteOn", step.note, nextBoundary + 1, sessionGen,
                   GateDeadline(on, step.gate)),
         Scheduled(GateDeadline(on, step.gate), "NoteOff", step.note, nextBoundary + 1,
                   sessionGen, GateDeadline(on, step.gate))}
  BY DEF LaunchAt, on
<1> QED BY <1>1, <1>2, <1>4, <1>5, <1>6 DEF Scheduled, Events, TypeOK

LEMMA EndSessionTypes ==
  ASSUME TypeOK
  PROVE  /\ Kept \subseteq Messages
         /\ WithTerminalOff \subseteq Messages
         /\ WithTerminalStop \subseteq Messages
<1>1. Kept \subseteq Messages
  BY DEF TypeOK, Kept
<1>2. WithTerminalOff \subseteq Messages
  <2>1. CASE ~TerminalOffDue
    BY <1>1, <2>1 DEF WithTerminalOff
  <2>2. CASE TerminalOffDue
    <3>1. actual.note \in Notes /\ actual.launch \in Nat
      BY <2>2 DEF TerminalOffDue, TypeOK, Launches
    <3>2. Pending(nextSeq, "NoteOff", actual.note, actual.launch, sessionGen, 0, TRUE)
            \in Messages
      BY <3>1 DEF TypeOK, Pending, Messages, NoteMessages
    <3> QED BY <1>1, <2>2, <3>2 DEF WithTerminalOff, Push
  <2> QED BY <2>1, <2>2
<1>3. Pending(nextSeq + 1, "Stop", None, 0, sessionGen, 0, TRUE) \in Messages
  BY DEF TypeOK, Pending, Messages, RealtimeMessages
<1> QED BY <1>1, <1>2, <1>3 DEF WithTerminalStop, Push

LEMMA LaunchOfType ==
  ASSUME NEW p \in Messages, p.kind \in {"NoteOn", "NoteOff"}
  PROVE  LaunchOf(p) \in Launches
BY DEF Messages, NoteMessages, RealtimeMessages, LaunchOf, Launch, Launches

LEMMA LiveTypes ==
  ASSUME TypeOK
  PROVE  /\ Live \subseteq Messages
         /\ ProjectedLive \in Launches \cup {None}
BY DEF TypeOK, Live, ProjectedLive, ForgetAny

-----------------------------------------------------------------------------
(***************************************************************************)
(* Type correctness.  The three kinds of steps that end a piece of a pass: *)
(* an operation begins a pass, a send goes on with it, work takes a label  *)
(* off the agenda or puts others in its place.                             *)
(***************************************************************************)
ControlOK ==
  /\ mode \in ClockModes
  /\ internalTiming \in BOOLEAN
  /\ storageOpen \in BOOLEAN
  /\ requiresStart \in BOOLEAN
  /\ external \in [running : BOOLEAN, seen : BOOLEAN, period : BOOLEAN]

LEMMA PassTypes ==
  ASSUME TypeOK, PassUnchanged, ControlOK', NEW work \in Seq(Labels), Pass(work)
  PROVE  TypeOK'
<1>1. agenda' \in Seq(Labels)
  BY PassType DEF Pass
<1>2. blocked' \in BOOLEAN
  BY Zenon DEF Pass
<1>3. attempts' \in 0 .. MaxAttempts /\ nextSeq' \in Nat
  <2>1. attempts' = MaxAttempts /\ nextSeq' = IF outbox = {} THEN 0 ELSE nextSeq
    BY Zenon DEF Pass
  <2> QED BY <2>1, ControllerAssumption DEF TypeOK
<1> QED BY <1>1, <1>2, <1>3
        DEF PassUnchanged, ControlOK, TypeOK, transportVars, plannerVars, outboxVars,
            sessionVars, passVars, noteVars, hostVars

LEMMA OperationTypes ==
  ASSUME TypeOK, Operation
  PROVE  TypeOK'
<1> USE DEF controlVars
<1>1. ControlOK
  BY DEF TypeOK, ControlOK
<1>2. CASE Toggle
  <2>1. <<"stop">> \in Seq(Labels) /\ StartSession \in Seq(Labels)
    BY WorkTypes DEF Labels
  <2>2. ControlOK' /\ PassUnchanged
    BY <1>1, <1>2 DEF Toggle, ControlOK
  <2>3. Pass(<<"stop">>) \/ Pass(StartSession)
    BY <1>2 DEF Toggle
  <2> QED BY <2>1, <2>2, <2>3, PassTypes
<1>3. ASSUME NEW m \in Modes, ApplyMode(m) PROVE TypeOK'
  <2>1. <<"stop">> \in Seq(Labels)
    BY WorkTypes DEF Labels
  <2>2. ControlOK' /\ PassUnchanged
    BY <1>1, <1>3, ControllerAssumption DEF ApplyMode, ControlOK
  <2>3. Pass(<<"stop">>)
    BY <1>3 DEF ApplyMode
  <2> QED BY <2>1, <2>2, <2>3, PassTypes
<1>4. CASE OpenStorage
  <2>1. <<"stop">> \in Seq(Labels)
    BY WorkTypes DEF Labels
  <2>2. ControlOK' /\ PassUnchanged
    BY <1>1, <1>4 DEF OpenStorage, ControlOK
  <2>3. Pass(<<"stop">>)
    BY <1>4 DEF OpenStorage
  <2> QED BY <2>1, <2>2, <2>3, PassTypes
<1>5. CASE CloseStorage
  <2>1. storageOpen' \in BOOLEAN
    BY <1>5, Zenon DEF CloseStorage
  <2> QED BY <1>5, <2>1
          DEF CloseStorage, PassUnchanged, TypeOK, transportVars, plannerVars,
              sessionVars, noteVars, hostVars
<1>6. ASSUME NEW n \in 0 .. MaxTicksPerPass, Process(n) PROVE TypeOK'
  <2> DEFINE ticks == [i \in 1 .. 2 * n |->
                         IF i % 2 = 1 THEN "consumeTick" ELSE "capCheck"]
             loss == IF mode = "External" THEN <<"clockLoss">> ELSE <<>>
             rest == <<"dispatchDue", "capCheck", "schedule">>
  <2>1. ticks \in Seq(Labels)
    BY ControllerAssumption DEF Labels
  <2>2. loss \in Seq(Labels) /\ rest \in Seq(Labels)
    BY WorkTypes DEF Labels
  <2>3. Pass(ticks \o rest \o loss)
    BY <1>6 DEF Process
  <2> HIDE DEF ticks, loss, rest
  <2>4. ticks \o rest \in Seq(Labels)
    BY <2>1, <2>2, ConcatProperties
  <2>5. ticks \o rest \o loss \in Seq(Labels)
    BY <2>2, <2>4, ConcatProperties
  <2>6. ControlOK' /\ PassUnchanged
    BY <1>1, <1>6 DEF Process, ControlOK
  <2> QED BY <2>3, <2>5, <2>6, PassTypes
<1>7. CASE ExternalStart
  <2>1. StartSession \in Seq(Labels)
    BY WorkTypes
  <2>2. ControlOK' /\ PassUnchanged
    BY <1>1, <1>7 DEF ExternalStart, Master, ControlOK
  <2>3. Pass(StartSession)
    BY <1>7 DEF ExternalStart
  <2> QED BY <2>1, <2>2, <2>3, PassTypes
<1>8. CASE ExternalContinue
  <2>1. <<>> \in Seq(Labels) /\ <<"continue">> \in Seq(Labels)
    BY WorkTypes DEF Labels
  <2>2. ControlOK' /\ PassUnchanged
    BY <1>1, <1>8 DEF ExternalContinue, Master, ControlOK
  <2>3. Pass(<<>>) \/ Pass(<<"continue">>)
    BY <1>8 DEF ExternalContinue
  <2> QED BY <2>1, <2>2, <2>3, PassTypes
<1>9. CASE ExternalStop
  <2>1. <<"stopExternal">> \in Seq(Labels)
    BY WorkTypes DEF Labels
  <2>2. ControlOK' /\ PassUnchanged
    BY <1>1, <1>9 DEF ExternalStop, Master, ControlOK
  <2>3. Pass(<<"stopExternal">>)
    BY <1>9 DEF ExternalStop
  <2> QED BY <2>1, <2>2, <2>3, PassTypes
<1>10. ASSUME NEW periodKnown \in BOOLEAN, ExternalClock(periodKnown) PROVE TypeOK'
  <2>1. <<>> \in Seq(Labels) /\ <<"consumeTick">> \in Seq(Labels)
    BY WorkTypes DEF Labels
  <2>2. ControlOK' /\ PassUnchanged
    BY <1>1, <1>10 DEF ExternalClock, Master, ControlOK
  <2>3. Pass(<<>>) \/ Pass(<<"consumeTick">>)
    BY <1>10 DEF ExternalClock
  <2> QED BY <2>1, <2>2, <2>3, PassTypes
<1> QED BY <1>2, <1>3, <1>4, <1>5, <1>6, <1>7, <1>8, <1>9, <1>10 DEF Operation

LEMMA DeliveryTypes ==
  ASSUME TypeOK, Delivery
  PROVE  TypeOK'
<1> USE DEF transportVars, plannerVars, outboxVars, sessionVars, passVars, noteVars,
            controlVars, hostVars
<1>1. Done /\ agenda # <<>> => agenda' \in Seq(Labels)
  BY HeadTailProperties DEF Done, TypeOK
<1>2. CanSend => agenda # <<>> /\ attempts - 1 \in 0 .. MaxAttempts
  BY ControllerAssumption DEF CanSend, Doing, TypeOK
<1>3. CASE ServiceEnded
  BY <1>1, <1>3 DEF ServiceEnded, Doing, TypeOK
<1>4. CASE RetryWindowExceeded
  BY <1>1, <1>2, <1>4 DEF RetryWindowExceeded, TypeOK
<1>5. CASE OutboxDrained
  BY <1>1, <1>2, <1>5, LiveTypes DEF OutboxDrained, TypeOK
<1>6. Attempt => /\ Live \in SUBSET Messages
                 /\ Live # {}
                 /\ OutboxFront(Live) \in Messages
  BY FrontOfOutbox, LiveTypes DEF Attempt
<1>7. CASE SendAccepted
  <2> DEFINE p == OutboxFront(Live)
  <2>1. Attempt /\ p \in Messages
    BY <1>6, <1>7 DEF SendAccepted
  <2> HIDE DEF p
  <2>2. NoteAccepted(p) /\ HostReceives(p)
    BY <1>7 DEF SendAccepted, p
  <2>3. p.kind \in {"NoteOn", "NoteOff"} => LaunchOf(p) \in Launches /\ p.note \in Notes
    BY <2>1, LaunchOfType DEF Messages, NoteMessages, RealtimeMessages
  <2>4. actual' \in Launches \cup {None} /\ projected' \in Launches \cup {None}
    BY <2>2, <2>3, LiveTypes
       DEF NoteAccepted, ProjectedAfterOnAccepted, Forget, TypeOK
  <2>5. hostNotes' \subseteq Notes /\ hostPlaying' \in BOOLEAN
    BY <2>2, <2>3 DEF HostReceives, TypeOK
  <2>6. outbox' \subseteq Messages /\ clockRetry' \in Nat \cup {None}
    BY <1>7, LiveTypes DEF SendAccepted, TypeOK
  <2> QED BY <1>2, <1>7, <2>1, <2>4, <2>5, <2>6 DEF SendAccepted, Attempt, TypeOK
<1>8. CASE SendRetryLater
  <2>1. OutboxFront(Live).limit \in Nat
    BY <1>6, <1>8 DEF SendRetryLater, Messages, NoteMessages, RealtimeMessages
  <2>2. clockRetry' \in Nat \cup {None}
    BY <1>8, <2>1 DEF SendRetryLater, TypeOK
  <2> QED BY <1>1, <1>2, <1>8, <2>2, LiveTypes DEF SendRetryLater, Attempt, TypeOK
<1>9. CASE SendDisconnected
  <2>1. Attempt /\ agenda' \in Seq(Labels) /\ attempts' \in 0 .. MaxAttempts
    BY <1>1, <1>2, <1>9 DEF SendDisconnected, Attempt
  <2>2. outbox' \subseteq Messages /\ projected' \in Launches \cup {None}
    BY <1>9, LiveTypes DEF SendDisconnected
  <2>3. hostNotes' \subseteq Notes /\ hostPlaying' \in BOOLEAN /\ blocked' \in BOOLEAN
    BY <1>9 DEF SendDisconnected
  <2>4. outcome' \in {"None", "Disconnected", "RetryWindowExceeded"}
    BY <1>9 DEF SendDisconnected
  <2>5. UNCHANGED <<clockRetry, actual>>
    BY <1>9 DEF SendDisconnected
  <2> QED BY <2>1, <2>2, <2>3, <2>4, <2>5 DEF Attempt, TypeOK
<1> QED BY <1>3, <1>4, <1>5, <1>7, <1>8, <1>9 DEF Delivery

LEMMA EndSessionStepTypes ==
  ASSUME TypeOK, EndSession
  PROVE  /\ running' \in BOOLEAN /\ tick' \in Nat /\ haveTick' \in BOOLEAN
         /\ deliveryPos' \in Nat /\ queue' \subseteq Events
         /\ seqRunning' \in BOOLEAN /\ nextBoundary' \in Nat
         /\ outbox' \subseteq Messages /\ nextSeq' \in Nat
         /\ sessionGen' \in Nat \ {0} /\ terminalGen' \in Nat
         /\ outputActive' \in BOOLEAN /\ clockRetry' \in Nat \cup {None}
<1>1. /\ running' \in BOOLEAN /\ haveTick' \in BOOLEAN /\ seqRunning' \in BOOLEAN
      /\ outputActive' \in BOOLEAN
  BY Zenon DEF EndSession
<1>2. tick' \in Nat /\ deliveryPos' \in Nat /\ queue' \subseteq Events
  BY DEF EndSession, TypeOK
<1>3. nextBoundary' \in Nat /\ sessionGen' \in Nat \ {0} /\ terminalGen' \in Nat
  BY DEF EndSession, TypeOK
<1>4. outbox' \subseteq Messages /\ nextSeq' \in Nat
  BY EndSessionTypes DEF EndSession, TypeOK
<1>5. clockRetry' \in Nat \cup {None}
  BY DEF EndSession
<1> QED BY <1>1, <1>2, <1>3, <1>4, <1>5

LEMMA WorkStepTypes ==
  ASSUME TypeOK, Work
  PROVE  TypeOK'
<1> USE DEF transportVars, plannerVars, outboxVars, sessionVars, passVars, noteVars,
            controlVars, hostVars
<1>1. ASSUME agenda # <<>>, Done PROVE agenda' \in Seq(Labels)
  BY <1>1, HeadTailProperties DEF Done, TypeOK
<1>2. ASSUME NEW work \in Seq(Labels), agenda # <<>>, Then(work)
      PROVE  agenda' \in Seq(Labels)
  BY <1>2, AgendaTypes DEF Then, TypeOK
<1>3. ASSUME NEW label \in Labels, agenda # <<>>, Then(<<label>>)
      PROVE  agenda' \in Seq(Labels)
  BY <1>2, <1>3, WorkTypes
<1>4. ExternalReset \in [running : BOOLEAN, seen : BOOLEAN, period : BOOLEAN]
  BY DEF ExternalReset, Master
<1>5. "servicePending" \in Labels /\ "stop" \in Labels /\ "stopExternal" \in Labels
  BY DEF Labels
<1>6. ASSUME NEW label, NEW nextExternal, Stop(label, nextExternal),
             nextExternal \in [running : BOOLEAN, seen : BOOLEAN, period : BOOLEAN]
      PROVE  TypeOK'
  <2>1. EndSession /\ agenda' \in Seq(Labels)
    BY <1>3, <1>5, <1>6 DEF Stop, Doing
  <2>2. capacityExceeded' \in BOOLEAN /\ internalTiming' \in BOOLEAN
    BY <1>6, Zenon DEF Stop
  <2>3. external' \in [running : BOOLEAN, seen : BOOLEAN, period : BOOLEAN]
    BY <1>6 DEF Stop
  <2>4. UNCHANGED <<mode, storageOpen, requiresStart, passVars, noteVars, hostVars>>
    BY <1>6, Zenon DEF Stop
  <2> QED BY <2>1, <2>2, <2>3, <2>4, EndSessionStepTypes DEF TypeOK
<1>7. CASE StopSession
  <2>1. external \in [running : BOOLEAN, seen : BOOLEAN, period : BOOLEAN]
    BY DEF TypeOK
  <2> QED BY <1>4, <1>6, <1>7, <2>1 DEF StopSession
<1>8. CASE CapacityStop
  <2>1. EndSession /\ agenda' \in Seq(Labels)
    BY <1>3, <1>5, <1>8 DEF CapacityStop, Doing
  <2>2. capacityExceeded' \in BOOLEAN /\ internalTiming' \in BOOLEAN
    BY <1>8, Zenon DEF CapacityStop
  <2>3. external' \in [running : BOOLEAN, seen : BOOLEAN, period : BOOLEAN]
    BY <1>4, <1>8 DEF CapacityStop
  <2>4. UNCHANGED <<mode, storageOpen, requiresStart, passVars, noteVars, hostVars>>
    BY <1>8, Zenon DEF CapacityStop
  <2> QED BY <2>1, <2>2, <2>3, <2>4, EndSessionStepTypes DEF TypeOK
<1>9. CASE CapacityKept
  BY <1>1, <1>9 DEF CapacityKept, Doing, TypeOK
<1>10. CASE NoOutcome
  BY <1>1, <1>10 DEF NoOutcome, Doing, TypeOK
<1>11. CASE RetryWindowStop
  <2>1. EndSession /\ agenda' \in Seq(Labels)
    BY <1>1, <1>11 DEF RetryWindowStop, Doing
  <2>2. capacityExceeded' \in BOOLEAN /\ internalTiming' \in BOOLEAN
    BY <1>11, Zenon DEF RetryWindowStop
  <2>3. /\ external' \in [running : BOOLEAN, seen : BOOLEAN, period : BOOLEAN]
        /\ outcome' \in {"None", "Disconnected", "RetryWindowExceeded"}
    BY <1>4, <1>11 DEF RetryWindowStop
  <2>4. UNCHANGED <<blocked, attempts, mode, storageOpen, requiresStart, noteVars,
                    hostVars>>
    BY <1>11, Zenon DEF RetryWindowStop
  <2> QED BY <2>1, <2>2, <2>3, <2>4, EndSessionStepTypes DEF TypeOK
<1>12. CASE Disconnect
  <2>1. agenda' \in Seq(Labels)
    BY <1>1, <1>12 DEF Disconnect, Doing
  <2>2. /\ running' \in BOOLEAN /\ seqRunning' \in BOOLEAN
        /\ internalTiming' \in BOOLEAN /\ requiresStart' \in BOOLEAN
    BY <1>12, Zenon DEF Disconnect
  <2>3. /\ external' \in [running : BOOLEAN, seen : BOOLEAN, period : BOOLEAN]
        /\ outcome' \in {"None", "Disconnected", "RetryWindowExceeded"}
        /\ actual' \in Launches \cup {None} /\ projected' \in Launches \cup {None}
    BY <1>4, <1>12 DEF Disconnect, TypeOK
  <2>4. /\ terminalGen' \in Nat /\ outbox' \subseteq Messages
        /\ queue' \subseteq Events
    BY <1>12 DEF Disconnect, TypeOK
  <2>5. UNCHANGED <<tick, haveTick, deliveryPos, nextBoundary, nextSeq, sessionGen,
                    outputActive, clockRetry, capacityExceeded, blocked, attempts,
                    mode, storageOpen, hostNotes, hostPlaying>>
    BY <1>12, Zenon DEF Disconnect
  <2> QED BY <2>1, <2>2, <2>3, <2>4, <2>5 DEF TypeOK
<1>13. CASE EndPreviousSession
  <2>1. EndSession /\ agenda' \in Seq(Labels)
    BY <1>3, <1>5, <1>13 DEF EndPreviousSession, Doing
  <2>2. capacityExceeded' \in BOOLEAN
    BY <1>13, Zenon DEF EndPreviousSession
  <2>3. UNCHANGED <<controlVars, passVars, noteVars, hostVars>>
    BY <1>13, Zenon DEF EndPreviousSession
  <2> QED BY <2>1, <2>2, <2>3, EndSessionStepTypes DEF TypeOK
<1>14. CASE DispatcherStart
  <2> DEFINE kept == {p \in outbox : ~(p.terminal /\ p.kind = "Stop")}
             entry == Pending(nextSeq, "Start", None, 0, sessionGen + 1, 0, FALSE)
  <2>1. agenda' \in Seq(Labels)
    BY <1>3, <1>5, <1>14 DEF DispatcherStart, Doing
  <2>2. /\ capacityExceeded' \in BOOLEAN /\ outputActive' \in BOOLEAN
        /\ running' \in BOOLEAN /\ haveTick' \in BOOLEAN
    BY <1>14, Zenon DEF DispatcherStart
  <2>3. outbox' \subseteq Messages
    <3>1. kept \subseteq Messages /\ entry \in Messages
      BY DEF TypeOK, Pending, Messages, RealtimeMessages
    <3>2. outbox' = IF mode = "Internal" THEN Push(kept, entry, NormalCapacity) ELSE kept
      BY <1>14, Zenon DEF DispatcherStart
    <3> QED BY <3>1, <3>2 DEF Push
  <2>4. /\ nextSeq' \in Nat /\ sessionGen' \in Nat \ {0} /\ terminalGen' \in Nat
        /\ tick' \in Nat /\ clockRetry' \in Nat \cup {None}
    <3>1. nextSeq' = nextSeq + 1 /\ sessionGen' = sessionGen + 1 /\ terminalGen' = 0
          /\ tick' = 0 /\ clockRetry' = None
      BY <1>14, Zenon DEF DispatcherStart
    <3> QED BY <3>1 DEF TypeOK
  <2>5. UNCHANGED <<deliveryPos, queue, plannerVars, passVars, noteVars, controlVars,
                    hostVars>>
    BY <1>14, Zenon DEF DispatcherStart
  <2> QED BY <2>1, <2>2, <2>3, <2>4, <2>5 DEF TypeOK
<1>15. CASE LaunchSession
  <2>1. agenda' \in Seq(Labels)
    BY <1>1, <1>15 DEF LaunchSession, Doing
  <2>2. /\ seqRunning' \in BOOLEAN /\ internalTiming' \in BOOLEAN
        /\ requiresStart' \in BOOLEAN
    BY <1>15, Zenon DEF LaunchSession
  <2>3. /\ actual' = None /\ projected' = None /\ nextBoundary' = 0
        /\ UNCHANGED <<transportVars, deliveryPos, queue, outboxVars, sessionVars,
                       clockRetry, capacityExceeded, passVars, mode, storageOpen,
                       external, hostVars>>
    BY <1>15, Zenon DEF LaunchSession
  <2> QED BY <2>1, <2>2, <2>3 DEF TypeOK
<1>16. CASE ContinueSession
  <2>1. agenda' \in Seq(Labels)
    BY <1>1, <1>16 DEF ContinueSession, Doing
  <2>2. seqRunning' \in BOOLEAN /\ running' \in BOOLEAN /\ haveTick' \in BOOLEAN
    BY <1>16, Zenon DEF ContinueSession
  <2>3. /\ sessionGen' = sessionGen + 1 /\ terminalGen' = 0 /\ clockRetry' = None
        /\ UNCHANGED <<tick, deliveryPos, queue, nextBoundary, outboxVars, outputActive,
                       capacityExceeded, passVars, noteVars, controlVars, hostVars>>
    BY <1>16, Zenon DEF ContinueSession
  <2> QED BY <2>1, <2>2, <2>3 DEF TypeOK
<1>17. CASE ScheduleDone
  BY <1>1, <1>17 DEF ScheduleDone, Doing, TypeOK
<1>18. ASSUME NEW step \in StepChoices, NEW swing \in Swings, ScheduleStep(step, swing)
       PROVE  TypeOK'
  <2>1. queue' \subseteq Events
    BY <1>18, LaunchAtType DEF ScheduleStep, TypeOK
  <2>2. nextBoundary' \in Nat
    BY <1>18, TimeAssumption DEF ScheduleStep, TypeOK
  <2> QED BY <1>18, <2>1, <2>2 DEF ScheduleStep, TypeOK
<1>19. ASSUME NEW step \in StepChoices, NEW swing \in Swings, ScheduleOverflow(step, swing)
       PROVE  TypeOK'
  <2>1. agenda' \in Seq(Labels)
    BY <1>3, <1>5, <1>19 DEF ScheduleOverflow, Doing, Then
  <2> QED BY <1>19, <2>1 DEF ScheduleOverflow, TypeOK
<1>20. ASSUME NEW phase \in Phases, ConsumeTick(phase) PROVE TypeOK'
  <2>1. agenda # <<>>
    BY <1>20 DEF ConsumeTick, Doing
  <2>2. \/ Then(<<"sendDue", "servicePending", "advance">>)
        \/ Then(<<"advance">>)
        \/ Done
    BY <1>20, Zenon DEF ConsumeTick
  <2>3. agenda' \in Seq(Labels)
    BY <1>1, <1>2, <2>1, <2>2, WorkTypes DEF Labels
  <2>4. deliveryPos' = At(tick, phase) \/ deliveryPos' = deliveryPos
    BY <1>20, Zenon DEF ConsumeTick
  <2>5. deliveryPos' \in Nat
    BY <2>4, PositionType DEF TypeOK
  <2>6. UNCHANGED <<transportVars, queue, plannerVars, outboxVars, sessionVars,
                    clockRetry, capacityExceeded, passVars, noteVars, controlVars,
                    hostVars>>
    BY <1>20, Zenon DEF ConsumeTick
  <2> QED BY <2>3, <2>5, <2>6 DEF TypeOK
<1>21. CASE AdvanceTick
  <2>1. agenda # <<>> /\ Then(<<"sendDue", "servicePending">>)
    BY <1>21 DEF AdvanceTick, Doing
  <2>2. agenda' \in Seq(Labels)
    BY <1>2, <2>1, WorkTypes
  <2>3. queue' \subseteq Events
    BY <1>21 DEF AdvanceTick, DiscardAt, TypeOK
  <2>4. tick' \in Nat /\ nextSeq' \in Nat
    BY <1>21 DEF AdvanceTick, TypeOK
  <2>5. deliveryPos' \in Nat
    <3>1. deliveryPos' = At(tick', 0)
      BY <1>21, Zenon DEF AdvanceTick
    <3>2. 0 \in Phases
      BY TimeAssumption DEF Phases
    <3>3. tick' \in Nat
      BY <2>4
    <3> QED BY <3>1, <3>2, <3>3, PositionType
  <2>6. haveTick' \in BOOLEAN /\ capacityExceeded' \in BOOLEAN
    BY <1>21, Zenon DEF AdvanceTick
  <2>7. outbox' \subseteq Messages
    <3> DEFINE kept == {p \in outbox : ~OwnClock(p)}
               clock == Pending(nextSeq, "Clock", None, 0, sessionGen, tick', FALSE)
    <3>1. kept \subseteq Messages /\ clock \in Messages
      BY <2>4 DEF TypeOK, Pending, Messages, RealtimeMessages
    <3>2. outbox' = IF mode = "Internal" THEN Push(kept, clock, NormalCapacity) ELSE outbox
      BY <1>21, Zenon DEF AdvanceTick
    <3> HIDE DEF kept, clock
    <3> QED BY <3>1, <3>2 DEF Push, TypeOK
  <2>8. UNCHANGED <<running, plannerVars, sessionVars, clockRetry, passVars, noteVars,
                    controlVars, hostVars>>
    BY <1>21, Zenon DEF AdvanceTick
  <2> QED BY <2>2, <2>3, <2>4, <2>5, <2>6, <2>7, <2>8 DEF TypeOK
<1>22. CASE AdvanceRefused
  BY <1>1, <1>22 DEF AdvanceRefused, Doing, TypeOK
<1>23. CASE DispatchDue
  <2>1. agenda # <<>> /\ Then(<<"sendDue", "servicePending">>)
    BY <1>23 DEF DispatchDue, Doing
  <2>2. agenda' \in Seq(Labels)
    BY <1>2, <2>1, WorkTypes
  <2>3. deliveryPos' \in Nat
    <3>1. PICK phase \in Phases : deliveryPos' = At(tick, phase)
      BY <1>23 DEF DispatchDue
    <3> QED BY <3>1, PositionType DEF TypeOK
  <2>4. UNCHANGED <<transportVars, queue, plannerVars, outboxVars, sessionVars,
                    clockRetry, capacityExceeded, passVars, noteVars, controlVars,
                    hostVars>>
    BY <1>23, Zenon DEF DispatchDue
  <2> QED BY <2>2, <2>3, <2>4 DEF TypeOK
<1>24. CASE NothingDue
  BY <1>1, <1>24 DEF NothingDue, Doing, TypeOK
<1>25. CASE SendDueDone
  BY <1>1, <1>25 DEF SendDueDone, Transferring, Doing, TypeOK
<1>26. CASE DropLaunch
  <2>1. queue' \subseteq Events
    BY <1>26 DEF DropLaunch, WithoutLaunch, TypeOK
  <2>2. projected' \in Launches \cup {None}
    BY <1>26 DEF DropLaunch, Forget, TypeOK
  <2>3. UNCHANGED <<transportVars, deliveryPos, plannerVars, sessionVars, clockRetry,
                    passVars, actual, controlVars, hostVars, outboxVars,
                    capacityExceeded, agenda>>
    BY <1>26, Zenon DEF DropLaunch, Transferring
  <2> QED BY <2>1, <2>2, <2>3 DEF TypeOK
<1>27. CASE TransferNoteOff
  <2> DEFINE e == QueueFront(queue)
             entry == Pending(nextSeq, "NoteOff", e.note, e.launch, sessionGen, 0, FALSE)
  <2>1. e \in Events
    BY <1>27, FrontOfQueue DEF TransferNoteOff, EventDue, TypeOK
  <2>2. outbox' \subseteq Messages
    <3>1. entry \in Messages
      BY <2>1 DEF TypeOK, Pending, Messages, NoteMessages, Events
    <3>2. outbox' = Push(outbox, entry, NormalCapacity)
      BY <1>27, Zenon DEF TransferNoteOff
    <3> HIDE DEF entry
    <3> QED BY <3>1, <3>2 DEF Push, TypeOK
  <2>3. queue' \subseteq Events /\ nextSeq' \in Nat
    BY <1>27 DEF TransferNoteOff, TypeOK
  <2>4. capacityExceeded' \in BOOLEAN
    BY <1>27, Zenon DEF TransferNoteOff
  <2>5. agenda' \in Seq(Labels)
    BY <1>1, <1>27 DEF TransferNoteOff, Transferring, Doing, TypeOK
  <2>6. UNCHANGED <<transportVars, deliveryPos, plannerVars, sessionVars, clockRetry,
                    passVars, actual, controlVars, hostVars, projected>>
    BY <1>27, Zenon DEF TransferNoteOff, Transferring
  <2> QED BY <2>2, <2>3, <2>4, <2>5, <2>6 DEF TypeOK
<1>28. CASE TransferNoteOn
  <2> DEFINE e == QueueFront(queue)
             replace == ReplacementDue(e)
             withOff == IF replace THEN Push(outbox, ReplacementOff, Capacity) ELSE outbox
             queueLeft == IF replace THEN WithoutOff(queue, Active.gen, Active.launch)
                          ELSE queue
             fits == /\ replace => HasRoom(outbox, Capacity)
                     /\ HasRoom(withOff, NormalCapacity)
             on == Pending(nextSeq + 1, "NoteOn", e.note, e.launch, sessionGen, e.gate,
                           FALSE)
  <2>1. e \in Events
    BY <1>28, FrontOfQueue DEF TransferNoteOn, EventDue, TypeOK
  <2>2. Active \in Launches \cup {None}
    BY DEF Active, ProjectedOrActual, TypeOK
  <2>3. replace => ReplacementOff \in Messages
    BY <2>2 DEF ReplacementDue, ReplacementOff, Launches, TypeOK, Pending, Messages,
               NoteMessages
  <2>4. on \in Messages
    BY <2>1 DEF TypeOK, Pending, Messages, NoteMessages, Events
  <2>5. withOff \subseteq Messages
    BY <2>3 DEF Push, TypeOK
  <2>6. queueLeft \subseteq Events
    BY DEF WithoutOff, TypeOK
  <2>7. Launch(e.note, e.launch, e.gen) \in Launches
    BY <2>1 DEF Launch, Launches, Events
  <2>8. /\ outbox' = IF fits THEN withOff \cup {on} ELSE withOff
        /\ queue' = IF fits THEN queueLeft \ {e} ELSE queueLeft
        /\ projected' = IF fits THEN Launch(e.note, e.launch, e.gen) ELSE projected
        /\ capacityExceeded' = (capacityExceeded \/ ~fits)
        /\ fits \/ Done
        /\ fits => UNCHANGED agenda
        /\ nextSeq' = nextSeq + 2
    BY <1>28, Zenon DEF TransferNoteOn
  <2>9. capacityExceeded' \in BOOLEAN
    BY <2>8, Zenon
  <2>10. agenda' \in Seq(Labels)
    <3>1. agenda # <<>> /\ agenda \in Seq(Labels)
      BY <1>28 DEF TransferNoteOn, Transferring, Doing, TypeOK
    <3>2. agenda' = agenda \/ Done
      BY <2>8, Zenon
    <3> QED BY <1>1, <3>1, <3>2
  <2>11. UNCHANGED <<transportVars, deliveryPos, plannerVars, sessionVars, clockRetry,
                     passVars, actual, controlVars, hostVars>>
    BY <1>28, Zenon DEF TransferNoteOn, Transferring
  <2> HIDE DEF e, replace, withOff, queueLeft, fits, on
  <2>12. outbox' \subseteq Messages /\ queue' \subseteq Events
         /\ projected' \in Launches \cup {None} /\ nextSeq' \in Nat
    BY <2>4, <2>5, <2>6, <2>7, <2>8 DEF TypeOK
  <2> QED BY <2>9, <2>10, <2>11, <2>12 DEF TypeOK
<1>29. CASE ClockLost
  <2>1. \/ agenda' = <<"stopExternal">> \o Tail(agenda)
        \/ Done
    BY <1>29, Zenon DEF ClockLost
  <2>2. agenda' \in Seq(Labels)
    BY <1>1, <1>3, <1>5, <1>29, <2>1 DEF ClockLost, Doing, Then
  <2>3. external' \in [running : BOOLEAN, seen : BOOLEAN, period : BOOLEAN]
    BY <1>29 DEF ClockLost, Master, TypeOK
  <2>4. UNCHANGED <<transportVars, deliveryPos, queue, plannerVars, outboxVars,
                    sessionVars, clockRetry, capacityExceeded, passVars, noteVars,
                    mode, internalTiming, storageOpen, requiresStart, hostVars>>
    BY <1>29, Zenon DEF ClockLost
  <2> QED BY <2>2, <2>3, <2>4 DEF TypeOK
<1>30. CASE ClockPresent
  BY <1>1, <1>30 DEF ClockPresent, Doing, TypeOK
<1> QED BY <1>7, <1>8, <1>9, <1>10, <1>11, <1>12, <1>13, <1>14, <1>15, <1>16, <1>17,
           <1>18, <1>19, <1>20, <1>21, <1>22, <1>23, <1>24, <1>25, <1>26, <1>27, <1>28,
           <1>29, <1>30 DEF Work

(* Every reachable state is well typed, whatever the grid, the capacities  *)
(* and the steps; in particular a pass never attempts more sends than its  *)
(* budget (servicePending, midi_dispatcher.h:457-548).                     *)
THEOREM TypeCorrect == Spec => []TypeOK
<1>1. Init => TypeOK
  <2>1. Init => /\ running \in BOOLEAN /\ haveTick \in BOOLEAN /\ seqRunning \in BOOLEAN
                /\ outputActive \in BOOLEAN /\ capacityExceeded \in BOOLEAN
                /\ blocked \in BOOLEAN /\ internalTiming \in BOOLEAN
                /\ storageOpen \in BOOLEAN /\ requiresStart \in BOOLEAN
                /\ hostPlaying \in BOOLEAN
    BY Zenon DEF Init
  <2> QED BY <2>1, ControllerAssumption
          DEF Init, TypeOK, ExternalReset, Master, ClockModes
<1>2. TypeOK /\ [Next]_vars => TypeOK'
  <2>1. SUFFICES ASSUME TypeOK, [Next]_vars PROVE TypeOK'
    OBVIOUS
  <2>2. CASE UNCHANGED vars
    BY <2>1, <2>2 DEF vars, transportVars, plannerVars, outboxVars, sessionVars,
                      passVars, noteVars, controlVars, hostVars, TypeOK
  <2> QED BY <2>1, <2>2, OperationTypes, DeliveryTypes, WorkStepTypes DEF Next
<1> QED BY <1>1, <1>2, PTL DEF Spec

-----------------------------------------------------------------------------
(***************************************************************************)
(* What is known of the sessions                                           *)
(***************************************************************************)
Musical(p) == p.kind \in {"NoteOn", "Clock", "Start"}

(* What is pending to be played is of the running session.                 *)
MusicIsLive == \A p \in outbox : Musical(p) => running /\ p.gen = sessionGen

(* A session whose end is queued does not run.                             *)
EndedIsStopped == terminalGen = sessionGen => ~running

(* A transport that runs without its sequencer is about to launch it.      *)
HasLaunch(rest) == \E i \in 1 .. Len(rest) : rest[i] = "launch"

RunningIsLaunched == running => seqRunning \/ HasLaunch(agenda)

(* Moving due events and closing a tick come first in the rest of a pass,  *)
(* so nothing stops the transport before them.                             *)
LiveWork == {"sendDue", "servicePending", "advance"}

(* Steps that need no condition on the state.                              *)
PlainAt(rest, i) ==
  /\ rest[i] \notin {"sendDue", "advance", "continue"}
  /\ rest[i] = "dispatcherStart" =>
       i < Len(rest) /\ rest[i + 1] = "launch" /\ i > 1 /\ rest[i - 1] = "start"

Plain(rest) == \A i \in 1 .. Len(rest) : PlainAt(rest, i)

OrderedAt(rest, i, isRunning) ==
  /\ rest[i] \in {"sendDue", "advance"} =>
       isRunning /\ \A j \in 1 .. i - 1 : rest[j] \in LiveWork
  /\ rest[i] = "dispatcherStart" =>
       /\ i < Len(rest) /\ rest[i + 1] = "launch"
       /\ \/ i > 1 /\ rest[i - 1] = "start"
          \/ ~isRunning /\ \A j \in 1 .. i - 1 : rest[j] = "servicePending"
  /\ rest[i] = "continue" =>
       ~isRunning /\ \A j \in 1 .. i - 1 : rest[j] = "servicePending"

Ordered(rest, isRunning) == \A i \in 1 .. Len(rest) : OrderedAt(rest, i, isRunning)

SessionInv ==
  /\ TypeOK
  /\ MusicIsLive
  /\ EndedIsStopped
  /\ RunningIsLaunched
  /\ Ordered(agenda, running)

-----------------------------------------------------------------------------
(***************************************************************************)
(* The order of the steps of a pass                                        *)
(***************************************************************************)
LEMMA TailAt ==
  ASSUME NEW rest \in Seq(Labels), rest # <<>>
  PROVE  /\ Tail(rest) \in Seq(Labels)
         /\ Len(rest) \in Nat \ {0}
         /\ Len(Tail(rest)) = Len(rest) - 1
         /\ Head(rest) = rest[1]
         /\ \A i \in 1 .. Len(Tail(rest)) : Tail(rest)[i] = rest[i + 1]
  BY HeadTailProperties, LenProperties

LEMMA ConcatAt ==
  ASSUME NEW work \in Seq(Labels), NEW rest \in Seq(Labels)
  PROVE  /\ work \o rest \in Seq(Labels)
         /\ Len(work) \in Nat /\ Len(rest) \in Nat
         /\ Len(work \o rest) = Len(work) + Len(rest)
         /\ \A i \in 1 .. Len(work) : (work \o rest)[i] = work[i]
         /\ \A i \in 1 .. Len(rest) : (work \o rest)[Len(work) + i] = rest[i]
  <1>1. /\ work \o rest \in Seq(Labels)
        /\ Len(work \o rest) = Len(work) + Len(rest)
        /\ \A i \in 1 .. Len(work) + Len(rest) :
             (work \o rest)[i] = IF i <= Len(work) THEN work[i] ELSE rest[i - Len(work)]
    BY ConcatProperties
  <1>2. Len(work) \in Nat /\ Len(rest) \in Nat
    BY LenProperties
  <1> QED
    BY <1>1, <1>2

LEMMA PutAt ==
  ASSUME NEW label \in Labels, NEW rest \in Seq(Labels)
  PROVE  /\ <<label>> \o rest \in Seq(Labels)
         /\ Len(rest) \in Nat
         /\ Len(<<label>> \o rest) = Len(rest) + 1
         /\ (<<label>> \o rest)[1] = label
         /\ \A i \in 1 .. Len(rest) : (<<label>> \o rest)[i + 1] = rest[i]
  <1>1. <<label>> \in Seq(Labels) /\ Len(<<label>>) = 1 /\ <<label>>[1] = label
    OBVIOUS
  <1> QED
    BY <1>1, ConcatAt

LEMMA OrderedTail ==
  ASSUME NEW rest \in Seq(Labels), rest # <<>>, NEW isRunning \in BOOLEAN,
         Ordered(rest, isRunning), Head(rest) # "start"
  PROVE  Ordered(Tail(rest), isRunning)
  <1> DEFINE t == Tail(rest)
  <1>1. /\ Len(rest) \in Nat \ {0} /\ Len(t) = Len(rest) - 1 /\ rest[1] # "start"
        /\ \A i \in 1 .. Len(t) : t[i] = rest[i + 1]
    BY TailAt
  <1> SUFFICES ASSUME NEW i \in 1 .. Len(t) PROVE OrderedAt(t, i, isRunning)
    BY DEF Ordered
  <1> HIDE DEF t
  <1>2. i + 1 \in 1 .. Len(rest) /\ t[i] = rest[i + 1] /\ OrderedAt(rest, i + 1, isRunning)
    BY <1>1 DEF Ordered
  <1>3. \A j \in 1 .. i - 1 : j + 1 \in 1 .. (i + 1) - 1 /\ t[j] = rest[j + 1]
    BY <1>1
  <1>4. i + 1 < Len(rest) => i < Len(t) /\ t[i + 1] = rest[(i + 1) + 1]
    BY <1>1
  <1>5. rest[(i + 1) - 1] = "start" => i > 1 /\ t[i - 1] = "start"
    BY <1>1
  <1> QED
    BY <1>2, <1>3, <1>4, <1>5 DEF OrderedAt

LEMMA PlainTail ==
  ASSUME NEW rest \in Seq(Labels), rest # <<>>, NEW isRunning \in BOOLEAN,
         Ordered(rest, isRunning), Head(rest) \notin LiveWork \cup {"start"}
  PROVE  Plain(Tail(rest))
  <1> DEFINE t == Tail(rest)
  <1>1. /\ Len(rest) \in Nat \ {0} /\ Len(t) = Len(rest) - 1 /\ rest[1] # "start"
        /\ rest[1] \notin LiveWork
        /\ \A i \in 1 .. Len(t) : t[i] = rest[i + 1]
    BY TailAt
  <1> SUFFICES ASSUME NEW i \in 1 .. Len(t) PROVE PlainAt(t, i)
    BY DEF Plain
  <1> HIDE DEF t
  <1>2. i + 1 \in 1 .. Len(rest) /\ t[i] = rest[i + 1] /\ OrderedAt(rest, i + 1, isRunning)
    BY <1>1 DEF Ordered
  <1>3. 1 \in 1 .. (i + 1) - 1
    OBVIOUS
  <1>4. i + 1 < Len(rest) => i < Len(t) /\ t[i + 1] = rest[(i + 1) + 1]
    BY <1>1
  <1>5. rest[(i + 1) - 1] = "start" => i > 1 /\ t[i - 1] = "start"
    BY <1>1
  <1> QED
    BY <1>1, <1>2, <1>3, <1>4, <1>5 DEF OrderedAt, PlainAt, LiveWork

LEMMA PlainIsOrdered ==
  ASSUME NEW rest, NEW isRunning, Plain(rest)
  PROVE  Ordered(rest, isRunning)
  BY DEF Plain, PlainAt, Ordered, OrderedAt

LEMMA PlainPut ==
  ASSUME NEW rest \in Seq(Labels), Plain(rest), NEW label \in Labels,
         label \notin {"sendDue", "advance", "continue", "dispatcherStart"}
  PROVE  Plain(<<label>> \o rest)
  <1> DEFINE t == <<label>> \o rest
  <1>1. /\ Len(rest) \in Nat /\ Len(t) = Len(rest) + 1 /\ t[1] = label
        /\ \A i \in 1 .. Len(rest) : t[i + 1] = rest[i]
    BY PutAt
  <1> SUFFICES ASSUME NEW i \in 1 .. Len(t) PROVE PlainAt(t, i)
    BY DEF Plain
  <1> HIDE DEF t
  <1>2. CASE i = 1
    BY <1>1, <1>2 DEF PlainAt
  <1>3. CASE i > 1
    <2>1. i - 1 \in 1 .. Len(rest) /\ t[i] = rest[i - 1] /\ PlainAt(rest, i - 1)
      BY <1>1, <1>3 DEF Plain
    <2>2. i - 1 < Len(rest) => i < Len(t) /\ t[i + 1] = rest[(i - 1) + 1]
      BY <1>1, <1>3
    <2>3. i - 1 > 1 => t[i - 1] = rest[(i - 1) - 1]
      BY <1>1, <1>3
    <2> QED
      BY <1>3, <2>1, <2>2, <2>3 DEF PlainAt
  <1> QED
    BY <1>2, <1>3

LEMMA LiveConcat ==
  ASSUME NEW work \in Seq(Labels), NEW rest \in Seq(Labels),
         NEW isRunning \in BOOLEAN, isRunning, Ordered(rest, isRunning),
         \A i \in 1 .. Len(work) : work[i] \in LiveWork
  PROVE  Ordered(work \o rest, isRunning)
  <1> DEFINE t == work \o rest
  <1>1. /\ Len(work) \in Nat /\ Len(rest) \in Nat /\ Len(t) = Len(work) + Len(rest)
        /\ \A i \in 1 .. Len(work) : t[i] = work[i]
        /\ \A i \in 1 .. Len(rest) : t[Len(work) + i] = rest[i]
    BY ConcatAt
  <1> SUFFICES ASSUME NEW i \in 1 .. Len(t) PROVE OrderedAt(t, i, isRunning)
    BY DEF Ordered
  <1> HIDE DEF t
  <1>2. CASE i <= Len(work)
    <2>1. \A j \in 1 .. i : t[j] \in LiveWork
      BY <1>1, <1>2
    <2> QED
      BY <2>1 DEF OrderedAt, LiveWork
  <1>3. CASE i > Len(work)
    <2> DEFINE k == i - Len(work)
    <2>1. k \in 1 .. Len(rest) /\ i = Len(work) + k
      BY <1>1, <1>3
    <2>2. t[i] = rest[k] /\ OrderedAt(rest, k, isRunning)
      BY <1>1, <2>1 DEF Ordered
    <2>3. k < Len(rest) => i < Len(t) /\ t[i + 1] = rest[k + 1]
      <3>1. ASSUME k < Len(rest) PROVE k + 1 \in 1 .. Len(rest) /\ Len(work) + (k + 1) = i + 1
        BY <1>1, <2>1, <3>1
      <3> QED
        BY <1>1, <2>1, <3>1
    <2>4. k > 1 => i > 1 /\ t[i - 1] = rest[k - 1]
      <3>1. ASSUME k > 1 PROVE k - 1 \in 1 .. Len(rest) /\ Len(work) + (k - 1) = i - 1
        BY <1>1, <2>1, <3>1
      <3> QED
        BY <1>1, <2>1, <3>1
    <2>5. ASSUME \A j \in 1 .. k - 1 : rest[j] \in LiveWork, NEW j \in 1 .. i - 1
          PROVE  t[j] \in LiveWork
      <3>1. CASE j <= Len(work)
        BY <1>1, <3>1
      <3>2. CASE j > Len(work)
        <4>1. j - Len(work) \in 1 .. Len(rest) /\ j - Len(work) \in 1 .. k - 1
              /\ Len(work) + (j - Len(work)) = j
          BY <1>1, <2>1, <3>2
        <4>2. t[Len(work) + (j - Len(work))] = rest[j - Len(work)]
          BY <1>1, <4>1
        <4> QED
          BY <2>5, <4>1, <4>2
      <3> QED
        BY <1>1, <3>1, <3>2
    <2> HIDE DEF k
    <2>6. t[i] \in {"sendDue", "advance"} =>
            isRunning /\ \A j \in 1 .. i - 1 : t[j] \in LiveWork
      BY <2>2, <2>5 DEF OrderedAt
    <2>7. t[i] = "dispatcherStart" =>
            i < Len(t) /\ t[i + 1] = "launch" /\ i > 1 /\ t[i - 1] = "start"
      BY <2>2, <2>3, <2>4 DEF OrderedAt
    <2>8. t[i] # "continue"
      BY <2>2 DEF OrderedAt
    <2> QED
      BY <2>6, <2>7, <2>8 DEF OrderedAt
  <1>4. i <= Len(work) \/ i > Len(work)
    BY <1>1
  <1> QED
    BY <1>2, <1>3, <1>4, Zenon

LEMMA StartTail ==
  ASSUME NEW rest \in Seq(Labels), rest # <<>>, NEW isRunning \in BOOLEAN,
         Ordered(rest, isRunning), Head(rest) = "start",
         NEW runsNow \in BOOLEAN, ~runsNow
  PROVE  Ordered(<<"servicePending">> \o Tail(rest), runsNow)
  <1> DEFINE t == <<"servicePending">> \o Tail(rest)
  <1>1. "servicePending" \in Labels /\ Tail(rest) \in Seq(Labels)
    BY TailAt DEF Labels
  <1>2. /\ Len(rest) \in Nat \ {0} /\ Len(Tail(rest)) = Len(rest) - 1 /\ rest[1] = "start"
        /\ \A i \in 1 .. Len(Tail(rest)) : Tail(rest)[i] = rest[i + 1]
    BY TailAt
  <1>3. /\ Len(t) = Len(Tail(rest)) + 1 /\ t[1] = "servicePending"
        /\ \A i \in 1 .. Len(Tail(rest)) : t[i + 1] = Tail(rest)[i]
    BY <1>1, PutAt
  <1>4. Len(t) = Len(rest) /\ \A i \in 2 .. Len(rest) : t[i] = rest[i]
    <2>1. ASSUME NEW i \in 2 .. Len(rest) PROVE t[i] = rest[i]
      <3>1. i - 1 \in 1 .. Len(Tail(rest)) /\ (i - 1) + 1 = i
        BY <1>2
      <3>2. t[(i - 1) + 1] = Tail(rest)[i - 1] /\ Tail(rest)[i - 1] = rest[(i - 1) + 1]
        BY <1>2, <1>3, <3>1
      <3> QED
        BY <3>1, <3>2
    <2> QED
      BY <1>2, <1>3, <2>1
  <1> SUFFICES ASSUME NEW i \in 1 .. Len(t) PROVE OrderedAt(t, i, runsNow)
    BY DEF Ordered
  <1> HIDE DEF t
  <1>5. CASE i = 1
    BY <1>3, <1>5 DEF OrderedAt
  <1>6. CASE i > 1
    <2>1. t[i] = rest[i] /\ OrderedAt(rest, i, isRunning) /\ 1 \in 1 .. i - 1
      BY <1>2, <1>4, <1>6 DEF Ordered
    <2>2. i < Len(rest) => i < Len(t) /\ t[i + 1] = rest[i + 1]
      BY <1>2, <1>4, <1>6
    <2>3. rest[1] \notin LiveWork
      BY <1>2 DEF LiveWork
    <2>4. CASE i = 2
      BY <1>2, <1>3, <2>1, <2>2, <2>3, <2>4 DEF OrderedAt, LiveWork
    <2>5. CASE i > 2
      <3>1. t[i - 1] = rest[i - 1]
        BY <1>2, <1>4, <2>5
      <3> QED
        BY <1>2, <2>1, <2>2, <2>3, <2>5, <3>1 DEF OrderedAt, LiveWork
    <2> QED
      BY <1>6, <2>4, <2>5
  <1> QED
    BY <1>5, <1>6
LEMMA PlainConcat ==
  ASSUME NEW work \in Seq(Labels), NEW rest \in Seq(Labels), Plain(work), Plain(rest)
  PROVE  Plain(work \o rest)
  <1> DEFINE t == work \o rest
  <1>1. /\ Len(work) \in Nat /\ Len(rest) \in Nat /\ Len(t) = Len(work) + Len(rest)
        /\ \A i \in 1 .. Len(work) : t[i] = work[i]
        /\ \A i \in 1 .. Len(rest) : t[Len(work) + i] = rest[i]
    BY ConcatAt
  <1> SUFFICES ASSUME NEW i \in 1 .. Len(t) PROVE PlainAt(t, i)
    BY DEF Plain
  <1> HIDE DEF t
  <1>2. CASE i <= Len(work)
    <2>1. i \in 1 .. Len(work) /\ t[i] = work[i] /\ PlainAt(work, i)
      BY <1>1, <1>2 DEF Plain
    <2>2. i < Len(work) => i < Len(t) /\ t[i + 1] = work[i + 1]
      BY <1>1, <1>2
    <2>3. i > 1 => t[i - 1] = work[i - 1]
      BY <1>1, <1>2
    <2> QED
      BY <2>1, <2>2, <2>3 DEF PlainAt
  <1>3. CASE i > Len(work)
    <2> DEFINE k == i - Len(work)
    <2>1. k \in 1 .. Len(rest) /\ i = Len(work) + k
      BY <1>1, <1>3
    <2>2. t[i] = rest[k] /\ PlainAt(rest, k)
      BY <1>1, <2>1 DEF Plain
    <2>3. k < Len(rest) => i < Len(t) /\ t[i + 1] = rest[k + 1]
      <3>1. ASSUME k < Len(rest) PROVE k + 1 \in 1 .. Len(rest) /\ Len(work) + (k + 1) = i + 1
        BY <1>1, <2>1, <3>1
      <3> QED
        BY <1>1, <2>1, <3>1
    <2>4. k > 1 => i > 1 /\ t[i - 1] = rest[k - 1]
      <3>1. ASSUME k > 1 PROVE k - 1 \in 1 .. Len(rest) /\ Len(work) + (k - 1) = i - 1
        BY <1>1, <2>1, <3>1
      <3> QED
        BY <1>1, <2>1, <3>1
    <2> HIDE DEF k
    <2> QED
      BY <2>2, <2>3, <2>4 DEF PlainAt
  <1>4. i <= Len(work) \/ i > Len(work)
    BY <1>1
  <1> QED
    BY <1>2, <1>3, <1>4, Zenon

LEMMA PlainWork ==
  /\ Plain(FinishPass)
  /\ Plain(StartSession)
  /\ Plain(<<>>)
  /\ \A label \in Labels \ {"sendDue", "advance", "continue", "dispatcherStart"} :
       Plain(<<label>>)
  <1>1. Plain(FinishPass)
    BY DEF FinishPass, Plain, PlainAt
  <1>2. Plain(StartSession)
    <2>1. Len(StartSession) = 4
      BY DEF StartSession
    <2>2. StartSession[1] = "start" /\ StartSession[2] = "dispatcherStart"
          /\ StartSession[3] = "launch" /\ StartSession[4] = "schedule"
      BY DEF StartSession
    <2>3. \A i \in 1 .. 4 : i = 1 \/ i = 2 \/ i = 3 \/ i = 4
      OBVIOUS
    <2> QED
      BY <2>1, <2>2, <2>3 DEF Plain, PlainAt
  <1>3. Plain(<<>>)
    BY DEF Plain
  <1>4. \A label \in Labels \ {"sendDue", "advance", "continue", "dispatcherStart"} :
          Plain(<<label>>)
    BY DEF Plain, PlainAt
  <1> QED
    BY <1>1, <1>2, <1>3, <1>4

LEMMA PlainPass ==
  ASSUME NEW work \in Seq(Labels), Plain(work), NEW isRunning
  PROVE  Ordered(<<"servicePending">> \o work \o FinishPass, isRunning)
  <1>1. "servicePending" \in Labels /\ FinishPass \in Seq(Labels)
    BY WorkTypes DEF Labels
  <1>2. Plain(<<"servicePending">> \o work)
    BY <1>1, PlainPut
  <1>3. <<"servicePending">> \o work \in Seq(Labels)
    BY <1>1, PutAt
  <1>4. Plain(<<"servicePending">> \o work \o FinishPass)
    BY <1>1, <1>2, <1>3, PlainConcat, PlainWork
  <1> QED
    BY <1>4, PlainIsOrdered

LEMMA ContinuePass ==
  ASSUME NEW isRunning \in BOOLEAN, ~isRunning
  PROVE  Ordered(<<"servicePending">> \o <<"continue">> \o FinishPass, isRunning)
  <1> DEFINE work == <<"servicePending">> \o <<"continue">>
             t == work \o FinishPass
  <1>1. FinishPass \in Seq(Labels) /\ Len(FinishPass) = 3
        /\ FinishPass[1] = "capCheck" /\ FinishPass[2] = "servicePending"
        /\ FinishPass[3] = "lifecycle"
    BY WorkTypes DEF FinishPass
  <1>2. work \in Seq(Labels) /\ Len(work) = 2 /\ work[1] = "servicePending"
        /\ work[2] = "continue"
    BY DEF Labels
  <1>3. /\ Len(t) = Len(work) + Len(FinishPass)
        /\ \A i \in 1 .. Len(work) : t[i] = work[i]
        /\ \A i \in 1 .. Len(FinishPass) : t[Len(work) + i] = FinishPass[i]
    <2> HIDE DEF work
    <2> QED
      BY <1>1, <1>2, ConcatAt
  <1> HIDE DEF work, t
  <1>4. Len(t) = 5 /\ t[1] = "servicePending" /\ t[2] = "continue"
        /\ \A i \in 3 .. 5 : t[i] \in {"capCheck", "servicePending", "lifecycle"}
    <2>1. t[1] = "servicePending" /\ t[2] = "continue"
      BY <1>2, <1>3
    <2>2. t[2 + 1] = "capCheck" /\ t[2 + 2] = "servicePending" /\ t[2 + 3] = "lifecycle"
      BY <1>1, <1>2, <1>3
    <2>3. \A i \in 3 .. 5 : i = 2 + 1 \/ i = 2 + 2 \/ i = 2 + 3
      OBVIOUS
    <2> QED
      BY <1>1, <1>2, <1>3, <2>1, <2>2, <2>3
  <1>5. ASSUME NEW i \in 1 .. 5 PROVE OrderedAt(t, i, isRunning)
    <2>1. CASE i = 1
      BY <1>4, <2>1 DEF OrderedAt
    <2>2. CASE i = 2
      BY <1>4, <2>2 DEF OrderedAt
    <2>3. CASE i \in 3 .. 5
      BY <1>4, <2>3 DEF OrderedAt
    <2>4. i = 1 \/ i = 2 \/ i \in 3 .. 5
      OBVIOUS
    <2> QED
      BY <2>1, <2>2, <2>3, <2>4, Zenon
  <1>6. Ordered(t, isRunning)
    BY <1>4, <1>5, Zenon DEF Ordered
  <1> QED
    BY <1>6, Zenon DEF t, work

LEMMA LaunchKept ==
  ASSUME NEW rest \in Seq(Labels), rest # <<>>, Head(rest) # "launch", HasLaunch(rest)
  PROVE  HasLaunch(Tail(rest))
  <1>1. /\ Len(rest) \in Nat \ {0} /\ Len(Tail(rest)) = Len(rest) - 1
        /\ rest[1] # "launch"
        /\ \A i \in 1 .. Len(Tail(rest)) : Tail(rest)[i] = rest[i + 1]
    BY TailAt
  <1>2. PICK i \in 1 .. Len(rest) : rest[i] = "launch"
    BY DEF HasLaunch
  <1>3. i - 1 \in 1 .. Len(Tail(rest)) /\ (i - 1) + 1 = i
    BY <1>1, <1>2
  <1>4. Tail(rest)[i - 1] = rest[(i - 1) + 1]
    BY <1>1, <1>3
  <1> QED
    BY <1>2, <1>3, <1>4 DEF HasLaunch

LEMMA LaunchPut ==
  ASSUME NEW work \in Seq(Labels), NEW rest \in Seq(Labels), HasLaunch(rest)
  PROVE  HasLaunch(work \o rest)
  <1>1. PICK i \in 1 .. Len(rest) : rest[i] = "launch"
    BY DEF HasLaunch
  <1>2. /\ Len(work) + i \in 1 .. Len(work \o rest)
        /\ (work \o rest)[Len(work) + i] = rest[i]
    BY <1>1, ConcatAt
  <1> QED
    BY <1>1, <1>2 DEF HasLaunch

-----------------------------------------------------------------------------
(***************************************************************************)
(* The steps of a pass                                                     *)
(***************************************************************************)
(* A step that ends or lifts out something of the outbox, and goes on.     *)
LEMMA QuietStep ==
  ASSUME SessionInv, TypeOK', outbox' \subseteq outbox,
         UNCHANGED <<running, seqRunning, sessionGen, terminalGen>>,
         agenda # <<>>, agenda' = Tail(agenda), Head(agenda) \notin {"start", "launch"}
  PROVE  SessionInv'
  <1>1. agenda \in Seq(Labels) /\ running \in BOOLEAN
    BY DEF SessionInv, TypeOK
  <1>2. Ordered(agenda', running')
    <2>1. Ordered(Tail(agenda), running)
      BY <1>1, OrderedTail DEF SessionInv
    <2> QED
      BY <2>1, Zenon
  <1>3. HasLaunch(agenda) => HasLaunch(agenda')
    BY <1>1, LaunchKept
  <1>4. MusicIsLive' /\ EndedIsStopped'
    BY DEF SessionInv, MusicIsLive, EndedIsStopped
  <1>5. RunningIsLaunched'
    BY <1>3 DEF SessionInv, RunningIsLaunched
  <1> QED
    BY <1>2, <1>4, <1>5, Zenon DEF SessionInv

(* A step that goes on within the same step of the pass.                   *)
LEMMA SameStep ==
  ASSUME SessionInv, TypeOK', outbox' \subseteq outbox,
         UNCHANGED <<running, seqRunning, sessionGen, terminalGen, agenda>>
  PROVE  SessionInv'
  <1>1. MusicIsLive' /\ EndedIsStopped' /\ RunningIsLaunched'
    BY DEF SessionInv, MusicIsLive, EndedIsStopped, RunningIsLaunched
  <1>2. Ordered(agenda', running')
    BY Zenon DEF SessionInv
  <1> QED
    BY <1>1, <1>2, Zenon DEF SessionInv

(* A step that stops what runs, or is to, asks for another look at the     *)
(* outbox or for a stop.                                                   *)
LEMMA PutStep ==
  ASSUME SessionInv, agenda # <<>>, Head(agenda) \notin LiveWork \cup {"start"},
         NEW label \in {"servicePending", "stop", "stopExternal"},
         NEW isRunning
  PROVE  /\ Ordered(<<label>> \o Tail(agenda), isRunning)
         /\ Ordered(Tail(agenda), isRunning)
  <1>1. agenda \in Seq(Labels) /\ running \in BOOLEAN /\ Ordered(agenda, running)
    BY DEF SessionInv, TypeOK
  <1>2. Tail(agenda) \in Seq(Labels)
    BY <1>1, TailAt
  <1>3. Plain(Tail(agenda))
    BY <1>1, PlainTail
  <1>4. label \in Labels
        /\ label \notin {"sendDue", "advance", "continue", "dispatcherStart"}
    BY DEF Labels
  <1>5. Plain(<<label>> \o Tail(agenda))
    BY <1>2, <1>3, <1>4, PlainPut
  <1> QED
    BY <1>3, <1>5, PlainIsOrdered

LEMMA EndLeavesNoMusic ==
  ASSUME SessionInv, EndSession
  PROVE  \A p \in outbox' : ~Musical(p)
  <1>1. CASE terminalGen = sessionGen
    BY <1>1 DEF EndSession, SessionInv, MusicIsLive, EndedIsStopped
  <1>2. CASE terminalGen # sessionGen
    <2>1. outbox' = WithTerminalStop
      BY <1>2 DEF EndSession
    <2>2. \A p \in Kept : ~Musical(p)
      BY DEF SessionInv, MusicIsLive, Musical, Kept, Cancelled
    <2>3. \A p \in WithTerminalOff : ~Musical(p)
      BY <2>2 DEF WithTerminalOff, Push, Pending, Musical
    <2>4. \A p \in WithTerminalStop : ~Musical(p)
      BY <2>3 DEF WithTerminalStop, Push, Pending, Musical
    <2> QED
      BY <2>1, <2>4
  <1> QED
    BY <1>1, <1>2

LEMMA EndKeeps ==
  ASSUME SessionInv, TypeOK', EndSession, Ordered(agenda', running')
  PROVE  SessionInv'
  <1>1. ~running' /\ ~seqRunning'
    BY DEF EndSession
  <1>2. MusicIsLive'
    BY EndLeavesNoMusic DEF MusicIsLive, Musical
  <1>3. EndedIsStopped' /\ RunningIsLaunched'
    BY <1>1 DEF EndedIsStopped, RunningIsLaunched
  <1> QED
    BY <1>2, <1>3, Zenon DEF SessionInv

(* Every send, refused or not, only takes from the outbox.                 *)
LEMMA DeliveryKeeps ==
  ASSUME SessionInv, Delivery, TypeOK'
  PROVE  SessionInv'
  <1> USE DEF transportVars, plannerVars, outboxVars, sessionVars, passVars, noteVars,
              controlVars, hostVars
  <1>1. agenda # <<>> /\ Head(agenda) = "servicePending"
    BY DEF Delivery, ServiceEnded, RetryWindowExceeded, OutboxDrained, SendAccepted,
           SendRetryLater, SendDisconnected, Attempt, CanSend, Doing
  <1>2. outbox' \subseteq outbox
    BY DEF Delivery, ServiceEnded, RetryWindowExceeded, OutboxDrained, SendAccepted,
           SendRetryLater, SendDisconnected, Live
  <1>3. UNCHANGED <<running, seqRunning, sessionGen, terminalGen>>
    BY Zenon DEF Delivery, ServiceEnded, RetryWindowExceeded, OutboxDrained, SendAccepted,
           SendRetryLater, SendDisconnected, Attempt
  <1>4. agenda' = agenda \/ agenda' = Tail(agenda)
    BY Zenon DEF Delivery, ServiceEnded, RetryWindowExceeded, OutboxDrained, SendAccepted,
           SendRetryLater, SendDisconnected, Done
  <1>5. CASE agenda' = agenda
    BY <1>2, <1>3, <1>5, SameStep
  <1>6. CASE agenda' = Tail(agenda)
    BY <1>1, <1>2, <1>3, <1>6, QuietStep
  <1> QED
    BY <1>4, <1>5, <1>6, Zenon

(* What the order says of the step at hand.                                *)
LEMMA AtHand ==
  ASSUME SessionInv, agenda # <<>>
  PROVE  /\ Head(agenda) \in {"sendDue", "advance"} => running
         /\ Head(agenda) \in {"dispatcherStart", "continue"} => ~running
         /\ Head(agenda) = "dispatcherStart" => HasLaunch(Tail(agenda))
  <1>1. agenda \in Seq(Labels) /\ running \in BOOLEAN
    BY DEF SessionInv, TypeOK
  <1>2. /\ Len(agenda) \in Nat \ {0} /\ Head(agenda) = agenda[1]
        /\ Len(Tail(agenda)) = Len(agenda) - 1
        /\ \A i \in 1 .. Len(Tail(agenda)) : Tail(agenda)[i] = agenda[i + 1]
    BY <1>1, TailAt
  <1>3. OrderedAt(agenda, 1, running)
    BY <1>2 DEF SessionInv, Ordered
  <1>4. /\ Head(agenda) \in {"sendDue", "advance"} => running
        /\ Head(agenda) \in {"dispatcherStart", "continue"} => ~running
    BY <1>2, <1>3 DEF OrderedAt
  <1>5. Head(agenda) = "dispatcherStart" => HasLaunch(Tail(agenda))
    <2>1. ASSUME Head(agenda) = "dispatcherStart" PROVE HasLaunch(Tail(agenda))
      <3>1. 1 < Len(agenda) /\ agenda[1 + 1] = "launch"
        BY <1>2, <1>3, <2>1 DEF OrderedAt
      <3>2. 1 \in 1 .. Len(Tail(agenda)) /\ Tail(agenda)[1] = agenda[1 + 1]
        BY <1>2, <3>1
      <3> QED
        BY <3>1, <3>2 DEF HasLaunch
    <2> QED
      BY <2>1
  <1> QED
    BY <1>4, <1>5

(* Nothing musical waits while nothing runs.                               *)
LEMMA SilentWhenStopped ==
  ASSUME SessionInv, ~running
  PROVE  \A p \in outbox : ~Musical(p)
  BY DEF SessionInv, MusicIsLive

LEMMA EndStepsKeep ==
  ASSUME SessionInv, TypeOK',
         StopSession \/ CapacityStop \/ RetryWindowStop \/ EndPreviousSession
  PROVE  SessionInv'
  <1>1. EndSession /\ agenda # <<>> /\ ~running'
    BY DEF StopSession, Stop, CapacityStop, RetryWindowStop, EndPreviousSession, Doing,
           EndSession
  <1>2. CASE StopSession \/ CapacityStop
    <2>1. Head(agenda) \in {"stop", "stopExternal", "capCheck"}
          /\ agenda' = <<"servicePending">> \o Tail(agenda)
      BY <1>2 DEF StopSession, Stop, CapacityStop, Doing, Then
    <2>2. Ordered(<<"servicePending">> \o Tail(agenda), running')
      BY <1>1, <2>1, PutStep DEF LiveWork
    <2> QED
      BY <1>1, <2>1, <2>2, EndKeeps
  <1>3. CASE RetryWindowStop
    <2>1. Head(agenda) = "lifecycle" /\ agenda' = Tail(agenda)
      BY <1>3 DEF RetryWindowStop, Doing, Done
    <2>2. Ordered(Tail(agenda), running')
      BY <1>1, <2>1, PutStep DEF LiveWork
    <2> QED
      BY <1>1, <2>1, <2>2, EndKeeps
  <1>4. CASE EndPreviousSession
    <2>1. Head(agenda) = "start" /\ agenda' = <<"servicePending">> \o Tail(agenda)
      BY <1>4 DEF EndPreviousSession, Doing, Then
    <2>2. agenda \in Seq(Labels) /\ running \in BOOLEAN /\ Ordered(agenda, running)
          /\ running' \in BOOLEAN
      BY DEF SessionInv, TypeOK
    <2>3. Ordered(<<"servicePending">> \o Tail(agenda), running')
      BY <1>1, <2>1, <2>2, StartTail
    <2> QED
      BY <1>1, <2>1, <2>3, EndKeeps
  <1> QED
    BY <1>2, <1>3, <1>4

LEMMA DisconnectKeeps ==
  ASSUME SessionInv, TypeOK', Disconnect
  PROVE  SessionInv'
  <1>1. Head(agenda) = "lifecycle" /\ agenda # <<>> /\ agenda' = Tail(agenda)
    BY DEF Disconnect, Doing, Done
  <1>2. Ordered(agenda', running')
    <2>1. Ordered(Tail(agenda), running')
      BY <1>1, PutStep DEF LiveWork
    <2> QED
      BY <1>1, <2>1
  <1>3. MusicIsLive' /\ EndedIsStopped' /\ RunningIsLaunched'
    BY DEF Disconnect, MusicIsLive, EndedIsStopped, RunningIsLaunched
  <1> QED
    BY <1>2, <1>3, Zenon DEF SessionInv

(* A session begins behind the end of the one before, with an outbox that  *)
(* holds nothing but its Start.                                            *)
LEMMA DispatcherStartKeeps ==
  ASSUME SessionInv, TypeOK', DispatcherStart
  PROVE  SessionInv'
  <1>1. /\ Head(agenda) = "dispatcherStart" /\ agenda # <<>>
        /\ agenda' = <<"servicePending">> \o Tail(agenda)
    BY DEF DispatcherStart, Doing, Then
  <1>2. Ordered(agenda', running')
    <2>1. Ordered(<<"servicePending">> \o Tail(agenda), running')
      BY <1>1, PutStep DEF LiveWork
    <2> QED
      BY <1>1, <2>1
  <1>3. sessionGen' = sessionGen + 1 /\ terminalGen' = 0 /\ running'
    BY DEF DispatcherStart
  <1>4. MusicIsLive'
    <2>1. \A p \in outbox : ~Musical(p)
      BY <1>1, AtHand, SilentWhenStopped
    <2>2. \A p \in outbox' : p \in outbox \/ p.gen = sessionGen + 1
      BY DEF DispatcherStart, Push, Pending
    <2> QED
      BY <1>3, <2>1, <2>2 DEF MusicIsLive, Musical
  <1>5. EndedIsStopped'
    BY <1>3 DEF EndedIsStopped, SessionInv, TypeOK
  <1>6. RunningIsLaunched'
    <2>1. HasLaunch(Tail(agenda))
      BY <1>1, AtHand
    <2>2. <<"servicePending">> \in Seq(Labels) /\ Tail(agenda) \in Seq(Labels)
      BY <1>1, TailAt DEF Labels, SessionInv, TypeOK
    <2>3. HasLaunch(<<"servicePending">> \o Tail(agenda))
      BY <2>1, <2>2, LaunchPut
    <2> QED
      BY <1>1, <2>3 DEF RunningIsLaunched
  <1> QED
    BY <1>2, <1>4, <1>5, <1>6, Zenon DEF SessionInv

LEMMA LaunchKeeps ==
  ASSUME SessionInv, TypeOK', LaunchSession
  PROVE  SessionInv'
  <1> USE DEF transportVars, outboxVars, sessionVars
  <1>1. Head(agenda) = "launch" /\ agenda # <<>> /\ agenda' = Tail(agenda)
    BY DEF LaunchSession, Doing, Done
  <1>2. Ordered(agenda', running')
    <2>1. Ordered(Tail(agenda), running')
      BY <1>1, PutStep DEF LiveWork
    <2> QED
      BY <1>1, <2>1
  <1>3. MusicIsLive' /\ EndedIsStopped' /\ RunningIsLaunched'
    BY DEF LaunchSession, SessionInv, MusicIsLive, EndedIsStopped, RunningIsLaunched
  <1> QED
    BY <1>2, <1>3, Zenon DEF SessionInv

LEMMA ContinueKeeps ==
  ASSUME SessionInv, TypeOK', ContinueSession
  PROVE  SessionInv'
  <1> USE DEF outboxVars
  <1>1. Head(agenda) = "continue" /\ agenda # <<>> /\ agenda' = Tail(agenda)
    BY DEF ContinueSession, Doing, Done
  <1>2. Ordered(agenda', running')
    <2>1. Ordered(Tail(agenda), running')
      BY <1>1, PutStep DEF LiveWork
    <2> QED
      BY <1>1, <2>1
  <1>3. MusicIsLive'
    <2>1. \A p \in outbox : ~Musical(p)
      BY <1>1, AtHand, SilentWhenStopped
    <2> QED
      BY <2>1 DEF ContinueSession, MusicIsLive, Musical
  <1>4. EndedIsStopped' /\ RunningIsLaunched'
    BY DEF ContinueSession, EndedIsStopped, RunningIsLaunched, SessionInv, TypeOK
  <1> QED
    BY <1>2, <1>3, <1>4, Zenon DEF SessionInv

(* More to do before the rest of the pass, for the same session.           *)
LEMMA MoreWork ==
  ASSUME SessionInv, TypeOK', MusicIsLive', NEW work \in Seq(Labels),
         agenda # <<>>, agenda' = work \o Tail(agenda),
         Head(agenda) \notin {"start", "launch"}, Ordered(work \o Tail(agenda), running),
         UNCHANGED <<running, seqRunning, sessionGen, terminalGen>>
  PROVE  SessionInv'
  <1>1. agenda \in Seq(Labels) /\ Tail(agenda) \in Seq(Labels)
    BY TailAt DEF SessionInv, TypeOK
  <1>2. HasLaunch(agenda) => HasLaunch(agenda')
    BY <1>1, LaunchKept, LaunchPut
  <1>3. EndedIsStopped' /\ RunningIsLaunched'
    BY <1>2 DEF SessionInv, EndedIsStopped, RunningIsLaunched
  <1>4. Ordered(agenda', running')
    BY Zenon
  <1> QED
    BY <1>3, <1>4, Zenon DEF SessionInv

LEMMA LiveStep ==
  ASSUME SessionInv, agenda # <<>>, Head(agenda) # "start", running,
         NEW work \in {<<"sendDue", "servicePending", "advance">>, <<"advance">>,
                       <<"sendDue", "servicePending">>}
  PROVE  work \in Seq(Labels) /\ Ordered(work \o Tail(agenda), running)
  <1>1. agenda \in Seq(Labels) /\ running \in BOOLEAN /\ Ordered(agenda, running)
    BY DEF SessionInv, TypeOK
  <1>2. Tail(agenda) \in Seq(Labels) /\ Ordered(Tail(agenda), running)
    BY <1>1, TailAt, OrderedTail
  <1>3. work \in Seq(Labels)
    <2>1. {"sendDue", "servicePending", "advance"} \subseteq Labels
      BY DEF Labels
    <2> HIDE DEF Labels
    <2>2. /\ <<"sendDue", "servicePending", "advance">> \in Seq(Labels)
          /\ <<"advance">> \in Seq(Labels)
          /\ <<"sendDue", "servicePending">> \in Seq(Labels)
      BY <2>1
    <2> QED
      BY <2>2, Zenon
  <1>4. \A i \in 1 .. Len(work) : work[i] \in LiveWork
    BY DEF LiveWork
  <1> QED
    BY <1>1, <1>2, <1>3, <1>4, LiveConcat

LEMMA PlanningKeeps ==
  ASSUME SessionInv, TypeOK',
         \/ ScheduleDone
         \/ \E step \in StepChoices, swing \in Swings : ScheduleStep(step, swing)
         \/ \E step \in StepChoices, swing \in Swings : ScheduleOverflow(step, swing)
  PROVE  SessionInv'
  <1> USE DEF transportVars, plannerVars, outboxVars, sessionVars
  <1>1. CASE ScheduleDone
    <2>1. /\ agenda # <<>> /\ Head(agenda) = "schedule" /\ agenda' = Tail(agenda)
          /\ UNCHANGED <<running, seqRunning, sessionGen, terminalGen, outbox>>
      BY <1>1 DEF ScheduleDone, Doing, Done
    <2> QED
      BY <2>1, QuietStep
  <1>2. ASSUME NEW step \in StepChoices, NEW swing \in Swings, ScheduleStep(step, swing)
        PROVE  SessionInv'
    <2>1. UNCHANGED <<running, seqRunning, sessionGen, terminalGen, outbox, agenda>>
      BY <1>2, Zenon DEF ScheduleStep
    <2> QED
      BY <2>1, SameStep
  <1>3. ASSUME NEW step \in StepChoices, NEW swing \in Swings, ScheduleOverflow(step, swing)
        PROVE  SessionInv'
    <2>1. /\ agenda # <<>> /\ Head(agenda) = "schedule"
          /\ agenda' = <<"stop">> \o Tail(agenda)
          /\ UNCHANGED <<running, seqRunning, sessionGen, terminalGen, outbox>>
      BY <1>3, Zenon DEF ScheduleOverflow, Doing
    <2>2. Ordered(<<"stop">> \o Tail(agenda), running)
      BY <2>1, PutStep DEF LiveWork
    <2>3. <<"stop">> \in Seq(Labels) /\ MusicIsLive'
      BY <2>1 DEF Labels, MusicIsLive, SessionInv
    <2> QED
      BY <2>1, <2>2, <2>3, MoreWork
  <1> QED
    BY <1>1, <1>2, <1>3

LEMMA ClockLossKeeps ==
  ASSUME SessionInv, TypeOK', ClockLost \/ ClockPresent
  PROVE  SessionInv'
  <1> USE DEF transportVars, plannerVars, outboxVars, sessionVars
  <1>1. /\ agenda # <<>> /\ Head(agenda) = "clockLoss"
        /\ UNCHANGED <<running, seqRunning, sessionGen, terminalGen, outbox>>
        /\ \/ agenda' = Tail(agenda)
           \/ agenda' = <<"stopExternal">> \o Tail(agenda)
    BY Zenon DEF ClockLost, ClockPresent, Doing, Done
  <1>2. CASE agenda' = Tail(agenda)
    BY <1>1, <1>2, QuietStep
  <1>3. CASE agenda' = <<"stopExternal">> \o Tail(agenda)
    <2>1. Ordered(<<"stopExternal">> \o Tail(agenda), running)
      BY <1>1, PutStep DEF LiveWork
    <2>2. <<"stopExternal">> \in Seq(Labels) /\ MusicIsLive'
      BY <1>1 DEF Labels, MusicIsLive, SessionInv
    <2> QED
      BY <1>1, <1>3, <2>1, <2>2, MoreWork
  <1> QED
    BY <1>1, <1>2, <1>3

(* A tick opens, and closes, only while the transport runs.                *)
LEMMA TickKeeps ==
  ASSUME SessionInv, TypeOK',
         \/ \E phase \in Phases : ConsumeTick(phase)
         \/ AdvanceTick \/ AdvanceRefused \/ DispatchDue \/ NothingDue
  PROVE  SessionInv'
  <1> USE DEF transportVars, plannerVars, outboxVars, sessionVars
  <1>1. CASE AdvanceRefused \/ NothingDue
    <2>1. /\ agenda # <<>> /\ Head(agenda) \in {"advance", "dispatchDue"}
          /\ agenda' = Tail(agenda)
          /\ UNCHANGED <<running, seqRunning, sessionGen, terminalGen, outbox>>
      BY <1>1 DEF AdvanceRefused, NothingDue, Doing, Done
    <2> QED
      BY <2>1, QuietStep
  <1>2. CASE DispatchDue
    <2>1. /\ agenda # <<>> /\ Head(agenda) = "dispatchDue" /\ running
          /\ agenda' = <<"sendDue", "servicePending">> \o Tail(agenda)
          /\ UNCHANGED <<running, seqRunning, sessionGen, terminalGen, outbox>>
      BY <1>2, Zenon DEF DispatchDue, Doing, Then
    <2>2. MusicIsLive'
      BY <2>1 DEF MusicIsLive, SessionInv
    <2> QED
      BY <2>1, <2>2, LiveStep, MoreWork
  <1>3. ASSUME NEW phase \in Phases, ConsumeTick(phase)
        PROVE  SessionInv'
    <2>1. /\ agenda # <<>> /\ Head(agenda) = "consumeTick"
          /\ UNCHANGED <<running, seqRunning, sessionGen, terminalGen, outbox>>
          /\ \/ running
                /\ agenda' = <<"sendDue", "servicePending", "advance">> \o Tail(agenda)
             \/ running /\ agenda' = <<"advance">> \o Tail(agenda)
             \/ agenda' = Tail(agenda)
      BY <1>3, Zenon DEF ConsumeTick, Doing, Then, Done
    <2>2. MusicIsLive'
      BY <2>1 DEF MusicIsLive, SessionInv
    <2>3. CASE running
               /\ agenda' = <<"sendDue", "servicePending", "advance">> \o Tail(agenda)
      BY <2>1, <2>2, <2>3, LiveStep, MoreWork
    <2>4. CASE running /\ agenda' = <<"advance">> \o Tail(agenda)
      BY <2>1, <2>2, <2>4, LiveStep, MoreWork
    <2>5. CASE agenda' = Tail(agenda)
      BY <2>1, <2>5, QuietStep
    <2> QED
      BY <2>1, <2>3, <2>4, <2>5
  <1>4. CASE AdvanceTick
    <2>1. /\ agenda # <<>> /\ Head(agenda) = "advance"
          /\ agenda' = <<"sendDue", "servicePending">> \o Tail(agenda)
          /\ UNCHANGED <<running, seqRunning, sessionGen, terminalGen>>
      BY <1>4, Zenon DEF AdvanceTick, Doing, Then
    <2>2. running
      BY <2>1, AtHand
    <2>3. \A p \in outbox' : p \in outbox \/ p.gen = sessionGen
      BY <1>4 DEF AdvanceTick, Push, Pending
    <2>4. MusicIsLive'
      BY <2>1, <2>2, <2>3 DEF MusicIsLive, SessionInv
    <2> QED
      BY <2>1, <2>2, <2>4, LiveStep, MoreWork
  <1> QED
    BY <1>1, <1>2, <1>3, <1>4

(* A NoteOn enters the outbox only for the session that runs.              *)
LEMMA TransferKeeps ==
  ASSUME SessionInv, TypeOK',
         SendDueDone \/ DropLaunch \/ TransferNoteOff \/ TransferNoteOn
  PROVE  SessionInv'
  <1> USE DEF transportVars, plannerVars, outboxVars, sessionVars
  <1>1. /\ agenda # <<>> /\ Head(agenda) = "sendDue"
        /\ UNCHANGED <<running, seqRunning, sessionGen, terminalGen>>
    BY Zenon DEF SendDueDone, DropLaunch, TransferNoteOff, TransferNoteOn, Transferring,
                 Doing
  <1>2. agenda' = agenda \/ agenda' = Tail(agenda)
    BY Zenon DEF SendDueDone, DropLaunch, TransferNoteOff, TransferNoteOn, Done
  <1>3. running
    BY <1>1, AtHand
  <1>4. \A p \in outbox' : p \in outbox \/ p.gen = sessionGen
    <2>1. CASE SendDueDone \/ DropLaunch
      BY <2>1 DEF SendDueDone, DropLaunch
    <2>2. CASE TransferNoteOff
      BY <2>2 DEF TransferNoteOff, Push, Pending
    <2>3. CASE TransferNoteOn
      BY <2>3 DEF TransferNoteOn, ReplacementOff, Push, Pending
    <2> QED
      BY <2>1, <2>2, <2>3
  <1>5. MusicIsLive'
    BY <1>1, <1>3, <1>4 DEF MusicIsLive, SessionInv
  <1>6. agenda \in Seq(Labels) /\ running \in BOOLEAN /\ Ordered(agenda, running)
    BY DEF SessionInv, TypeOK
  <1>7. EndedIsStopped'
    BY <1>1 DEF EndedIsStopped, SessionInv
  <1>8. RunningIsLaunched'
    BY <1>1, <1>2, <1>6, LaunchKept DEF RunningIsLaunched, SessionInv
  <1>9. Ordered(agenda', running')
    <2>1. Ordered(agenda', running)
      BY <1>1, <1>2, <1>6, OrderedTail
    <2> QED
      BY <1>1, <2>1, Zenon
  <1> QED
    BY <1>5, <1>7, <1>8, <1>9, Zenon DEF SessionInv

LEMMA WorkKeeps ==
  ASSUME SessionInv, Work, TypeOK'
  PROVE  SessionInv'
  <1>1. CASE CapacityKept \/ NoOutcome
    <2>1. /\ agenda # <<>> /\ Head(agenda) \in {"capCheck", "lifecycle"}
          /\ agenda' = Tail(agenda)
          /\ UNCHANGED <<running, seqRunning, sessionGen, terminalGen, outbox>>
      BY <1>1 DEF CapacityKept, NoOutcome, Doing, Done, transportVars, plannerVars,
                  outboxVars, sessionVars
    <2> QED
      BY <2>1, QuietStep
  <1> QED
    BY <1>1, EndStepsKeep, DisconnectKeeps, DispatcherStartKeeps, LaunchKeeps,
       ContinueKeeps, PlanningKeeps, TickKeeps, TransferKeeps, ClockLossKeeps DEF Work

(* An operation lays out a pass; only a Continue may leave out the stop    *)
(* before a session, and only for a transport that does not run.           *)
LEMMA PassKeeps ==
  ASSUME SessionInv, TypeOK', PassUnchanged, Idle, NEW work \in Seq(Labels), Pass(work),
         Plain(work) \/ (work = <<"continue">> /\ ~running)
  PROVE  SessionInv'
  <1>1. /\ agenda' = <<"servicePending">> \o work \o FinishPass
        /\ UNCHANGED <<running, seqRunning, sessionGen, terminalGen, outbox>>
    BY DEF Pass, PassUnchanged, transportVars, plannerVars, sessionVars
  <1>2. Ordered(agenda', running')
    <2>1. CASE Plain(work)
      BY <1>1, <2>1, PlainPass
    <2>2. CASE work = <<"continue">> /\ ~running
      <3>1. running \in BOOLEAN
        BY DEF SessionInv, TypeOK
      <3>2. Ordered(<<"servicePending">> \o <<"continue">> \o FinishPass, running)
        BY <2>2, <3>1, ContinuePass
      <3> QED
        BY <1>1, <2>2, <3>2, Zenon
    <2> QED
      BY <2>1, <2>2
  <1>3. ~HasLaunch(agenda)
    BY DEF Idle, HasLaunch
  <1>4. MusicIsLive' /\ EndedIsStopped' /\ RunningIsLaunched'
    BY <1>1, <1>3 DEF SessionInv, MusicIsLive, EndedIsStopped, RunningIsLaunched
  <1> QED
    BY <1>2, <1>4, Zenon DEF SessionInv

(* What a process pass does is free of steps that the order binds.         *)
LEMMA ProcessWork ==
  ASSUME NEW n \in Nat, NEW loss \in {<<"clockLoss">>, <<>>}
  PROVE  LET ticks == [i \in 1 .. 2 * n |->
                         IF i % 2 = 1 THEN "consumeTick" ELSE "capCheck"]
             work == ticks \o <<"dispatchDue", "capCheck", "schedule">> \o loss
         IN work \in Seq(Labels) /\ Plain(work)
  <1> DEFINE ticks == [i \in 1 .. 2 * n |-> IF i % 2 = 1 THEN "consumeTick" ELSE "capCheck"]
             due == <<"dispatchDue", "capCheck", "schedule">>
  <1>1. \A i \in 1 .. 2 * n : ticks[i] \in {"consumeTick", "capCheck"}
    OBVIOUS
  <1>2. ticks \in Seq(Labels) /\ Len(ticks) = 2 * n
    <2>1. 2 * n \in Nat
      OBVIOUS
    <2>2. ticks \in [1 .. 2 * n -> Labels]
      BY DEF Labels
    <2> HIDE DEF ticks
    <2> QED
      BY <2>1, <2>2
  <1>3. Plain(ticks)
    <2> HIDE DEF ticks
    <2> QED
      BY <1>1, <1>2 DEF Plain, PlainAt
  <1>4. due \in Seq(Labels) /\ Plain(due)
    BY DEF Labels, Plain, PlainAt
  <1>5. loss \in Seq(Labels) /\ Plain(loss)
    <2>1. "clockLoss" \in Labels \ {"sendDue", "advance", "continue", "dispatcherStart"}
      BY DEF Labels
    <2>2. <<"clockLoss">> \in Seq(Labels) /\ <<>> \in Seq(Labels)
      BY <2>1
    <2>3. Plain(<<"clockLoss">>) /\ Plain(<<>>)
      BY <2>1, PlainWork
    <2> QED
      BY <2>2, <2>3, Zenon
  <1> HIDE DEF ticks, due
  <1>6. ticks \o due \in Seq(Labels) /\ Plain(ticks \o due)
    BY <1>2, <1>3, <1>4, ConcatAt, PlainConcat
  <1>7. ticks \o due \o loss \in Seq(Labels) /\ Plain(ticks \o due \o loss)
    BY <1>5, <1>6, ConcatAt, PlainConcat
  <1> QED
    BY <1>7 DEF ticks, due

LEMMA OperationKeeps ==
  ASSUME SessionInv, Operation, TypeOK'
  PROVE  SessionInv'
  <1>1. /\ <<>> \in Seq(Labels) /\ Plain(<<>>)
        /\ StartSession \in Seq(Labels) /\ Plain(StartSession)
        /\ \A label \in {"stop", "stopExternal", "consumeTick"} :
             <<label>> \in Seq(Labels) /\ Plain(<<label>>)
    BY WorkTypes, PlainWork DEF Labels
  <1>2. CASE Toggle
    BY <1>1, <1>2, PassKeeps DEF Toggle
  <1>3. ASSUME NEW m \in Modes, ApplyMode(m) PROVE SessionInv'
    BY <1>1, <1>3, PassKeeps DEF ApplyMode
  <1>4. CASE OpenStorage
    BY <1>1, <1>4, PassKeeps DEF OpenStorage
  <1>5. CASE CloseStorage
    BY <1>5, SameStep DEF CloseStorage, PassUnchanged, transportVars, plannerVars,
                          sessionVars
  <1>6. ASSUME NEW n \in 0 .. MaxTicksPerPass, Process(n) PROVE SessionInv'
    <2> DEFINE ticks == [i \in 1 .. 2 * n |->
                           IF i % 2 = 1 THEN "consumeTick" ELSE "capCheck"]
               loss == IF mode = "External" THEN <<"clockLoss">> ELSE <<>>
               work == ticks \o <<"dispatchDue", "capCheck", "schedule">> \o loss
    <2>1. Idle /\ Pass(work) /\ PassUnchanged
      BY <1>6, Zenon DEF Process
    <2>2. n \in Nat /\ loss \in {<<"clockLoss">>, <<>>}
      BY ControllerAssumption
    <2>3. work \in Seq(Labels) /\ Plain(work)
      <3> HIDE DEF loss
      <3> QED
        BY <2>2, ProcessWork
    <2> HIDE DEF work
    <2> QED
      BY <2>1, <2>3, PassKeeps
  <1>7. CASE ExternalStart
    BY <1>1, <1>7, PassKeeps DEF ExternalStart, HearsExternal
  <1>8. CASE ExternalContinue
    <2>1. CASE ~seqRunning /\ ~requiresStart
      <3>1. Idle /\ Pass(<<"continue">>) /\ PassUnchanged
        BY <1>8, <2>1, Zenon DEF ExternalContinue, HearsExternal
      <3>2. ~running
        BY <2>1, <3>1 DEF SessionInv, RunningIsLaunched, HasLaunch, Idle
      <3>3. <<"continue">> \in Seq(Labels)
        BY DEF Labels
      <3> QED
        BY <3>1, <3>2, <3>3, PassKeeps
    <2>2. CASE ~(~seqRunning /\ ~requiresStart)
      <3>1. Idle /\ Pass(<<>>) /\ PassUnchanged
        BY <1>8, <2>2, Zenon DEF ExternalContinue, HearsExternal
      <3> QED
        BY <1>1, <3>1, PassKeeps
    <2> QED
      BY <2>1, <2>2
  <1>9. CASE ExternalStop
    BY <1>1, <1>9, PassKeeps DEF ExternalStop, HearsExternal
  <1>10. ASSUME NEW periodKnown \in BOOLEAN, ExternalClock(periodKnown) PROVE SessionInv'
    <2>1. /\ Idle /\ PassUnchanged
          /\ Pass(<<"consumeTick">>) \/ Pass(<<>>)
      BY <1>10, Zenon DEF ExternalClock, HearsExternal
    <2> QED
      BY <1>1, <2>1, PassKeeps
  <1> QED
    BY <1>2, <1>3, <1>4, <1>5, <1>6, <1>7, <1>8, <1>9, <1>10 DEF Operation

-----------------------------------------------------------------------------
(***************************************************************************)
(* The theorems                                                            *)
(***************************************************************************)
(* In every reachable state, also in the middle of a pass, what waits to   *)
(* be played belongs to the session that runs, a session whose end is      *)
(* queued does not run, and the rest of a pass has its steps in an order   *)
(* in which no session begins before the one before it has ended.          *)
THEOREM SessionInvariance == Spec => []SessionInv
  <1>1. Init => SessionInv
    <2>1. Init => TypeOK
      <3>1. Init => /\ running \in BOOLEAN /\ haveTick \in BOOLEAN /\ seqRunning \in BOOLEAN
                    /\ outputActive \in BOOLEAN /\ capacityExceeded \in BOOLEAN
                    /\ blocked \in BOOLEAN /\ internalTiming \in BOOLEAN
                    /\ storageOpen \in BOOLEAN /\ requiresStart \in BOOLEAN
                    /\ hostPlaying \in BOOLEAN
        BY Zenon DEF Init
      <3> QED
        BY <3>1, ControllerAssumption DEF Init, TypeOK, ExternalReset, Master, ClockModes
    <2>2. Init => MusicIsLive /\ EndedIsStopped /\ RunningIsLaunched
      BY DEF Init, MusicIsLive, EndedIsStopped, RunningIsLaunched
    <2>3. Init => Ordered(agenda, running)
      BY DEF Init, Ordered
    <2> QED
      BY <2>1, <2>2, <2>3 DEF SessionInv
  <1>2. SessionInv /\ TypeOK' /\ [Next]_vars => SessionInv'
    <2> SUFFICES ASSUME SessionInv, TypeOK', [Next]_vars PROVE SessionInv'
      OBVIOUS
    <2>1. CASE UNCHANGED vars
      BY <2>1, SameStep DEF vars, transportVars, plannerVars, outboxVars, sessionVars
    <2> QED
      BY <2>1, OperationKeeps, DeliveryKeeps, WorkKeeps DEF Next
  <1> QED
    BY <1>1, <1>2, TypeCorrect, PTL DEF Spec

(* A NoteOn, a Clock or a Start that the USB stack accepts belongs to the  *)
(* running session, whatever was refused, cancelled or restarted before.   *)
THEOREM MusicCorrect == Spec => OnlyLiveMusic
  <1> DEFINE Heard == SendAccepted /\ Accepted.kind \in {"NoteOn", "Clock", "Start"} =>
                         running /\ Accepted.gen = sessionGen
  <1>1. SessionInv /\ [Next]_vars => [Heard]_vars
    <2> SUFFICES ASSUME SessionInv, SendAccepted,
                        Accepted.kind \in {"NoteOn", "Clock", "Start"}
                 PROVE  running /\ Accepted.gen = sessionGen
      OBVIOUS
    <2>1. Live \in SUBSET Messages /\ Live # {}
      BY LiveTypes DEF SessionInv, SendAccepted, Attempt
    <2>2. Accepted \in outbox
      BY <2>1, FrontOfOutbox DEF Accepted, Live
    <2> QED
      BY <2>2 DEF SessionInv, MusicIsLive, Musical
  <1> QED
    BY <1>1, SessionInvariance, PTL DEF Spec, OnlyLiveMusic

-----------------------------------------------------------------------------
(***************************************************************************)
(* The flags that say "playing".                                           *)
(***************************************************************************)
(* Between the dispatcher's start and the sequencer's launch of a session. *)
Starting == running /\ ~seqRunning

(* What a pass still does once its work is done.                           *)
Closing == {"servicePending", "capCheck", "lifecycle"}

HasCheck(rest) == \E i \in 1 .. Len(rest) : rest[i] = "capCheck"

(* A launch comes right behind the start of its session, but for the send  *)
(* between them; a stop is followed by the start it makes room for; a      *)
(* capacity check follows everything that may fill the outbox; and the     *)
(* outcome of the sends is handled last.                                   *)
InTurnAt(rest, i, starting) ==
  /\ rest[i] = "launch" =>
       \/ i > 1 /\ rest[i - 1] = "dispatcherStart"
       \/ starting /\ \A j \in 1 .. i - 1 : rest[j] = "servicePending"
  /\ rest[i] = "start" => i < Len(rest) /\ rest[i + 1] = "dispatcherStart"
  /\ rest[i] \notin Closing => \E j \in i + 1 .. Len(rest) : rest[j] = "capCheck"
  /\ i = Len(rest) => rest[i] = "lifecycle"

InTurn(rest, starting) == \A i \in 1 .. Len(rest) : InTurnAt(rest, i, starting)

(* The same of what an operation puts into a pass.                         *)
WorkInTurnAt(work, i) ==
  /\ work[i] = "launch" => i > 1 /\ work[i - 1] = "dispatcherStart"
  /\ work[i] = "start" => i < Len(work) /\ work[i + 1] = "dispatcherStart"

WorkInTurn(work) == \A i \in 1 .. Len(work) : WorkInTurnAt(work, i)

(* The launch is next, but for a send.                                     *)
LaunchNext(rest) ==
  \E i \in 1 .. Len(rest) :
    rest[i] = "launch" /\ \A j \in 1 .. i - 1 : rest[j] = "servicePending"

FlagInv ==
  /\ SessionInv
  /\ seqRunning => running
  /\ Starting => LaunchNext(agenda)
  /\ internalTiming => running \/ HasLaunch(agenda)
  /\ capacityExceeded /\ running => HasCheck(agenda)
  /\ Idle => outcome = "None"
  /\ InTurn(agenda, Starting)

LEMMA InTurnTail ==
  ASSUME NEW rest \in Seq(Labels), rest # <<>>, NEW starting, NEW next,
         InTurn(rest, starting), Head(rest) = "dispatcherStart" => next,
         Head(rest) = "servicePending" /\ starting => next
  PROVE  InTurn(Tail(rest), next)
  <1> DEFINE t == Tail(rest)
  <1>1. /\ Len(rest) \in Nat \ {0} /\ Len(t) = Len(rest) - 1 /\ Head(rest) = rest[1]
        /\ \A i \in 1 .. Len(t) : t[i] = rest[i + 1]
    BY TailAt
  <1> SUFFICES ASSUME NEW i \in 1 .. Len(t) PROVE InTurnAt(t, i, next)
    BY DEF InTurn
  <1> HIDE DEF t
  <1>2. i + 1 \in 1 .. Len(rest) /\ t[i] = rest[i + 1] /\ InTurnAt(rest, i + 1, starting)
    BY <1>1 DEF InTurn
  <1>3. t[i] = "launch" =>
          \/ i > 1 /\ t[i - 1] = "dispatcherStart"
          \/ next /\ \A j \in 1 .. i - 1 : t[j] = "servicePending"
    <2> SUFFICES ASSUME t[i] = "launch"
                 PROVE  \/ i > 1 /\ t[i - 1] = "dispatcherStart"
                        \/ next /\ \A j \in 1 .. i - 1 : t[j] = "servicePending"
      OBVIOUS
    <2>1. CASE rest[(i + 1) - 1] = "dispatcherStart"
      <3>1. CASE i = 1
        <4>1. next /\ \A j \in 1 .. i - 1 : t[j] = "servicePending"
          BY <1>1, <2>1, <3>1
        <4> QED
          BY <4>1
      <3>2. CASE i # 1
        <4>1. i > 1 /\ i - 1 \in 1 .. Len(t) /\ (i - 1) + 1 = (i + 1) - 1
          BY <1>1, <3>2
        <4> QED
          BY <1>1, <2>1, <4>1
      <3> QED
        BY <3>1, <3>2
    <2>2. CASE starting /\ \A j \in 1 .. (i + 1) - 1 : rest[j] = "servicePending"
      <3>1. 1 \in 1 .. (i + 1) - 1
        BY <1>1
      <3>2. next
        BY <1>1, <2>2, <3>1
      <3>3. ASSUME NEW j \in 1 .. i - 1 PROVE t[j] = "servicePending"
        <4>1. j \in 1 .. Len(t) /\ j + 1 \in 1 .. (i + 1) - 1
          BY <1>1
        <4> QED
          BY <1>1, <2>2, <4>1
      <3> QED
        BY <3>2, <3>3
    <2> QED
      BY <1>2, <2>1, <2>2 DEF InTurnAt
  <1>4. t[i] = "start" => i < Len(t) /\ t[i + 1] = "dispatcherStart"
    <2>1. i + 1 < Len(rest) => i + 1 \in 1 .. Len(t) /\ t[i + 1] = rest[(i + 1) + 1]
      BY <1>1
    <2> QED
      BY <1>1, <1>2, <2>1 DEF InTurnAt
  <1>5. t[i] \notin Closing => \E j \in i + 1 .. Len(t) : t[j] = "capCheck"
    <2> SUFFICES ASSUME t[i] \notin Closing PROVE \E j \in i + 1 .. Len(t) : t[j] = "capCheck"
      OBVIOUS
    <2>1. PICK j \in (i + 1) + 1 .. Len(rest) : rest[j] = "capCheck"
      BY <1>2 DEF InTurnAt
    <2>2. j - 1 \in 1 .. Len(t) /\ j - 1 \in i + 1 .. Len(t) /\ (j - 1) + 1 = j
      BY <1>1, <2>1
    <2>3. t[j - 1] = "capCheck"
      BY <1>1, <2>1, <2>2
    <2> QED
      BY <2>2, <2>3
  <1>6. i = Len(t) => t[i] = "lifecycle"
    <2>1. i = Len(t) => i + 1 = Len(rest)
      BY <1>1
    <2> QED
      BY <1>2, <2>1 DEF InTurnAt
  <1> QED
    BY <1>3, <1>4, <1>5, <1>6 DEF InTurnAt

(* What is left behind a step of a pass.                                   *)
LEMMA InTurnRest ==
  ASSUME NEW rest \in Seq(Labels), rest # <<>>, NEW starting, InTurn(rest, starting)
  PROVE  /\ Head(rest) # "lifecycle" => Tail(rest) # <<>>
         /\ Head(rest) \notin Closing => HasCheck(Tail(rest))
         /\ Head(rest) # "capCheck" /\ HasCheck(rest) => HasCheck(Tail(rest))
         /\ HasCheck(rest) => rest # <<>>
         /\ Head(rest) \notin {"servicePending", "launch"} => ~LaunchNext(rest)
         /\ Head(rest) = "servicePending" /\ LaunchNext(rest) => LaunchNext(Tail(rest))
         /\ Head(rest) = "launch" => starting
         /\ Head(rest) = "start" => Tail(rest) # <<>> /\ Tail(rest)[1] = "dispatcherStart"
  <1> DEFINE t == Tail(rest)
  <1>1. /\ Len(rest) \in Nat \ {0} /\ Len(t) = Len(rest) - 1 /\ Head(rest) = rest[1]
        /\ \A i \in 1 .. Len(t) : t[i] = rest[i + 1]
        /\ InTurnAt(rest, 1, starting)
    BY TailAt DEF InTurn
  <1>2. t = <<>> => Len(t) = 0
    BY EmptySeq
  <1>3. ASSUME NEW j \in 2 .. Len(rest)
        PROVE  j - 1 \in 1 .. Len(t) /\ t[j - 1] = rest[j]
    <2>1. j - 1 \in 1 .. Len(t) /\ (j - 1) + 1 = j
      BY <1>1
    <2> QED
      BY <1>1, <2>1
  <1> HIDE DEF t
  <1>4. Head(rest) # "lifecycle" => t # <<>>
    BY <1>1, <1>2 DEF InTurnAt
  <1>5. Head(rest) \notin Closing => HasCheck(t)
    <2>1. \A j \in 1 + 1 .. Len(rest) : j \in 2 .. Len(rest)
      OBVIOUS
    <2> QED
      BY <1>1, <1>3, <2>1 DEF InTurnAt, HasCheck
  <1>6. Head(rest) # "capCheck" /\ HasCheck(rest) => HasCheck(t)
    <2> SUFFICES ASSUME rest[1] # "capCheck", HasCheck(rest) PROVE HasCheck(t)
      BY <1>1
    <2>1. PICK i \in 1 .. Len(rest) : rest[i] = "capCheck"
      BY DEF HasCheck
    <2>2. i \in 2 .. Len(rest)
      BY <1>1, <2>1
    <2> QED
      BY <1>3, <2>1, <2>2 DEF HasCheck
  <1>7. Head(rest) \notin {"servicePending", "launch"} => ~LaunchNext(rest)
    <2> SUFFICES ASSUME LaunchNext(rest) PROVE rest[1] \in {"servicePending", "launch"}
      BY <1>1
    <2>1. PICK i \in 1 .. Len(rest) :
             rest[i] = "launch" /\ \A j \in 1 .. i - 1 : rest[j] = "servicePending"
      BY DEF LaunchNext
    <2>2. i = 1 \/ 1 \in 1 .. i - 1
      BY <1>1
    <2> QED
      BY <2>1, <2>2
  <1>8. Head(rest) = "servicePending" /\ LaunchNext(rest) => LaunchNext(t)
    <2> SUFFICES ASSUME rest[1] = "servicePending", LaunchNext(rest) PROVE LaunchNext(t)
      BY <1>1
    <2>1. PICK i \in 1 .. Len(rest) :
             rest[i] = "launch" /\ \A j \in 1 .. i - 1 : rest[j] = "servicePending"
      BY DEF LaunchNext
    <2>2. i \in 2 .. Len(rest)
      BY <1>1, <2>1
    <2>3. ASSUME NEW j \in 1 .. (i - 1) - 1 PROVE t[j] = "servicePending"
      <3>1. j + 1 \in 2 .. Len(rest) /\ j + 1 \in 1 .. i - 1 /\ (j + 1) - 1 = j
        BY <1>1, <2>2
      <3> QED
        BY <1>3, <2>1, <3>1
    <2> QED
      BY <1>3, <2>1, <2>2, <2>3 DEF LaunchNext
  <1>9. Head(rest) = "launch" => starting
    BY <1>1 DEF InTurnAt
  <1>10. Head(rest) = "start" => t[1] = "dispatcherStart"
    <2>1. Head(rest) = "start" => 2 \in 2 .. Len(rest) /\ rest[2] = "dispatcherStart"
      BY <1>1 DEF InTurnAt
    <2> QED
      BY <1>3, <2>1
  <1> QED
    BY <1>1, <1>4, <1>5, <1>6, <1>7, <1>8, <1>9, <1>10 DEF t

LEMMA InTurnConcat ==
  ASSUME NEW work \in Seq(Labels), NEW rest \in Seq(Labels), NEW starting,
         rest # <<>>, InTurn(rest, starting), WorkInTurn(work),
         HasCheck(rest) \/ \A i \in 1 .. Len(work) : work[i] \in Closing,
         ~starting \/ \A i \in 1 .. Len(work) : work[i] = "servicePending"
  PROVE  InTurn(work \o rest, starting)
  <1> DEFINE t == work \o rest
  <1>1. /\ Len(work) \in Nat /\ Len(rest) \in Nat /\ Len(t) = Len(work) + Len(rest)
        /\ \A i \in 1 .. Len(work) : t[i] = work[i]
        /\ \A i \in 1 .. Len(rest) : t[Len(work) + i] = rest[i]
    BY ConcatAt
  <1>2. Len(rest) # 0
    BY EmptySeq
  <1> SUFFICES ASSUME NEW i \in 1 .. Len(t) PROVE InTurnAt(t, i, starting)
    BY DEF InTurn
  <1> HIDE DEF t
  <1>3. CASE i <= Len(work)
    <2>1. i \in 1 .. Len(work) /\ t[i] = work[i] /\ WorkInTurnAt(work, i) /\ i # Len(t)
      BY <1>1, <1>2, <1>3 DEF WorkInTurn
    <2>2. i > 1 => t[i - 1] = work[i - 1]
      BY <1>1, <2>1
    <2>3. i < Len(work) => i < Len(t) /\ t[i + 1] = work[i + 1]
      BY <1>1, <2>1
    <2>4. t[i] \notin Closing => \E j \in i + 1 .. Len(t) : t[j] = "capCheck"
      <3> SUFFICES ASSUME t[i] \notin Closing PROVE \E j \in i + 1 .. Len(t) : t[j] = "capCheck"
        OBVIOUS
      <3>1. PICK k \in 1 .. Len(rest) : rest[k] = "capCheck"
        BY <2>1 DEF HasCheck
      <3>2. Len(work) + k \in i + 1 .. Len(t) /\ t[Len(work) + k] = "capCheck"
        BY <1>1, <2>1, <3>1
      <3> QED
        BY <3>2
    <2> QED
      BY <2>1, <2>2, <2>3, <2>4 DEF WorkInTurnAt, InTurnAt
  <1>4. CASE i > Len(work)
    <2> DEFINE k == i - Len(work)
    <2>1. k \in 1 .. Len(rest) /\ i = Len(work) + k
      BY <1>1, <1>4
    <2> HIDE DEF k
    <2>2. t[i] = rest[k] /\ InTurnAt(rest, k, starting)
      BY <1>1, <2>1 DEF InTurn
    <2>3. t[i] = "launch" =>
            \/ i > 1 /\ t[i - 1] = "dispatcherStart"
            \/ starting /\ \A j \in 1 .. i - 1 : t[j] = "servicePending"
      <3> SUFFICES ASSUME t[i] = "launch"
                   PROVE  \/ i > 1 /\ t[i - 1] = "dispatcherStart"
                          \/ starting /\ \A j \in 1 .. i - 1 : t[j] = "servicePending"
        OBVIOUS
      <3>1. CASE k > 1 /\ rest[k - 1] = "dispatcherStart"
        <4>1. k - 1 \in 1 .. Len(rest) /\ Len(work) + (k - 1) = i - 1 /\ i > 1
          BY <1>1, <2>1, <3>1
        <4> QED
          BY <1>1, <3>1, <4>1
      <3>2. CASE starting /\ \A j \in 1 .. k - 1 : rest[j] = "servicePending"
        <4>1. ASSUME NEW j \in 1 .. i - 1 PROVE t[j] = "servicePending"
          <5>1. CASE j <= Len(work)
            BY <1>1, <3>2, <5>1
          <5>2. CASE j > Len(work)
            <6>1. j - Len(work) \in 1 .. Len(rest) /\ j - Len(work) \in 1 .. k - 1
                  /\ Len(work) + (j - Len(work)) = j
              BY <1>1, <2>1, <5>2
            <6>2. t[Len(work) + (j - Len(work))] = rest[j - Len(work)]
              BY <1>1, <6>1
            <6> QED
              BY <3>2, <6>1, <6>2
          <5> QED
            BY <1>1, <5>1, <5>2
        <4> QED
          BY <3>2, <4>1
      <3> QED
        BY <2>2, <3>1, <3>2 DEF InTurnAt
    <2>4. t[i] = "start" => i < Len(t) /\ t[i + 1] = "dispatcherStart"
      <3>1. k < Len(rest) =>
              k + 1 \in 1 .. Len(rest) /\ Len(work) + (k + 1) = i + 1 /\ i < Len(t)
        BY <1>1, <2>1
      <3> QED
        BY <1>1, <2>2, <3>1 DEF InTurnAt
    <2>5. t[i] \notin Closing => \E j \in i + 1 .. Len(t) : t[j] = "capCheck"
      <3> SUFFICES ASSUME t[i] \notin Closing PROVE \E j \in i + 1 .. Len(t) : t[j] = "capCheck"
        OBVIOUS
      <3>1. PICK j \in k + 1 .. Len(rest) : rest[j] = "capCheck"
        BY <2>2 DEF InTurnAt
      <3>2. j \in 1 .. Len(rest) /\ Len(work) + j \in i + 1 .. Len(t)
        BY <1>1, <2>1, <3>1
      <3> QED
        BY <1>1, <3>1, <3>2
    <2>6. i = Len(t) => t[i] = "lifecycle"
      BY <1>1, <2>1, <2>2 DEF InTurnAt
    <2> QED
      BY <2>3, <2>4, <2>5, <2>6 DEF InTurnAt
  <1> QED
    BY <1>1, <1>3, <1>4

LEMMA LaunchNextIsLaunch ==
  ASSUME NEW rest, LaunchNext(rest)
  PROVE  HasLaunch(rest) /\ rest # <<>>
  <1>1. HasLaunch(rest)
    BY DEF LaunchNext, HasLaunch
  <1>2. rest # <<>>
    <2> SUFFICES ASSUME rest = <<>> PROVE FALSE
      OBVIOUS
    <2>1. Len(rest) = 0
      BY EmptySeq
    <2> QED
      BY <1>1, <2>1 DEF HasLaunch
  <1> QED
    BY <1>1, <1>2

(* The send between the dispatcher's start and the launch.                 *)
LEMMA StartIsLaunch ==
  ASSUME NEW rest \in Seq(Labels), rest # <<>>, rest[1] = "launch"
  PROVE  LaunchNext(<<"servicePending">> \o rest)
  <1> DEFINE t == <<"servicePending">> \o rest
  <1>1. /\ Len(rest) \in Nat /\ Len(t) = Len(rest) + 1 /\ t[1] = "servicePending"
        /\ \A i \in 1 .. Len(rest) : t[i + 1] = rest[i]
    BY PutAt DEF Labels
  <1>2. Len(rest) # 0
    BY EmptySeq
  <1> HIDE DEF t
  <1>3. 1 \in 1 .. Len(rest) /\ 1 + 1 = 2 /\ 2 \in 1 .. Len(t)
    BY <1>1, <1>2
  <1>4. t[2] = "launch"
    BY <1>1, <1>3
  <1>5. \A j \in 1 .. 2 - 1 : t[j] = "servicePending"
    BY <1>1
  <1> QED
    BY <1>3, <1>4, <1>5 DEF LaunchNext, t

LEMMA CheckPut ==
  ASSUME NEW work \in Seq(Labels), NEW rest \in Seq(Labels), HasCheck(rest)
  PROVE  HasCheck(work \o rest)
  <1>1. PICK i \in 1 .. Len(rest) : rest[i] = "capCheck"
    BY DEF HasCheck
  <1>2. /\ Len(work) + i \in 1 .. Len(work \o rest)
        /\ (work \o rest)[Len(work) + i] = rest[i]
    BY <1>1, ConcatAt
  <1> QED
    BY <1>1, <1>2 DEF HasCheck

LEMMA FinishInTurn ==
  ASSUME NEW starting
  PROVE  /\ FinishPass \in Seq(Labels) /\ FinishPass # <<>>
         /\ InTurn(FinishPass, starting)
         /\ HasCheck(FinishPass)
  <1>1. FinishPass \in Seq(Labels) /\ Len(FinishPass) = 3
        /\ FinishPass[1] = "capCheck" /\ FinishPass[2] = "servicePending"
        /\ FinishPass[3] = "lifecycle"
    BY WorkTypes DEF FinishPass
  <1>2. \A i \in 1 .. 3 : i = 1 \/ i = 2 \/ i = 3
    OBVIOUS
  <1>3. InTurn(FinishPass, starting)
    BY <1>1, <1>2 DEF InTurn, InTurnAt, Closing
  <1>4. HasCheck(FinishPass)
    BY <1>1 DEF HasCheck
  <1>5. FinishPass # <<>>
    BY DEF FinishPass
  <1> QED
    BY <1>1, <1>3, <1>4, <1>5

LEMMA WorkConcat ==
  ASSUME NEW work \in Seq(Labels), NEW more \in Seq(Labels),
         WorkInTurn(work), WorkInTurn(more)
  PROVE  WorkInTurn(work \o more)
  <1> DEFINE t == work \o more
  <1>1. /\ Len(work) \in Nat /\ Len(more) \in Nat /\ Len(t) = Len(work) + Len(more)
        /\ \A i \in 1 .. Len(work) : t[i] = work[i]
        /\ \A i \in 1 .. Len(more) : t[Len(work) + i] = more[i]
    BY ConcatAt
  <1> SUFFICES ASSUME NEW i \in 1 .. Len(t) PROVE WorkInTurnAt(t, i)
    BY DEF WorkInTurn
  <1> HIDE DEF t
  <1>2. CASE i <= Len(work)
    <2>1. i \in 1 .. Len(work) /\ t[i] = work[i] /\ WorkInTurnAt(work, i)
      BY <1>1, <1>2 DEF WorkInTurn
    <2>2. i > 1 => t[i - 1] = work[i - 1]
      BY <1>1, <2>1
    <2>3. i < Len(work) => i < Len(t) /\ t[i + 1] = work[i + 1]
      BY <1>1, <2>1
    <2> QED
      BY <2>1, <2>2, <2>3 DEF WorkInTurnAt
  <1>3. CASE i > Len(work)
    <2> DEFINE k == i - Len(work)
    <2>1. k \in 1 .. Len(more) /\ i = Len(work) + k
      BY <1>1, <1>3
    <2> HIDE DEF k
    <2>2. t[i] = more[k] /\ WorkInTurnAt(more, k)
      BY <1>1, <2>1 DEF WorkInTurn
    <2>3. k > 1 => i > 1 /\ t[i - 1] = more[k - 1]
      <3>1. k > 1 => k - 1 \in 1 .. Len(more) /\ Len(work) + (k - 1) = i - 1 /\ i > 1
        BY <1>1, <2>1
      <3> QED
        BY <1>1, <3>1
    <2>4. k < Len(more) => i < Len(t) /\ t[i + 1] = more[k + 1]
      <3>1. k < Len(more) =>
              k + 1 \in 1 .. Len(more) /\ Len(work) + (k + 1) = i + 1 /\ i < Len(t)
        BY <1>1, <2>1
      <3> QED
        BY <1>1, <3>1
    <2> QED
      BY <2>2, <2>3, <2>4 DEF WorkInTurnAt
  <1> QED
    BY <1>1, <1>2, <1>3

LEMMA WorksInTurn ==
  /\ WorkInTurn(<<>>)
  /\ WorkInTurn(StartSession)
  /\ \A label \in Labels \ {"launch", "start"} : WorkInTurn(<<label>>)
  <1>1. WorkInTurn(<<>>)
    BY DEF WorkInTurn
  <1>2. WorkInTurn(StartSession)
    <2>1. Len(StartSession) = 4
      BY DEF StartSession
    <2>2. StartSession[1] = "start" /\ StartSession[2] = "dispatcherStart"
          /\ StartSession[3] = "launch" /\ StartSession[4] = "schedule"
      BY DEF StartSession
    <2>3. \A i \in 1 .. 4 : i = 1 \/ i = 2 \/ i = 3 \/ i = 4
      OBVIOUS
    <2> QED
      BY <2>1, <2>2, <2>3 DEF WorkInTurn, WorkInTurnAt
  <1>3. \A label \in Labels \ {"launch", "start"} : WorkInTurn(<<label>>)
    BY DEF WorkInTurn, WorkInTurnAt
  <1> QED
    BY <1>1, <1>2, <1>3

(* Whatever an operation asks for, its pass has its steps in turn.         *)
LEMMA PassInTurn ==
  ASSUME NEW work \in Seq(Labels), WorkInTurn(work)
  PROVE  /\ InTurn(<<"servicePending">> \o work \o FinishPass, FALSE)
         /\ HasCheck(<<"servicePending">> \o work \o FinishPass)
         /\ <<"servicePending">> \o work \o FinishPass # <<>>
  <1>1. /\ "servicePending" \in Labels \ {"launch", "start"}
        /\ <<"servicePending">> \in Seq(Labels) /\ WorkInTurn(<<"servicePending">>)
    BY WorksInTurn DEF Labels
  <1> DEFINE front == <<"servicePending">> \o work
  <1>2. front \in Seq(Labels) /\ WorkInTurn(front)
    BY <1>1, WorkConcat, ConcatProperties
  <1> HIDE DEF front
  <1>3. InTurn(front \o FinishPass, FALSE) /\ HasCheck(front \o FinishPass)
    BY <1>2, FinishInTurn, InTurnConcat, CheckPut
  <1>4. front \o FinishPass # <<>>
    <2> SUFFICES ASSUME front \o FinishPass = <<>> PROVE FALSE
      OBVIOUS
    <2>1. Len(front \o FinishPass) = 0
      BY EmptySeq
    <2> QED
      BY <1>3, <2>1 DEF HasCheck
  <1> QED
    BY <1>3, <1>4 DEF front

-----------------------------------------------------------------------------
(***************************************************************************)
(* The steps and the flags                                                 *)
(***************************************************************************)
LEMMA FlagTypes ==
  ASSUME FlagInv
  PROVE  /\ agenda \in Seq(Labels) /\ running \in BOOLEAN /\ seqRunning \in BOOLEAN
         /\ agenda # <<>> => Tail(agenda) \in Seq(Labels) /\ Head(agenda) \in Labels
         /\ Idle => ~Starting /\ (internalTiming => running)
  <1>1. agenda \in Seq(Labels) /\ running \in BOOLEAN /\ seqRunning \in BOOLEAN
    BY DEF FlagInv, SessionInv, TypeOK
  <1>2. agenda # <<>> => Tail(agenda) \in Seq(Labels) /\ Head(agenda) \in Labels
    BY <1>1, HeadTailProperties
  <1>3. Idle => ~HasLaunch(agenda) /\ ~LaunchNext(agenda)
    BY LaunchNextIsLaunch DEF Idle, HasLaunch
  <1> QED
    BY <1>1, <1>2, <1>3 DEF FlagInv

(* A step that leaves the flags and goes on with the pass.                 *)
LEMMA FlagQuiet ==
  ASSUME FlagInv, SessionInv', agenda # <<>>, agenda' = Tail(agenda),
         Head(agenda) \notin {"start", "launch", "dispatcherStart"},
         UNCHANGED <<running, seqRunning, internalTiming>>,
         capacityExceeded' => capacityExceeded \/ Head(agenda) \notin Closing,
         Head(agenda) = "capCheck" => ~capacityExceeded',
         Head(agenda) = "lifecycle" => outcome' = "None"
  PROVE  FlagInv'
  <1>1. agenda \in Seq(Labels) /\ InTurn(agenda, Starting)
    BY FlagTypes DEF FlagInv
  <1>2. InTurn(Tail(agenda), Starting)
    BY <1>1, InTurnTail
  <1>3. Starting' = Starting
    BY DEF Starting
  <1>4. InTurn(agenda', Starting')
    BY <1>2, <1>3, Zenon
  <1>5. Starting' => LaunchNext(agenda')
    BY <1>1, <1>3, InTurnRest DEF FlagInv
  <1>6. internalTiming' => running' \/ HasLaunch(agenda')
    BY <1>1, LaunchKept DEF FlagInv
  <1>7. capacityExceeded' /\ running' => HasCheck(agenda')
    BY <1>1, InTurnRest DEF FlagInv
  <1>8. Idle' => outcome' = "None"
    BY <1>1, InTurnRest DEF Idle
  <1> QED
    BY <1>4, <1>5, <1>6, <1>7, <1>8 DEF FlagInv

LEMMA FlagSame ==
  ASSUME FlagInv, SessionInv',
         UNCHANGED <<running, seqRunning, internalTiming, agenda>>,
         capacityExceeded' =>
           capacityExceeded \/ (agenda # <<>> /\ Head(agenda) \notin Closing),
         agenda # <<>> \/ outcome' = outcome
  PROVE  FlagInv'
  <1>1. agenda \in Seq(Labels) /\ InTurn(agenda, Starting)
    BY FlagTypes DEF FlagInv
  <1>2. Starting' = Starting
    BY DEF Starting
  <1>3. InTurn(agenda', Starting')
    BY <1>1, <1>2, Zenon
  <1>4. capacityExceeded' /\ running' => HasCheck(agenda')
    <2>1. CASE capacityExceeded
      BY <2>1 DEF FlagInv
    <2>2. CASE agenda # <<>> /\ Head(agenda) \notin Closing
      <3>1. HasCheck(Tail(agenda))
        BY <1>1, <2>2, InTurnRest
      <3>2. PICK i \in 1 .. Len(Tail(agenda)) : Tail(agenda)[i] = "capCheck"
        BY <3>1 DEF HasCheck
      <3>3. i + 1 \in 1 .. Len(agenda) /\ agenda[i + 1] = "capCheck"
        BY <1>1, <2>2, <3>2, TailAt
      <3> QED
        BY <3>3 DEF HasCheck
    <2> QED
      BY <2>1, <2>2
  <1> QED
    BY <1>2, <1>3, <1>4 DEF FlagInv, Idle

LEMMA FlagMore ==
  ASSUME FlagInv, SessionInv', agenda # <<>>, NEW work \in Seq(Labels),
         agenda' = work \o Tail(agenda), WorkInTurn(work),
         Head(agenda) \notin {"start", "launch", "dispatcherStart"} \cup Closing,
         UNCHANGED <<running, seqRunning, internalTiming>>
  PROVE  FlagInv'
  <1>1. agenda \in Seq(Labels) /\ InTurn(agenda, Starting) /\ Tail(agenda) \in Seq(Labels)
    BY FlagTypes DEF FlagInv
  <1>2. ~Starting /\ ~Starting'
    BY <1>1, InTurnRest DEF FlagInv, Closing, Starting
  <1>3. InTurn(Tail(agenda), Starting) /\ HasCheck(Tail(agenda)) /\ Tail(agenda) # <<>>
    BY <1>1, InTurnTail, InTurnRest DEF Closing
  <1>4. InTurn(work \o Tail(agenda), Starting)
    BY <1>1, <1>2, <1>3, InTurnConcat
  <1>5. InTurn(agenda', Starting')
    BY <1>2, <1>4, Zenon DEF InTurn, InTurnAt
  <1>6. HasCheck(agenda') /\ agenda' # <<>>
    <2>1. HasCheck(work \o Tail(agenda))
      BY <1>1, <1>3, CheckPut
    <2>2. work \o Tail(agenda) # <<>>
      BY <1>1, <1>3, ConcatEqualIffEmpty
    <2> QED
      BY <2>1, <2>2
  <1>7. internalTiming' => running' \/ HasLaunch(agenda')
    BY <1>1, LaunchKept, LaunchPut DEF FlagInv
  <1> QED
    BY <1>2, <1>5, <1>6, <1>7 DEF FlagInv, Idle

LEMMA FlagPass ==
  ASSUME FlagInv, SessionInv', Idle, NEW work \in Seq(Labels), Pass(work), WorkInTurn(work),
         UNCHANGED <<running, seqRunning, internalTiming, capacityExceeded>>
  PROVE  FlagInv'
  <1>1. agenda' = <<"servicePending">> \o work \o FinishPass
    BY DEF Pass
  <1>2. InTurn(agenda', FALSE) /\ HasCheck(agenda') /\ agenda' # <<>>
    BY <1>1, PassInTurn
  <1>3. ~Starting'
    BY FlagTypes DEF Starting
  <1>4. InTurn(agenda', Starting')
    BY <1>2, <1>3, Zenon DEF InTurn, InTurnAt
  <1> QED
    BY <1>2, <1>3, <1>4, FlagTypes DEF FlagInv, Idle

(* Every way to end a session lowers all of the flags at once.             *)
LEMMA FlagEnds ==
  ASSUME FlagInv, SessionInv',
         StopSession \/ CapacityStop \/ RetryWindowStop \/ Disconnect
  PROVE  FlagInv'
  <1>1. agenda # <<>> /\ Head(agenda) \in {"stop", "stopExternal", "capCheck", "lifecycle"}
        /\ running' = FALSE /\ seqRunning' = FALSE /\ internalTiming' = FALSE
    BY DEF StopSession, Stop, CapacityStop, RetryWindowStop, Disconnect, Doing, EndSession
  <1>2. agenda \in Seq(Labels) /\ InTurn(agenda, Starting) /\ Tail(agenda) \in Seq(Labels)
    BY <1>1, FlagTypes DEF FlagInv
  <1>3. InTurn(Tail(agenda), FALSE)
    BY <1>1, <1>2, InTurnTail
  <1>4. InTurn(agenda', FALSE) /\ (Idle' => outcome' = "None")
    <2>1. CASE StopSession \/ CapacityStop
      <3>1. agenda' = <<"servicePending">> \o Tail(agenda) /\ Head(agenda) # "lifecycle"
        BY <2>1 DEF StopSession, Stop, CapacityStop, Doing, Then
      <3>2. /\ <<"servicePending">> \in Seq(Labels) /\ WorkInTurn(<<"servicePending">>)
            /\ \A i \in 1 .. Len(<<"servicePending">>) : <<"servicePending">>[i] \in Closing
        BY WorksInTurn DEF Labels, Closing
      <3>3. Tail(agenda) # <<>>
        BY <1>1, <1>2, <3>1, InTurnRest
      <3>4. InTurn(<<"servicePending">> \o Tail(agenda), FALSE)
        BY <1>2, <1>3, <3>2, <3>3, InTurnConcat
      <3>5. <<"servicePending">> \o Tail(agenda) # <<>>
        BY <1>2, <3>2, <3>3, ConcatEqualIffEmpty
      <3> QED
        BY <3>1, <3>4, <3>5 DEF Idle
    <2>2. CASE RetryWindowStop \/ Disconnect
      BY <1>3, <2>2 DEF RetryWindowStop, Disconnect, Done
    <2> QED
      BY <2>1, <2>2
  <1>5. InTurn(agenda', Starting')
    BY <1>1, <1>4, Zenon DEF Starting, InTurn, InTurnAt
  <1> QED
    BY <1>1, <1>4, <1>5 DEF FlagInv, Starting

(* A start ends the session before it, and only the launch behind it says  *)
(* again whether the clock is our own.                                     *)
LEMMA FlagStarts ==
  ASSUME FlagInv, SessionInv',
         EndPreviousSession \/ DispatcherStart \/ LaunchSession \/ ContinueSession
  PROVE  FlagInv'
  <1> USE DEF transportVars, plannerVars, controlVars
  <1>1. agenda # <<>> /\ agenda \in Seq(Labels) /\ InTurn(agenda, Starting)
        /\ Tail(agenda) \in Seq(Labels) /\ Ordered(agenda, running) /\ SessionInv
    BY FlagTypes DEF FlagInv, SessionInv, EndPreviousSession, DispatcherStart, LaunchSession,
                     ContinueSession, Doing
  <1>2. /\ <<"servicePending">> \in Seq(Labels) /\ WorkInTurn(<<"servicePending">>)
        /\ \A i \in 1 .. Len(<<"servicePending">>) : <<"servicePending">>[i] = "servicePending"
        /\ "servicePending" \in Closing
    BY WorksInTurn DEF Labels, Closing
  <1>3. Head(agenda) # "lifecycle" => <<"servicePending">> \o Tail(agenda) # <<>>
    BY <1>1, <1>2, InTurnRest, ConcatEqualIffEmpty
  <1>4. CASE EndPreviousSession
    <2>1. /\ Head(agenda) = "start" /\ agenda' = <<"servicePending">> \o Tail(agenda)
          /\ running' = FALSE /\ seqRunning' = FALSE
      BY <1>4 DEF EndPreviousSession, Doing, Then, EndSession
    <2>2. InTurn(Tail(agenda), FALSE) /\ Tail(agenda) # <<>>
          /\ Tail(agenda)[1] = "dispatcherStart"
      BY <1>1, <2>1, InTurnTail, InTurnRest
    <2>3. InTurn(<<"servicePending">> \o Tail(agenda), FALSE)
      BY <1>1, <1>2, <2>2, InTurnConcat
    <2>4. InTurn(agenda', Starting')
      BY <2>1, <2>3, Zenon DEF Starting, InTurn, InTurnAt
    <2>5. HasLaunch(agenda')
      <3> DEFINE t == Tail(agenda)
      <3>1. Len(t) \in Nat /\ Len(t) # 0
        BY <1>1, <2>2, EmptySeq, LenProperties
      <3> HIDE DEF t
      <3>2. /\ 1 \in 1 .. Len(t)
            /\ "servicePending" \in Labels
        <4>1. 1 \in 1 .. Len(t)
          BY <3>1
        <4>2. "servicePending" \in Labels
          BY DEF Labels
        <4> QED
          BY <4>1, <4>2
      <3>3. 2 \in 1 .. Len(agenda') /\ agenda'[1 + 1] = "dispatcherStart"
        BY <1>1, <2>1, <2>2, <3>2, PutAt DEF t
      <3>4. OrderedAt(agenda', 2, running')
        <4>1. Ordered(agenda', running')
          BY Zenon DEF SessionInv
        <4> QED
          BY <3>3, <4>1 DEF Ordered
      <3>5. 2 < Len(agenda') /\ agenda'[2 + 1] = "launch" /\ 3 \in 1 .. Len(agenda')
        BY <2>1, <3>3, <3>4 DEF OrderedAt
      <3> QED
        BY <3>5 DEF HasLaunch
    <2>6. ~Idle'
      BY <1>3, <2>1 DEF Idle
    <2> QED
      BY <2>1, <2>4, <2>5, <2>6 DEF FlagInv, Starting
  <1>5. CASE DispatcherStart
    <2>1. /\ Head(agenda) = "dispatcherStart"
          /\ agenda' = <<"servicePending">> \o Tail(agenda)
          /\ running' = TRUE /\ seqRunning' = seqRunning
      BY <1>5 DEF DispatcherStart, Doing, Then
    <2>2. ~running /\ ~seqRunning
      BY <1>1, <2>1, AtHand DEF FlagInv
    <2>3. InTurn(Tail(agenda), TRUE) /\ Tail(agenda) # <<>> /\ HasCheck(Tail(agenda))
      BY <1>1, <2>1, InTurnTail, InTurnRest DEF Closing
    <2>4. InTurn(<<"servicePending">> \o Tail(agenda), TRUE)
      BY <1>1, <1>2, <2>3, InTurnConcat
    <2>5. Starting'
      BY <2>1, <2>2 DEF Starting
    <2>6. InTurn(agenda', Starting')
      BY <2>1, <2>4, <2>5, Zenon DEF InTurn, InTurnAt
    <2>7. Tail(agenda)[1] = "launch"
      <3>1. Len(agenda) \in Nat \ {0} /\ agenda[1] = "dispatcherStart"
        BY <1>1, <2>1, TailAt
      <3>2. 1 < Len(agenda) /\ agenda[1 + 1] = "launch"
        BY <1>1, <3>1 DEF Ordered, OrderedAt
      <3>3. 1 \in 1 .. Len(Tail(agenda))
        BY <1>1, <3>2, TailAt
      <3> QED
        BY <1>1, <3>2, <3>3, TailAt
    <2>8. LaunchNext(agenda') /\ HasCheck(agenda')
      BY <1>1, <1>2, <2>1, <2>3, <2>7, StartIsLaunch, CheckPut
    <2>9. ~Idle'
      BY <1>3, <2>1 DEF Idle
    <2> QED
      BY <2>1, <2>2, <2>6, <2>8, <2>9 DEF FlagInv
  <1>6. CASE LaunchSession \/ ContinueSession
    <2>1. /\ Head(agenda) \in {"launch", "continue"} /\ agenda' = Tail(agenda)
          /\ seqRunning' = TRUE
          /\ running' = TRUE \/ (Head(agenda) = "launch" /\ running' = running)
      BY <1>6 DEF LaunchSession, ContinueSession, Doing, Done
    <2>2. Head(agenda) = "launch" => running
      BY <1>1, InTurnRest DEF Starting
    <2>3. running' = TRUE
      BY <1>1, <2>1, <2>2, FlagTypes
    <2>4. InTurn(Tail(agenda), FALSE) /\ Tail(agenda) # <<>> /\ HasCheck(Tail(agenda))
      BY <1>1, <2>1, InTurnTail, InTurnRest DEF Closing
    <2>5. ~Starting'
      BY <2>1 DEF Starting
    <2>6. InTurn(agenda', Starting')
      BY <2>1, <2>4, <2>5, Zenon DEF InTurn, InTurnAt
    <2> QED
      BY <2>1, <2>3, <2>4, <2>5, <2>6 DEF FlagInv, Idle
  <1> QED
    BY <1>4, <1>5, <1>6
(* The steps that neither start nor stop a session.                        *)
LEMMA FlagDelivery ==
  ASSUME FlagInv, SessionInv', Delivery
  PROVE  FlagInv'
  <1> USE DEF transportVars, plannerVars, controlVars, passVars
  <1>1. /\ agenda # <<>> /\ Head(agenda) = "servicePending"
        /\ UNCHANGED <<running, seqRunning, internalTiming, capacityExceeded>>
    BY Zenon DEF Delivery, ServiceEnded, RetryWindowExceeded, OutboxDrained, SendAccepted,
           SendRetryLater, SendDisconnected, Attempt, CanSend, Doing
  <1>2. agenda' = agenda \/ agenda' = Tail(agenda)
    BY Zenon DEF Delivery, ServiceEnded, RetryWindowExceeded, OutboxDrained, SendAccepted,
           SendRetryLater, SendDisconnected, Done
  <1>3. CASE agenda' = agenda
    BY <1>1, <1>3, FlagSame
  <1>4. CASE agenda' = Tail(agenda)
    BY <1>1, <1>4, FlagQuiet
  <1> QED
    BY <1>2, <1>3, <1>4

LEMMA FlagTicks ==
  ASSUME FlagInv, SessionInv',
         \/ \E phase \in Phases : ConsumeTick(phase)
         \/ AdvanceTick \/ AdvanceRefused \/ DispatchDue \/ NothingDue
  PROVE  FlagInv'
  <1> USE DEF transportVars, plannerVars, controlVars, passVars
  <1>1. /\ agenda # <<>> /\ Head(agenda) \in {"consumeTick", "advance", "dispatchDue"}
        /\ UNCHANGED <<running, seqRunning, internalTiming>>
        /\ \/ agenda' = Tail(agenda)
           \/ agenda' = <<"sendDue", "servicePending", "advance">> \o Tail(agenda)
           \/ agenda' = <<"advance">> \o Tail(agenda)
           \/ agenda' = <<"sendDue", "servicePending">> \o Tail(agenda)
    BY Zenon DEF ConsumeTick, AdvanceTick, AdvanceRefused, DispatchDue, NothingDue, Doing,
                 Done, Then
  <1>2. CASE agenda' = Tail(agenda)
    BY <1>1, <1>2, FlagQuiet DEF Closing
  <1>3. ASSUME NEW work \in {<<"sendDue", "servicePending", "advance">>, <<"advance">>,
                             <<"sendDue", "servicePending">>},
               agenda' = work \o Tail(agenda)
        PROVE  FlagInv'
    <2>1. work \in Seq(Labels)
      BY WorkTypes DEF Labels
    <2>2. \A i \in 1 .. Len(work) : work[i] \in LiveWork
      BY DEF LiveWork
    <2>3. WorkInTurn(work)
      BY <2>2 DEF LiveWork, WorkInTurn, WorkInTurnAt
    <2> QED
      BY <1>1, <1>3, <2>1, <2>3, FlagMore DEF Closing
  <1> QED
    BY <1>1, <1>2, <1>3

LEMMA FlagTransfer ==
  ASSUME FlagInv, SessionInv',
         SendDueDone \/ DropLaunch \/ TransferNoteOff \/ TransferNoteOn
  PROVE  FlagInv'
  <1> USE DEF transportVars, plannerVars, controlVars, passVars
  <1>1. /\ agenda # <<>> /\ Head(agenda) = "sendDue"
        /\ UNCHANGED <<running, seqRunning, internalTiming>>
        /\ agenda' = agenda \/ agenda' = Tail(agenda)
    BY Zenon DEF SendDueDone, DropLaunch, TransferNoteOff, TransferNoteOn, Transferring,
                 Doing, Done
  <1> QED
    BY <1>1, FlagQuiet, FlagSame DEF Closing

LEMMA FlagPlans ==
  ASSUME FlagInv, SessionInv',
         \/ ScheduleDone
         \/ \E step \in StepChoices, swing \in Swings : ScheduleStep(step, swing)
         \/ \E step \in StepChoices, swing \in Swings : ScheduleOverflow(step, swing)
         \/ ClockLost \/ ClockPresent
  PROVE  FlagInv'
  <1> USE DEF transportVars, plannerVars, controlVars, passVars
  <1>1. /\ agenda # <<>> /\ Head(agenda) \in {"schedule", "clockLoss"}
        /\ UNCHANGED <<running, seqRunning, internalTiming, outcome, capacityExceeded>>
        /\ \/ agenda' = agenda
           \/ agenda' = Tail(agenda)
           \/ \E label \in {"stop", "stopExternal"} : agenda' = <<label>> \o Tail(agenda)
    BY Zenon DEF ScheduleDone, ScheduleStep, ScheduleOverflow, ClockLost, ClockPresent, Doing,
                 Done
  <1>2. CASE agenda' = agenda \/ agenda' = Tail(agenda)
    BY <1>1, <1>2, FlagQuiet, FlagSame DEF Closing
  <1>3. ASSUME NEW label \in {"stop", "stopExternal"}, agenda' = <<label>> \o Tail(agenda)
        PROVE  FlagInv'
    <2>1. label \in Labels \ {"launch", "start"}
      BY DEF Labels
    <2>2. <<label>> \in Seq(Labels) /\ WorkInTurn(<<label>>)
      BY <2>1, WorksInTurn
    <2> QED
      BY <1>1, <1>3, <2>2, FlagMore DEF Closing
  <1> QED
    BY <1>1, <1>2, <1>3

LEMMA FlagChecks ==
  ASSUME FlagInv, SessionInv', CapacityKept \/ NoOutcome
  PROVE  FlagInv'
  <1>1. /\ agenda # <<>> /\ agenda' = Tail(agenda)
        /\ UNCHANGED <<running, seqRunning, internalTiming, outcome, capacityExceeded>>
        /\ \/ Head(agenda) = "capCheck" /\ ~capacityExceeded
           \/ Head(agenda) = "lifecycle" /\ outcome = "None"
    BY DEF CapacityKept, NoOutcome, Doing, Done, transportVars, plannerVars, controlVars,
           passVars
  <1> QED
    BY <1>1, FlagQuiet

LEMMA ProcessInTurn ==
  ASSUME NEW n \in Nat, NEW loss \in {<<"clockLoss">>, <<>>}
  PROVE  LET ticks == [i \in 1 .. 2 * n |->
                         IF i % 2 = 1 THEN "consumeTick" ELSE "capCheck"]
         IN WorkInTurn(ticks \o <<"dispatchDue", "capCheck", "schedule">> \o loss)
  <1> DEFINE ticks == [i \in 1 .. 2 * n |-> IF i % 2 = 1 THEN "consumeTick" ELSE "capCheck"]
             due == <<"dispatchDue", "capCheck", "schedule">>
  <1>1. \A i \in 1 .. 2 * n : ticks[i] \in {"consumeTick", "capCheck"}
    OBVIOUS
  <1>2. ticks \in Seq(Labels) /\ Len(ticks) = 2 * n
    <2>1. 2 * n \in Nat
      OBVIOUS
    <2>2. ticks \in [1 .. 2 * n -> Labels]
      BY DEF Labels
    <2> HIDE DEF ticks
    <2> QED
      BY <2>1, <2>2
  <1>3. WorkInTurn(ticks)
    <2> HIDE DEF ticks
    <2> QED
      BY <1>1, <1>2 DEF WorkInTurn, WorkInTurnAt
  <1>4. due \in Seq(Labels) /\ WorkInTurn(due)
    BY DEF Labels, WorkInTurn, WorkInTurnAt
  <1>5. loss \in Seq(Labels) /\ WorkInTurn(loss)
    <2>1. "clockLoss" \in Labels \ {"launch", "start"}
      BY DEF Labels
    <2>2. <<"clockLoss">> \in Seq(Labels) /\ <<>> \in Seq(Labels)
      BY <2>1
    <2>3. WorkInTurn(<<"clockLoss">>) /\ WorkInTurn(<<>>)
      BY <2>1, WorksInTurn
    <2> QED
      BY <2>2, <2>3, Zenon
  <1> HIDE DEF ticks, due
  <1>6. ticks \o due \in Seq(Labels) /\ WorkInTurn(ticks \o due)
    BY <1>2, <1>3, <1>4, ConcatAt, WorkConcat
  <1>7. WorkInTurn(ticks \o due \o loss)
    BY <1>5, <1>6, WorkConcat
  <1> QED
    BY <1>7 DEF ticks, due

LEMMA FlagOperations ==
  ASSUME FlagInv, SessionInv', Operation
  PROVE  FlagInv'
  <1> USE DEF transportVars, plannerVars
  <1>1. /\ <<>> \in Seq(Labels) /\ WorkInTurn(<<>>)
        /\ StartSession \in Seq(Labels) /\ WorkInTurn(StartSession)
        /\ \A label \in {"stop", "stopExternal", "consumeTick", "continue"} :
             <<label>> \in Seq(Labels) /\ WorkInTurn(<<label>>)
    BY WorkTypes, WorksInTurn DEF Labels
  <1>2. CASE Toggle
    BY <1>1, <1>2, FlagPass DEF Toggle, PassUnchanged, controlVars
  <1>3. ASSUME NEW m \in Modes, ApplyMode(m) PROVE FlagInv'
    BY <1>1, <1>3, FlagPass DEF ApplyMode, PassUnchanged
  <1>4. CASE OpenStorage
    BY <1>1, <1>4, FlagPass DEF OpenStorage, PassUnchanged
  <1>5. CASE CloseStorage
    BY <1>5, FlagSame DEF CloseStorage, PassUnchanged
  <1>6. ASSUME NEW n \in 0 .. MaxTicksPerPass, Process(n) PROVE FlagInv'
    <2> DEFINE ticks == [i \in 1 .. 2 * n |->
                           IF i % 2 = 1 THEN "consumeTick" ELSE "capCheck"]
               loss == IF mode = "External" THEN <<"clockLoss">> ELSE <<>>
               work == ticks \o <<"dispatchDue", "capCheck", "schedule">> \o loss
    <2>1. /\ Idle /\ Pass(work)
          /\ UNCHANGED <<running, seqRunning, internalTiming, capacityExceeded>>
      BY <1>6, Zenon DEF Process, PassUnchanged, controlVars
    <2>2. n \in Nat /\ loss \in {<<"clockLoss">>, <<>>}
      BY ControllerAssumption
    <2>3. work \in Seq(Labels) /\ WorkInTurn(work)
      <3> HIDE DEF loss
      <3> QED
        BY <2>2, ProcessWork, ProcessInTurn
    <2> HIDE DEF work
    <2> QED
      BY <2>1, <2>3, FlagPass
  <1>7. CASE ExternalStart
    BY <1>1, <1>7, FlagPass DEF ExternalStart, HearsExternal, PassUnchanged
  <1>8. CASE ExternalContinue
    <2>1. /\ Idle
          /\ Pass(<<"continue">>) \/ Pass(<<>>)
          /\ UNCHANGED <<running, seqRunning, internalTiming, capacityExceeded>>
      BY <1>8, Zenon DEF ExternalContinue, HearsExternal, PassUnchanged
    <2> QED
      BY <1>1, <2>1, FlagPass
  <1>9. CASE ExternalStop
    BY <1>1, <1>9, FlagPass DEF ExternalStop, HearsExternal, PassUnchanged
  <1>10. ASSUME NEW periodKnown \in BOOLEAN, ExternalClock(periodKnown) PROVE FlagInv'
    <2>1. /\ Idle
          /\ Pass(<<"consumeTick">>) \/ Pass(<<>>)
          /\ UNCHANGED <<running, seqRunning, internalTiming, capacityExceeded>>
      BY <1>10, Zenon DEF ExternalClock, HearsExternal, PassUnchanged
    <2> QED
      BY <1>1, <2>1, FlagPass
  <1> QED
    BY <1>2, <1>3, <1>4, <1>5, <1>6, <1>7, <1>8, <1>9, <1>10 DEF Operation

(* Whatever a pass is in the middle of, the sequencer runs only with the   *)
(* transport, a transport without its sequencer is about to launch it, and *)
(* an outbox that overflowed while the transport runs is looked at before  *)
(* the pass ends.                                                          *)
THEOREM FlagInvariance == Spec => []FlagInv
  <1>1. Init /\ SessionInv => FlagInv
    BY DEF Init, FlagInv, Starting, Idle, InTurn
  <1>2. FlagInv /\ SessionInv' /\ [Next]_vars => FlagInv'
    <2> SUFFICES ASSUME FlagInv, SessionInv', [Next]_vars PROVE FlagInv'
      OBVIOUS
    <2>1. CASE UNCHANGED vars
      BY <2>1, FlagSame DEF vars, transportVars, plannerVars, controlVars, passVars
    <2>2. CASE Work
      BY <2>2, FlagEnds, FlagStarts, FlagTicks, FlagTransfer, FlagPlans, FlagChecks DEF Work
    <2> QED
      BY <2>1, <2>2, FlagOperations, FlagDelivery DEF Next
  <1> QED
    BY <1>1, <1>2, SessionInvariance, PTL DEF Spec

(* Between two operations the flags of the transport and of the sequencer  *)
(* agree, so that toggle(), which asks one, and process(), which asks the  *)
(* other, cannot take the same session for stopped and for running.        *)
THEOREM FlagsCorrect == Spec => []FlagsAgree
  <1>1. FlagInv => FlagsAgree
    <2> SUFFICES ASSUME FlagInv, Idle PROVE FlagsAgree
      BY DEF FlagsAgree
    <2>1. running = seqRunning /\ (internalTiming => running)
      BY FlagTypes DEF FlagInv, Starting
    <2>2. ~HasCheck(agenda)
      BY DEF Idle, HasCheck
    <2>3. running => terminalGen # sessionGen
      BY DEF FlagInv, SessionInv, EndedIsStopped
    <2> QED
      BY <2>1, <2>2, <2>3 DEF FlagsAgree, FlagInv
  <1> QED
    BY <1>1, FlagInvariance, PTL
-----------------------------------------------------------------------------
(***************************************************************************)
(* The retry window                                                        *)
(***************************************************************************)
TickLabels == {"consumeTick", "advance"}

(* The ticks a pass may still consume.                                     *)
TickPlaces(rest) == {i \in 1 .. Len(rest) : rest[i] \in TickLabels}

TicksAhead(rest) == Cardinality(TickPlaces(rest))

(* The window is looked at before anything is sent, so that either the     *)
(* look is still to come, or it found the window over, or it found it open *)
(* and only the ticks of this pass have been added.                        *)
WindowInv ==
  /\ TicksAhead(agenda) <= MaxTicksPerPass
  /\ running /\ clockRetry # None =>
       \/ CanSend
       \/ outcome = "RetryWindowExceeded"
       \/ tick + TicksAhead(agenda) < clockRetry + TicksPerSixteenth + MaxTicksPerPass

LEMMA TicksAheadTail ==
  ASSUME NEW rest \in Seq(Labels), rest # <<>>
  PROVE  /\ TicksAhead(rest) \in Nat /\ TicksAhead(Tail(rest)) \in Nat
         /\ TicksAhead(rest) = TicksAhead(Tail(rest))
                                 + (IF Head(rest) \in TickLabels THEN 1 ELSE 0)
  <1> DEFINE t == Tail(rest)
  <1>1. /\ Len(rest) \in Nat \ {0} /\ Len(t) = Len(rest) - 1 /\ Head(rest) = rest[1]
        /\ \A i \in 1 .. Len(t) : t[i] = rest[i + 1]
    BY TailAt
  <1> HIDE DEF t
  <1> DEFINE Later == TickPlaces(rest) \ {1}
             shift == [i \in TickPlaces(t) |-> i + 1]
  <1>2. IsFiniteSet(TickPlaces(rest)) /\ IsFiniteSet(TickPlaces(t))
    <2>1. IsFiniteSet(1 .. Len(rest)) /\ IsFiniteSet(1 .. Len(t))
      BY <1>1, FS_Interval
    <2> QED
      BY <2>1, FS_Subset DEF TickPlaces
  <1>3. shift \in [TickPlaces(t) -> Later]
    BY <1>1 DEF TickPlaces
  <1>4. \A i, j \in TickPlaces(t) : shift[i] = shift[j] => i = j
    BY <1>1 DEF TickPlaces
  <1>5. ASSUME NEW k \in Later PROVE \E i \in TickPlaces(t) : shift[i] = k
    <2>1. k - 1 \in 1 .. Len(t) /\ (k - 1) + 1 = k
      BY <1>1 DEF TickPlaces
    <2>2. k - 1 \in TickPlaces(t)
      BY <1>1, <2>1 DEF TickPlaces
    <2> QED
      BY <2>1, <2>2
  <1>6. shift \in Bijection(TickPlaces(t), Later)
    BY <1>3, <1>4, <1>5 DEF Bijection, Injection, Surjection, IsInjective
  <1>7. IsFiniteSet(Later) /\ Cardinality(Later) = TicksAhead(t)
    BY <1>2, <1>6, FS_Bijection DEF ExistsBijection, TicksAhead
  <1>8. Cardinality(Later) = IF 1 \in TickPlaces(rest) THEN TicksAhead(rest) - 1
                             ELSE TicksAhead(rest)
    BY <1>2, FS_RemoveElement DEF TicksAhead
  <1>9. 1 \in TickPlaces(rest) <=> Head(rest) \in TickLabels
    BY <1>1 DEF TickPlaces
  <1>10. TicksAhead(rest) \in Nat /\ TicksAhead(t) \in Nat
    BY <1>2, FS_CardinalityType DEF TicksAhead
  <1> QED
    BY <1>7, <1>8, <1>9, <1>10 DEF t

LEMMA TicksAheadPut ==
  ASSUME NEW label \in Labels, NEW rest \in Seq(Labels)
  PROVE  /\ <<label>> \o rest \in Seq(Labels)
         /\ TicksAhead(rest) \in Nat
         /\ TicksAhead(<<label>> \o rest) =
              TicksAhead(rest) + (IF label \in TickLabels THEN 1 ELSE 0)
  <1> DEFINE t == <<label>> \o rest
  <1>1. t \in Seq(Labels) /\ t # <<>> /\ Tail(t) = rest /\ Head(t) = label
    OBVIOUS
  <1> HIDE DEF t
  <1> QED
    BY <1>1, TicksAheadTail DEF t

LEMMA TicksAheadEmpty == TicksAhead(<<>>) = 0
  <1>1. TickPlaces(<<>>) = {}
    BY DEF TickPlaces
  <1> QED
    BY <1>1, FS_EmptySet DEF TicksAhead

(* Ticks stand at even places of a pass, so that half as many fit.         *)
LEMMA TicksAheadBound ==
  ASSUME NEW rest \in Seq(Labels), NEW n \in Nat,
         \A i \in TickPlaces(rest) : i % 2 = 0 /\ i <= 2 * n
  PROVE  TicksAhead(rest) <= n
  <1> DEFINE half == [i \in TickPlaces(rest) |-> i \div 2]
  <1>1. TickPlaces(rest) \subseteq 1 .. Len(rest) /\ Len(rest) \in Nat
    BY LenProperties DEF TickPlaces
  <1>2. \A i \in TickPlaces(rest) : i \in Nat \ {0} /\ i % 2 = 0 /\ i <= 2 * n
    BY <1>1
  <1>3. half \in [TickPlaces(rest) -> 1 .. n]
    BY <1>2
  <1>4. \A i, j \in TickPlaces(rest) : half[i] = half[j] => i = j
    BY <1>2
  <1>5. half \in Injection(TickPlaces(rest), 1 .. n)
    BY <1>3, <1>4 DEF Injection, IsInjective
  <1>6. IsFiniteSet(1 .. n) /\ Cardinality(1 .. n) = n
    BY FS_Interval
  <1>7. Cardinality(TickPlaces(rest)) <= Cardinality(1 .. n)
    <2> HIDE DEF half
    <2> QED
      BY <1>5, <1>6, FS_Injection
  <1> QED
    BY <1>6, <1>7 DEF TicksAhead

LEMMA NoTicksAhead ==
  ASSUME NEW rest \in Seq(Labels), \A i \in 1 .. Len(rest) : rest[i] \notin TickLabels
  PROVE  TicksAhead(rest) = 0
  <1>1. TickPlaces(rest) = {}
    BY DEF TickPlaces
  <1> QED
    BY <1>1, FS_EmptySet DEF TicksAhead

LEMMA TicksAheadPass ==
  ASSUME NEW work \in Seq(Labels), NEW n \in Nat,
         \A i \in TickPlaces(work) : i % 2 = 1 /\ i < 2 * n
  PROVE  /\ TicksAhead(<<"servicePending">> \o work \o FinishPass) \in Nat
         /\ TicksAhead(<<"servicePending">> \o work \o FinishPass) <= n
  <1> DEFINE first == <<"servicePending">> \o work
             rest == first \o FinishPass
  <1>1. /\ FinishPass \in Seq(Labels) /\ Len(FinishPass) = 3
        /\ \A i \in 1 .. 3 : FinishPass[i] \notin TickLabels
    <2>1. FinishPass[1] = "capCheck" /\ FinishPass[2] = "servicePending"
          /\ FinishPass[3] = "lifecycle"
      BY DEF FinishPass
    <2>2. \A i \in 1 .. 3 : i = 1 \/ i = 2 \/ i = 3
      OBVIOUS
    <2> QED
      BY <2>1, <2>2, WorkTypes DEF FinishPass, TickLabels
  <1>2. /\ first \in Seq(Labels) /\ Len(work) \in Nat /\ Len(first) = Len(work) + 1
        /\ first[1] = "servicePending"
        /\ \A i \in 1 .. Len(work) : first[i + 1] = work[i]
    BY PutAt DEF Labels
  <1> HIDE DEF first
  <1>3. /\ rest \in Seq(Labels) /\ Len(rest) = Len(first) + 3
        /\ \A i \in 1 .. Len(first) : rest[i] = first[i]
        /\ \A i \in 1 .. 3 : rest[Len(first) + i] = FinishPass[i]
    <2> HIDE DEF rest
    <2>1. /\ rest \in Seq(Labels) /\ Len(rest) = Len(first) + Len(FinishPass)
          /\ \A i \in 1 .. Len(first) : rest[i] = first[i]
          /\ \A i \in 1 .. Len(FinishPass) : rest[Len(first) + i] = FinishPass[i]
      BY <1>1, <1>2, ConcatAt, Zenon DEF rest
    <2> QED
      BY <1>1, <2>1
  <1> HIDE DEF rest
  <1>4. ASSUME NEW i \in TickPlaces(rest) PROVE i % 2 = 0 /\ i <= 2 * n
    <2>1. i \in 1 .. Len(rest) /\ rest[i] \in TickLabels
      BY DEF TickPlaces
    <2>2. i <= Len(first)
      <3> SUFFICES ASSUME i > Len(first) PROVE FALSE
        BY <1>2, <2>1
      <3>1. i - Len(first) \in 1 .. 3 /\ Len(first) + (i - Len(first)) = i
        BY <1>2, <1>3, <2>1
      <3> QED
        BY <1>1, <1>3, <2>1, <3>1
    <2>3. i # 1
      BY <1>2, <1>3, <2>1 DEF TickLabels
    <2>4. i - 1 \in 1 .. Len(work) /\ (i - 1) + 1 = i
      BY <1>2, <2>1, <2>2, <2>3
    <2>5. i - 1 \in TickPlaces(work)
      <3>1. i \in 1 .. Len(first)
        BY <1>2, <2>1, <2>2
      <3>2. rest[i] = first[i] /\ first[(i - 1) + 1] = work[i - 1]
        BY <1>2, <1>3, <2>4, <3>1
      <3> QED
        BY <2>1, <2>4, <3>2 DEF TickPlaces
    <2>6. (i - 1) % 2 = 1 /\ i - 1 < 2 * n
      BY <2>5
    <2> QED
      BY <2>1, <2>6
  <1>5. TicksAhead(rest) <= n
    BY <1>3, <1>4, TicksAheadBound
  <1>6. TicksAhead(rest) \in Nat
    <2>1. IsFiniteSet(1 .. Len(rest))
      BY <1>2, <1>3, FS_Interval
    <2>2. IsFiniteSet(TickPlaces(rest))
      BY <2>1, FS_Subset DEF TickPlaces
    <2> QED
      BY <2>2, FS_CardinalityType DEF TicksAhead
  <1> QED
    BY <1>5, <1>6 DEF rest, first

LEMMA TicksAheadProcess ==
  ASSUME NEW n \in Nat, NEW loss \in {<<"clockLoss">>, <<>>}
  PROVE  LET ticks == [i \in 1 .. 2 * n |->
                         IF i % 2 = 1 THEN "consumeTick" ELSE "capCheck"]
             work == ticks \o <<"dispatchDue", "capCheck", "schedule">> \o loss
         IN \A i \in TickPlaces(work) : i % 2 = 1 /\ i < 2 * n
  <1> DEFINE ticks == [i \in 1 .. 2 * n |-> IF i % 2 = 1 THEN "consumeTick" ELSE "capCheck"]
             due == <<"dispatchDue", "capCheck", "schedule">>
             first == ticks \o due
             work == first \o loss
  <1>1. \A i \in 1 .. 2 * n : ticks[i] \in TickLabels => i % 2 = 1
    BY DEF TickLabels
  <1>2. ticks \in Seq(Labels) /\ Len(ticks) = 2 * n
    <2>1. 2 * n \in Nat
      OBVIOUS
    <2>2. ticks \in [1 .. 2 * n -> Labels]
      BY DEF Labels
    <2> HIDE DEF ticks
    <2> QED
      BY <2>1, <2>2
  <1>3. due \in Seq(Labels) /\ Len(due) = 3 /\ \A i \in 1 .. 3 : due[i] \notin TickLabels
    <2>1. due[1] = "dispatchDue" /\ due[2] = "capCheck" /\ due[3] = "schedule"
      OBVIOUS
    <2>2. \A i \in 1 .. 3 : i = 1 \/ i = 2 \/ i = 3
      OBVIOUS
    <2> QED
      BY <2>1, <2>2, WorkTypes DEF TickLabels
  <1>4. /\ loss \in Seq(Labels)
        /\ \A i \in 1 .. Len(loss) : loss[i] \notin TickLabels
    <2>1. CASE loss = <<>>
      BY <2>1, WorkTypes
    <2>2. CASE loss = <<"clockLoss">>
      BY <2>2, WorkTypes DEF Labels, TickLabels
    <2> QED
      BY <2>1, <2>2
  <1> HIDE DEF ticks, due
  <1>5. /\ first \in Seq(Labels) /\ Len(first) = 2 * n + 3
        /\ \A i \in 1 .. 2 * n : first[i] = ticks[i]
        /\ \A i \in 1 .. 3 : first[2 * n + i] = due[i]
    <2> HIDE DEF first
    <2>1. /\ first \in Seq(Labels) /\ Len(first) = Len(ticks) + Len(due)
          /\ \A i \in 1 .. Len(ticks) : first[i] = ticks[i]
          /\ \A i \in 1 .. Len(due) : first[Len(ticks) + i] = due[i]
      BY <1>2, <1>3, ConcatAt, Zenon DEF first
    <2> QED
      BY <1>2, <1>3, <2>1
  <1> HIDE DEF first
  <1>6. /\ work \in Seq(Labels) /\ Len(loss) \in Nat /\ Len(work) = Len(first) + Len(loss)
        /\ \A i \in 1 .. Len(first) : work[i] = first[i]
        /\ \A i \in 1 .. Len(loss) : work[Len(first) + i] = loss[i]
    BY <1>4, <1>5, ConcatAt
  <1> HIDE DEF work
  <1>7. ASSUME NEW i \in TickPlaces(work) PROVE i % 2 = 1 /\ i < 2 * n
    <2>1. i \in 1 .. Len(work) /\ work[i] \in TickLabels
      BY DEF TickPlaces
    <2>2. i <= Len(first)
      <3> SUFFICES ASSUME i > Len(first) PROVE FALSE
        BY <1>5, <2>1
      <3>1. i - Len(first) \in 1 .. Len(loss) /\ Len(first) + (i - Len(first)) = i
        BY <1>5, <1>6, <2>1
      <3> QED
        BY <1>4, <1>6, <2>1, <3>1
    <2>3. i <= 2 * n
      <3> SUFFICES ASSUME i > 2 * n PROVE FALSE
        BY <2>1
      <3>1. i - 2 * n \in 1 .. 3 /\ 2 * n + (i - 2 * n) = i
        BY <1>5, <2>1, <2>2
      <3> QED
        BY <1>3, <1>5, <1>6, <2>1, <2>2, <3>1
    <2>4. i \in 1 .. 2 * n /\ i % 2 = 1
      BY <1>1, <1>5, <1>6, <2>1, <2>2, <2>3
    <2> QED
      BY <2>4
  <1> QED
    BY <1>7 DEF work, first, ticks, due

(* A step that is no send, closes as many ticks as it takes off the pass,  *)
(* and leaves the outcome alone unless it stops the transport.             *)
LEMMA WindowQuiet ==
  ASSUME WindowInv, TypeOK, TypeOK', agenda # <<>>, Head(agenda) # "servicePending",
         TicksAhead(agenda) \in Nat, TicksAhead(agenda') \in Nat,
         TicksAhead(agenda') <= TicksAhead(agenda),
         \/ running' = FALSE
         \/ clockRetry' = None
         \/ /\ UNCHANGED <<running, clockRetry, outcome>>
            /\ tick' + TicksAhead(agenda') <= tick + TicksAhead(agenda)
  PROVE  WindowInv'
  <1>1. ~CanSend
    BY DEF CanSend, Doing
  <1>2. /\ MaxTicksPerPass \in Nat /\ TicksPerSixteenth \in Nat
        /\ tick \in Nat /\ tick' \in Nat
        /\ clockRetry # None => clockRetry \in Nat
    BY ControllerAssumption, TimeAssumption DEF TypeOK
  <1>3. TicksAhead(agenda') <= MaxTicksPerPass
    BY <1>2 DEF WindowInv
  <1>4. ASSUME running', clockRetry' # None
        PROVE  \/ outcome' = "RetryWindowExceeded"
               \/ tick' + TicksAhead(agenda')
                    < clockRetry' + TicksPerSixteenth + MaxTicksPerPass
    <2>1. /\ UNCHANGED <<running, clockRetry, outcome>>
          /\ tick' + TicksAhead(agenda') <= tick + TicksAhead(agenda)
      BY <1>4
    <2>2. \/ outcome = "RetryWindowExceeded"
          \/ tick + TicksAhead(agenda) < clockRetry + TicksPerSixteenth + MaxTicksPerPass
      BY <1>1, <1>4, <2>1 DEF WindowInv
    <2>3. clockRetry \in Nat
      BY <1>2, <1>4, <2>1
    <2> QED
      BY <1>2, <2>1, <2>2, <2>3
  <1> QED
    BY <1>3, <1>4 DEF WindowInv

(* The look before a send.                                                 *)
LEMMA WindowDelivery ==
  ASSUME SessionInv, TypeOK', WindowInv, Delivery
  PROVE  WindowInv'
  <1> USE DEF transportVars, passVars
  <1>1. /\ agenda # <<>> /\ Head(agenda) = "servicePending"
        /\ UNCHANGED <<running, tick>>
        /\ agenda' = agenda \/ agenda' = Tail(agenda)
    BY Zenon DEF Delivery, ServiceEnded, RetryWindowExceeded, OutboxDrained, SendAccepted,
           SendRetryLater, SendDisconnected, Attempt, CanSend, Doing, Done
  <1>2. /\ agenda \in Seq(Labels) /\ tick \in Nat
        /\ MaxTicksPerPass \in Nat /\ TicksPerSixteenth \in Nat \ {0}
        /\ clockRetry # None => clockRetry \in Nat
        /\ clockRetry' # None => clockRetry' \in Nat
    BY ControllerAssumption, TimeAssumption DEF SessionInv, TypeOK
  <1>3. /\ TicksAhead(agenda) \in Nat /\ TicksAhead(agenda') \in Nat
        /\ TicksAhead(agenda') <= TicksAhead(agenda)
    <2> DEFINE t == Tail(agenda)
    <2>1. TicksAhead(agenda) \in Nat /\ TicksAhead(t) \in Nat
          /\ TicksAhead(agenda) = TicksAhead(t)
      BY <1>1, <1>2, TicksAheadTail DEF TickLabels
    <2> HIDE DEF t
    <2>2. agenda' = agenda \/ agenda' = t
      BY <1>1 DEF t
    <2> QED
      BY <2>1, <2>2
  <1>4. TicksAhead(agenda') <= MaxTicksPerPass
    BY <1>2, <1>3 DEF WindowInv
  <1>5. CASE ServiceEnded
    <2>1. ~CanSend /\ UNCHANGED <<clockRetry, outcome>>
      BY <1>5 DEF ServiceEnded, CanSend
    <2> QED
      BY <1>1, <1>2, <1>3, <1>4, <2>1 DEF WindowInv
  <1>6. CASE RetryWindowExceeded
    BY <1>4, <1>6 DEF RetryWindowExceeded, WindowInv
  <1>7. CASE OutboxDrained \/ SendAccepted \/ SendRetryLater \/ SendDisconnected
    <2>1. ~RetryWindowOver
      BY <1>7 DEF OutboxDrained, SendAccepted, SendRetryLater, SendDisconnected, Attempt
    <2>2. ASSUME running', clockRetry' # None
          PROVE  tick < clockRetry' + TicksPerSixteenth
      <3>1. CASE clockRetry' = clockRetry
        BY <1>2, <2>1, <2>2, <3>1 DEF RetryWindowOver
      <3>2. CASE clockRetry' # clockRetry
        <4> DEFINE p == OutboxFront(Live)
        <4>1. /\ SendRetryLater /\ clockRetry' = p.limit /\ p.kind = "Clock" /\ Live # {}
          BY <1>7, <2>2, <3>2 DEF OutboxDrained, SendAccepted, SendRetryLater,
                                  SendDisconnected, Attempt
        <4>2. p \in Live
          BY <4>1, FrontOfOutbox, LiveTypes DEF SessionInv
        <4> HIDE DEF p
        <4>3. p \in outbox /\ ~Overdue(p)
          BY <4>2 DEF Live
        <4>4. p.gen = sessionGen
          BY <4>1, <4>3 DEF SessionInv, MusicIsLive, Musical
        <4>5. ~(tick > p.limit)
          BY <4>1, <4>3, <4>4 DEF Overdue
        <4> QED
          BY <1>2, <2>2, <4>1, <4>5
      <3> QED
        BY <3>1, <3>2
    <2>3. ASSUME running', clockRetry' # None
          PROVE  tick' + TicksAhead(agenda') < clockRetry' + TicksPerSixteenth + MaxTicksPerPass
      BY <1>1, <1>2, <1>3, <1>4, <2>2, <2>3
    <2> QED
      BY <1>4, <2>3 DEF WindowInv
  <1> QED
    BY <1>5, <1>6, <1>7 DEF Delivery

(* What every step of a pass leaves of its ticks.                          *)
LEMMA TicksAheadWork ==
  ASSUME NEW rest \in Seq(Labels), rest # <<>>, NEW next,
         \/ next = Tail(rest)
         \/ next = <<"servicePending">> \o Tail(rest)
         \/ next = <<"sendDue", "servicePending">> \o Tail(rest)
         \/ \E label \in {"stop", "stopExternal"} : next = <<label>> \o Tail(rest)
  PROVE  /\ TicksAhead(rest) \in Nat /\ TicksAhead(next) \in Nat
         /\ TicksAhead(rest) = TicksAhead(next) + (IF Head(rest) \in TickLabels THEN 1 ELSE 0)
  <1> DEFINE t == Tail(rest)
  <1>1. /\ t \in Seq(Labels) /\ TicksAhead(rest) \in Nat /\ TicksAhead(t) \in Nat
        /\ TicksAhead(rest) = TicksAhead(t) + (IF Head(rest) \in TickLabels THEN 1 ELSE 0)
    BY TicksAheadTail, TailAt
  <1> HIDE DEF t
  <1>2. \A label \in {"servicePending", "sendDue", "stop", "stopExternal"} :
          label \in Labels /\ label \notin TickLabels
    BY DEF Labels, TickLabels
  <1>3. ASSUME NEW label \in {"servicePending", "sendDue", "stop", "stopExternal"},
               NEW s \in Seq(Labels)
        PROVE  <<label>> \o s \in Seq(Labels) /\ TicksAhead(<<label>> \o s) = TicksAhead(s)
    <2>1. label \in Labels /\ label \notin TickLabels
      BY <1>2
    <2> QED
      BY <2>1, TicksAheadPut
  <1>4. <<"sendDue", "servicePending">> \o t = <<"sendDue">> \o (<<"servicePending">> \o t)
    BY <1>1
  <1>5. TicksAhead(<<"sendDue", "servicePending">> \o t) = TicksAhead(t)
    <2> DEFINE u == <<"servicePending">> \o t
    <2>1. u \in Seq(Labels) /\ TicksAhead(u) = TicksAhead(t)
      BY <1>1, <1>3
    <2> HIDE DEF u
    <2>2. TicksAhead(<<"sendDue">> \o u) = TicksAhead(u)
      BY <1>3, <2>1
    <2> QED
      BY <1>4, <2>1, <2>2, Zenon DEF u
  <1>6. TicksAhead(next) = TicksAhead(t)
    <2>1. CASE next = t
      BY <2>1, Zenon
    <2>2. CASE next = <<"sendDue", "servicePending">> \o t
      BY <1>5, <2>2, Zenon
    <2>3. ASSUME NEW label \in {"servicePending", "sendDue", "stop", "stopExternal"},
                 next = <<label>> \o t
          PROVE  TicksAhead(next) = TicksAhead(t)
      BY <1>1, <1>3, <2>3, Zenon
    <2> QED
      BY <2>1, <2>2, <2>3 DEF t
  <1> QED
    BY <1>1, <1>6

LEMMA TicksAheadConsume ==
  ASSUME NEW rest \in Seq(Labels), rest # <<>>, Head(rest) = "consumeTick", NEW next,
         \/ next = Tail(rest)
         \/ next = <<"advance">> \o Tail(rest)
         \/ next = <<"sendDue", "servicePending", "advance">> \o Tail(rest)
  PROVE  /\ TicksAhead(rest) \in Nat /\ TicksAhead(next) \in Nat
         /\ TicksAhead(next) <= TicksAhead(rest)
  <1> DEFINE t == Tail(rest)
             u == <<"advance">> \o t
  <1>1. /\ t \in Seq(Labels) /\ TicksAhead(rest) \in Nat /\ TicksAhead(t) \in Nat
        /\ TicksAhead(rest) = TicksAhead(t) + 1
    BY TicksAheadTail, TailAt DEF TickLabels
  <1>2. "advance" \in Labels /\ "sendDue" \in Labels /\ "servicePending" \in Labels
        /\ "sendDue" \notin TickLabels /\ "servicePending" \notin TickLabels
        /\ "advance" \in TickLabels
    BY DEF Labels, TickLabels
  <1> HIDE DEF t
  <1>3. u \in Seq(Labels) /\ TicksAhead(u) = TicksAhead(t) + 1
    BY <1>1, <1>2, TicksAheadPut
  <1>4. <<"sendDue", "servicePending", "advance">> \o t
          = <<"sendDue">> \o (<<"servicePending">> \o u)
    BY <1>1
  <1> HIDE DEF u
  <1> DEFINE v == <<"servicePending">> \o u
  <1>5. v \in Seq(Labels) /\ TicksAhead(v) = TicksAhead(u)
    BY <1>2, <1>3, TicksAheadPut
  <1> HIDE DEF v
  <1>6. TicksAhead(<<"sendDue">> \o v) = TicksAhead(u)
    BY <1>2, <1>5, TicksAheadPut
  <1>7. TicksAhead(next) \in {TicksAhead(t), TicksAhead(u)}
    BY <1>4, <1>6, Zenon DEF t, u, v
  <1> QED
    BY <1>1, <1>3, <1>7

LEMMA WindowWork ==
  ASSUME FlagInv, TypeOK', WindowInv, Work
  PROVE  WindowInv'
  <1> USE DEF transportVars, plannerVars, controlVars, passVars
  <1>1. agenda # <<>> /\ agenda \in Seq(Labels) /\ TypeOK
    <2>1. agenda # <<>>
      BY Zenon DEF Work, StopSession, Stop, CapacityStop, CapacityKept, NoOutcome,
            RetryWindowStop, Disconnect, EndPreviousSession, DispatcherStart, LaunchSession,
            ContinueSession, ScheduleDone, ScheduleStep, ScheduleOverflow, ConsumeTick,
            AdvanceTick, AdvanceRefused, DispatchDue, NothingDue, SendDueDone, DropLaunch,
            TransferNoteOff, TransferNoteOn, Transferring, ClockLost, ClockPresent, Doing
    <2> QED
      BY <2>1 DEF FlagInv, SessionInv, TypeOK
  <1>2. TicksAhead(agenda) \in Nat
    BY <1>1, TicksAheadTail
  <1>3. CASE \/ StopSession \/ CapacityStop \/ RetryWindowStop \/ Disconnect
             \/ EndPreviousSession \/ DispatcherStart \/ ContinueSession
    <2>1. /\ Head(agenda) \notin TickLabels \cup {"servicePending"}
          /\ agenda' = Tail(agenda) \/ agenda' = <<"servicePending">> \o Tail(agenda)
          /\ running' = FALSE \/ clockRetry' = None
      BY <1>3, Zenon DEF StopSession, Stop, CapacityStop, RetryWindowStop, Disconnect,
            EndPreviousSession, DispatcherStart, ContinueSession, EndSession, Doing, Done,
            Then, TickLabels
    <2>2. TicksAhead(agenda') \in Nat /\ TicksAhead(agenda) = TicksAhead(agenda')
      BY <1>1, <2>1, TicksAheadWork
    <2>3. TicksAhead(agenda') <= TicksAhead(agenda) /\ Head(agenda) # "servicePending"
      <3> HIDE DEF TicksAhead
      <3>1. \A a, b : a \in Nat /\ b = a => a <= b
        OBVIOUS
      <3> QED
        BY <2>1, <2>2, <3>1, Zenon
    <2> QED
      BY <1>1, <1>2, <2>1, <2>2, <2>3, WindowQuiet, Zenon
  <1>4. CASE \/ CapacityKept \/ NoOutcome \/ LaunchSession \/ ScheduleDone
             \/ \E step \in StepChoices, swing \in Swings : ScheduleStep(step, swing)
             \/ \E step \in StepChoices, swing \in Swings : ScheduleOverflow(step, swing)
             \/ DispatchDue \/ NothingDue
             \/ SendDueDone \/ DropLaunch \/ TransferNoteOff \/ TransferNoteOn
             \/ ClockLost \/ ClockPresent
    <2>1. /\ Head(agenda) \notin TickLabels \cup {"servicePending"}
          /\ UNCHANGED <<running, tick, clockRetry, outcome>>
          /\ \/ agenda' = agenda
             \/ agenda' = Tail(agenda)
             \/ agenda' = <<"sendDue", "servicePending">> \o Tail(agenda)
             \/ \E label \in {"stop", "stopExternal"} : agenda' = <<label>> \o Tail(agenda)
      BY <1>4, Zenon DEF CapacityKept, NoOutcome, LaunchSession, ScheduleDone, ScheduleStep,
            ScheduleOverflow, DispatchDue, NothingDue, SendDueDone, DropLaunch,
            TransferNoteOff, TransferNoteOn, Transferring, ClockLost, ClockPresent, Doing,
            Done, Then, TickLabels
    <2>2. TicksAhead(agenda') \in Nat /\ TicksAhead(agenda') <= TicksAhead(agenda)
      <3>1. CASE agenda' = agenda
        BY <1>2, <3>1
      <3>2. CASE agenda' # agenda
        <4>1. \/ agenda' = Tail(agenda)
              \/ agenda' = <<"sendDue", "servicePending">> \o Tail(agenda)
              \/ \E label \in {"stop", "stopExternal"} : agenda' = <<label>> \o Tail(agenda)
          BY <2>1, <3>2
        <4>2. /\ TicksAhead(agenda') \in Nat
              /\ TicksAhead(agenda) =
                   TicksAhead(agenda') + (IF Head(agenda) \in TickLabels THEN 1 ELSE 0)
          BY <1>1, <4>1, TicksAheadWork
        <4> QED
          BY <1>2, <4>2
      <3> QED
        BY <3>1, <3>2
    <2>3. tick' + TicksAhead(agenda') <= tick + TicksAhead(agenda)
      BY <1>1, <1>2, <2>1, <2>2 DEF TypeOK
    <2> QED
      BY <1>1, <1>2, <2>1, <2>2, <2>3, WindowQuiet
  <1>5. ASSUME NEW phase \in Phases, ConsumeTick(phase) PROVE WindowInv'
    <2>1. /\ Head(agenda) = "consumeTick"
          /\ UNCHANGED <<running, tick, clockRetry, outcome>>
          /\ \/ agenda' = Tail(agenda)
             \/ agenda' = <<"advance">> \o Tail(agenda)
             \/ agenda' = <<"sendDue", "servicePending", "advance">> \o Tail(agenda)
      BY <1>5, Zenon DEF ConsumeTick, Doing, Done, Then
    <2>2. TicksAhead(agenda') \in Nat /\ TicksAhead(agenda') <= TicksAhead(agenda)
      BY <1>1, <2>1, TicksAheadConsume
    <2>3. tick' + TicksAhead(agenda') <= tick + TicksAhead(agenda)
      BY <1>1, <1>2, <2>1, <2>2 DEF TypeOK
    <2> QED
      BY <1>1, <1>2, <2>1, <2>2, <2>3, WindowQuiet
  <1>6. CASE AdvanceTick \/ AdvanceRefused
    <2>1. /\ Head(agenda) = "advance" /\ "advance" \in TickLabels
          /\ UNCHANGED <<running, clockRetry, outcome>>
          /\ tick' = tick \/ tick' = tick + 1
          /\ \/ agenda' = Tail(agenda)
             \/ agenda' = <<"sendDue", "servicePending">> \o Tail(agenda)
      BY <1>6, Zenon DEF AdvanceTick, AdvanceRefused, Doing, Done, Then, TickLabels
    <2>2. TicksAhead(agenda') \in Nat /\ TicksAhead(agenda) = TicksAhead(agenda') + 1
      BY <1>1, <2>1, TicksAheadWork
    <2>3. tick' + TicksAhead(agenda') <= tick + TicksAhead(agenda)
      <3>1. tick \in Nat
        BY <1>1 DEF TypeOK
      <3>2. tick' <= tick + 1 /\ tick' \in Nat
        BY <2>1, <3>1
      <3> QED
        BY <2>2, <3>1, <3>2
    <2> QED
      BY <1>1, <1>2, <2>1, <2>2, <2>3, WindowQuiet
  <1> QED
    BY <1>3, <1>4, <1>5, <1>6 DEF Work

(* A pass begins with a look at the window.                                *)
LEMMA WindowPass ==
  ASSUME FlagInv, Idle, NEW work \in Seq(Labels), Pass(work),
         UNCHANGED <<running, clockRetry, outcome>>,
         \A i \in TickPlaces(work) : i % 2 = 1 /\ i < 2 * MaxTicksPerPass
  PROVE  WindowInv'
  <1>1. outcome' = "None" /\ attempts' > 0 /\ blocked' = FALSE
    BY ControllerAssumption DEF FlagInv, Pass
  <1>2. agenda' = <<"servicePending">> \o work \o FinishPass
    BY Zenon DEF Pass
  <1>3. agenda' # <<>> /\ Head(agenda') = "servicePending"
    <2>1. "servicePending" \in Labels /\ FinishPass \in Seq(Labels)
      BY WorkTypes DEF Labels
    <2>2. /\ <<"servicePending">> \o work \in Seq(Labels)
          /\ Len(<<"servicePending">> \o work) \in Nat \ {0}
          /\ (<<"servicePending">> \o work)[1] = "servicePending"
      BY <2>1, PutAt
    <2>3. agenda' \in Seq(Labels) /\ Len(agenda') \in Nat \ {0}
          /\ agenda'[1] = "servicePending"
      <3> DEFINE first == <<"servicePending">> \o work
      <3> HIDE DEF first
      <3>1. /\ first \o FinishPass \in Seq(Labels)
            /\ Len(first) \in Nat \ {0} /\ Len(FinishPass) \in Nat
            /\ Len(first \o FinishPass) = Len(first) + Len(FinishPass)
            /\ \A i \in 1 .. Len(first) : (first \o FinishPass)[i] = first[i]
            /\ first[1] = "servicePending"
        BY <2>1, <2>2, ConcatAt DEF first
      <3>2. 1 \in 1 .. Len(first)
        BY <3>1
      <3>3. agenda' = first \o FinishPass
        BY <1>2 DEF first
      <3> QED
        BY <3>1, <3>2, <3>3
    <2>4. agenda' # <<>>
      <3> SUFFICES ASSUME agenda' = <<>> PROVE FALSE
        OBVIOUS
      <3>1. Len(agenda') = 0
        BY EmptySeq
      <3> QED
        BY <2>3, <3>1
    <2> QED
      BY <2>3, <2>4, TailAt
  <1>4. CanSend'
    BY <1>1, <1>3 DEF CanSend, Doing
  <1>5. TicksAhead(agenda') <= MaxTicksPerPass
    BY <1>2, TicksAheadPass, ControllerAssumption
  <1> QED
    BY <1>4, <1>5 DEF WindowInv

LEMMA WindowOperations ==
  ASSUME FlagInv, WindowInv, Operation
  PROVE  WindowInv'
  <1> USE DEF transportVars, plannerVars, controlVars
  <1>1. /\ <<>> \in Seq(Labels) /\ StartSession \in Seq(Labels)
        /\ \A label \in {"stop", "stopExternal", "consumeTick", "continue"} :
             <<label>> \in Seq(Labels)
    BY WorkTypes DEF Labels
  <1>2. /\ TickPlaces(<<>>) = {} /\ TickPlaces(StartSession) = {}
        /\ \A label \in {"stop", "stopExternal", "continue"} : TickPlaces(<<label>>) = {}
        /\ TickPlaces(<<"consumeTick">>) = {1}
    <2>1. Len(StartSession) = 4 /\ StartSession[1] = "start"
          /\ StartSession[2] = "dispatcherStart"
          /\ StartSession[3] = "launch" /\ StartSession[4] = "schedule"
      BY DEF StartSession
    <2>2. \A i \in 1 .. 4 : i = 1 \/ i = 2 \/ i = 3 \/ i = 4
      OBVIOUS
    <2>3. TickPlaces(StartSession) = {}
      BY <2>1, <2>2 DEF TickPlaces, TickLabels
    <2>4. \A label \in {"stop", "stopExternal", "continue"} : TickPlaces(<<label>>) = {}
      BY DEF TickPlaces, TickLabels
    <2>5. TickPlaces(<<>>) = {}
      BY DEF TickPlaces
    <2>6. TickPlaces(<<"consumeTick">>) = {1}
      BY DEF TickPlaces, TickLabels
    <2> QED
      BY <2>3, <2>4, <2>5, <2>6
  <1>3. /\ \A i \in TickPlaces(<<"consumeTick">>) : i % 2 = 1 /\ i < 2 * MaxTicksPerPass
        /\ MaxTicksPerPass \in Nat \ {0}
    BY <1>2, ControllerAssumption
  <1>4. ASSUME Idle, NEW work \in {<<>>, StartSession, <<"stop">>, <<"stopExternal">>,
                                   <<"continue">>, <<"consumeTick">>},
               Pass(work), PassUnchanged
        PROVE  WindowInv'
    <2>1. UNCHANGED <<running, clockRetry, outcome>>
      BY <1>4, Zenon DEF PassUnchanged
    <2>2. work \in Seq(Labels)
      BY <1>1, <1>4, Zenon
    <2>3. \A i \in TickPlaces(work) : i % 2 = 1 /\ i < 2 * MaxTicksPerPass
      BY <1>2, <1>3, <1>4, Zenon
    <2> HIDE DEF TickPlaces
    <2> QED
      BY <1>4, <2>1, <2>2, <2>3, WindowPass
  <1>5. ASSUME NEW n \in 0 .. MaxTicksPerPass, Process(n) PROVE WindowInv'
    <2> DEFINE ticks == [i \in 1 .. 2 * n |->
                           IF i % 2 = 1 THEN "consumeTick" ELSE "capCheck"]
               loss == IF mode = "External" THEN <<"clockLoss">> ELSE <<>>
               work == ticks \o <<"dispatchDue", "capCheck", "schedule">> \o loss
    <2>1. Idle /\ Pass(work) /\ UNCHANGED <<running, clockRetry, outcome>>
      BY <1>5, Zenon DEF Process, PassUnchanged
    <2>2. n \in Nat /\ n <= MaxTicksPerPass /\ loss \in {<<"clockLoss">>, <<>>}
      BY <1>3
    <2>3. work \in Seq(Labels) /\ \A i \in TickPlaces(work) : i % 2 = 1 /\ i < 2 * n
      <3> HIDE DEF loss
      <3> QED
        BY <2>2, ProcessWork, TicksAheadProcess
    <2> HIDE DEF work
    <2>4. \A i \in TickPlaces(work) : i \in Nat
      BY DEF TickPlaces
    <2>5. \A i \in TickPlaces(work) : i % 2 = 1 /\ i < 2 * MaxTicksPerPass
      BY <1>3, <2>2, <2>3, <2>4
    <2> QED
      BY <2>1, <2>3, <2>5, WindowPass
  <1>6. CASE CloseStorage
    BY <1>6 DEF CloseStorage, PassUnchanged, WindowInv, CanSend, Doing
  <1>7. CASE \/ Toggle \/ (\E m \in Modes : ApplyMode(m)) \/ OpenStorage \/ ExternalStart
             \/ ExternalContinue \/ ExternalStop
             \/ \E periodKnown \in BOOLEAN : ExternalClock(periodKnown)
    <2>1. /\ Idle /\ PassUnchanged
          /\ \E work \in {<<>>, StartSession, <<"stop">>, <<"stopExternal">>,
                          <<"continue">>, <<"consumeTick">>} : Pass(work)
      BY <1>7, Zenon DEF Toggle, ApplyMode, OpenStorage, ExternalStart, ExternalContinue,
                         ExternalStop, ExternalClock, HearsExternal
    <2> QED
      BY <1>4, <2>1
  <1> QED
    BY <1>5, <1>6, <1>7 DEF Operation

(* The look at the window bounds the ticks of every reachable state.       *)
LEMMA WindowInvariance == Spec => []WindowInv
  <1>1. Init => WindowInv
    <2> SUFFICES ASSUME Init PROVE WindowInv
      OBVIOUS
    <2>1. TicksAhead(agenda) = 0 /\ running = FALSE
      BY TicksAheadEmpty DEF Init
    <2> QED
      BY <2>1, ControllerAssumption DEF WindowInv
  <1>2. FlagInv /\ WindowInv /\ FlagInv' /\ [Next]_vars => WindowInv'
    <2> SUFFICES ASSUME FlagInv, WindowInv, FlagInv', [Next]_vars PROVE WindowInv'
      OBVIOUS
    <2>1. SessionInv /\ TypeOK'
      BY DEF FlagInv, SessionInv
    <2>2. CASE UNCHANGED vars
      BY <2>2 DEF vars, transportVars, passVars, WindowInv, CanSend, Doing
    <2> QED
      BY <2>1, <2>2, WindowWork, WindowOperations, WindowDelivery DEF Next
  <1> QED
    BY <1>1, <1>2, FlagInvariance, PTL DEF Spec

(* A clock the cable refuses keeps the transport running for no longer     *)
(* than the retry window and the ticks of one pass.                        *)
THEOREM WindowCorrect == Spec => []RetryWindowEnforced
  <1>1. FlagInv /\ WindowInv => RetryWindowEnforced
    <2> SUFFICES ASSUME FlagInv, WindowInv, Idle, running, clockRetry # None
                 PROVE  tick < clockRetry + TicksPerSixteenth + MaxTicksPerPass
      BY DEF RetryWindowEnforced
    <2>1. TicksAhead(agenda) = 0 /\ ~CanSend /\ outcome = "None"
      BY TicksAheadEmpty DEF Idle, CanSend, Doing, FlagInv
    <2>2. tick \in Nat
      BY DEF FlagInv, SessionInv, TypeOK
    <2> QED
      BY <2>1, <2>2 DEF WindowInv
  <1> QED
    BY <1>1, FlagInvariance, WindowInvariance, PTL
=============================================================================
