------------------------ MODULE TransportGates_proofs ------------------------
(***************************************************************************)
(* Whose Off the instrument hears, for a transport with a clock of its     *)
(* own.  Three invariants, on those of TransportNotes_proofs:              *)
(*                                                                         *)
(*   GateInv: no tick is left behind with events in it, so the Off of a    *)
(*   launch stays scheduled until it is queued, and every launch that is   *)
(*   owed an Off has one;                                                  *)
(*                                                                         *)
(*   OrderInv: an Off that is scheduled without its On is that of the      *)
(*   launch that sounds or is next, so the Offs reach the host in the      *)
(*   order of the launches, and each finds its own note;                   *)
(*                                                                         *)
(*   PlanInv: the planner is never more than a sixteenth behind its        *)
(*   horizon, so at most the Off of the launch before is left when a       *)
(*   boundary is due, and the queue has room for the next launch.          *)
(*                                                                         *)
(* An external master may close a tick in its middle, or several ticks     *)
(* between two looks of the planner, and then all three are false.  The    *)
(* second needs gates that are not empty: the smallest gate of a step is   *)
(* one hundredth of a sixteenth.  The third needs the sizes named by       *)
(* PlannerHasRoom.                                                         *)
(***************************************************************************)
EXTENDS TransportNotes_proofs

-----------------------------------------------------------------------------
(***************************************************************************)
(* Every launch that is owed an Off has one                                *)
(***************************************************************************)
QueueIsLive == \A e \in queue : e.gen = sessionGen

HasAdvance(rest) == \E i \in 1 .. Len(rest) : rest[i] = "advance"

(* Only what is due, and a send, stand before the next tick.               *)
AdvanceNext(rest) ==
  \A i \in 1 .. Len(rest) : rest[i] = "advance" =>
    \A j \in 1 .. i - 1 : rest[j] \in {"sendDue", "servicePending"}

(* A tick that is about to end has been played to its last phase.          *)
TickCloses ==
  HasAdvance(agenda) /\ haveTick =>
    /\ deliveryPos = At(tick, PhaseMax)
    /\ \/ Doing("sendDue")
       \/ capacityExceeded
       \/ \A e \in queue : e.at > deliveryPos

OffPlanned(events, l) == \E f \in events : f.kind = "NoteOff" /\ SameLaunch(f, l)

(* The two events of a launch leave together, or the On leaves first.      *)
PairIsPlanned ==
  \A e \in queue : e.kind = "NoteOn" /\ e.at < e.gate => OffPlanned(queue, e)

OwedHasOff ==
  running /\ seqRunning =>
    \A l \in Owed(outbox, actual) : Covered(outbox, l) \/ OffPlanned(queue, l)

GateInv ==
  /\ RoomInv
  /\ QueueIsLive
  /\ AdvanceNext(agenda)
  /\ TickCloses
  /\ PairIsPlanned
  /\ OwedHasOff

-----------------------------------------------------------------------------
(***************************************************************************)
(* The Offs reach the host in the order of the launches                    *)
(***************************************************************************)
NoTicks(rest) ==
  \A i \in 1 .. Len(rest) : rest[i] \notin {"consumeTick", "advance", "sendDue", "dispatchDue"}

(* A session is started in a pass that plays nothing else.                 *)
StartsAlone(rest) ==
  \A i \in 1 .. Len(rest) : rest[i] = "dispatcherStart" =>
    \A j \in 1 .. Len(rest) : rest[j] \notin {"consumeTick", "dispatchDue"}

(* Once the outbox was full, nothing more is moved to it.                  *)
HaltsNext ==
  capacityExceeded /\ running =>
    \/ Halting
    \/ Doing("sendDue") /\ ~HasRoom(outbox, NormalCapacity)
    \/ NoTicks(agenda)

GatesOpen == \A e \in queue : e.kind = "NoteOn" => e.at < e.gate

(* A NoteOn expires when its Off is due.                                   *)
LimitIsGate ==
  \A p \in OnsOf(outbox), f \in queue :
    f.kind = "NoteOff" /\ SameLaunch(f, p) => f.at = p.limit

Orphan(f) ==
  /\ f.kind = "NoteOff"
  /\ ~\E e \in queue : e.kind = "NoteOn" /\ SameLaunch(e, f)

(* An Off whose On has left the queue is that of the active launch.        *)
OrphanIsActive ==
  ~capacityExceeded => \A f \in queue : Orphan(f) =>
    /\ Active # None /\ SameLaunch(f, Active)
    /\ Doing("sendDue") \/ f.at > deliveryPos

(* A launch is queued behind the Off of the one that sounds.               *)
SoundingIsCovered ==
  OnsOf(outbox) # {} /\ actual # None => Covered(outbox, actual)

(* Behind a NoteOn its own Off comes first.                                *)
OwnOffFirst ==
  \A p \in OffsOf(outbox), r \in OnsOf(outbox) :
    r.seq < p.seq /\ ~SameLaunch(p, r) =>
      \E q \in OffsOf(outbox) : SameLaunch(q, r) /\ r.seq < q.seq /\ q.seq < p.seq

SoundingOffFirst ==
  actual # None => \A p \in OffsOf(outbox) : ~SameLaunch(p, actual) =>
    \E q \in OffsOf(outbox) : SameLaunch(q, actual) /\ q.seq < p.seq

OrderInv ==
  /\ GateInv
  /\ StartsAlone(agenda)
  /\ HaltsNext
  /\ GatesOpen
  /\ LimitIsGate
  /\ OrphanIsActive
  /\ SoundingIsCovered
  /\ OwnOffFirst
  /\ SoundingOffFirst

-----------------------------------------------------------------------------
(***************************************************************************)
(* The way through a tick                                                  *)
(***************************************************************************)
(* What the steps of a pass put in front of the rest of it: only the       *)
(* record of a tick brings an advance, and only a step that is neither a   *)
(* send nor a transfer puts anything.                                      *)
Ahead == SmallPuts \cup {<<"sendDue", "servicePending">>}

AdvanceWork == {<<"advance">>, <<"sendDue", "servicePending", "advance">>}

LEMMA AgendaAhead ==
  ASSUME Work \/ Delivery
  PROVE  /\ agenda # <<>>
         /\ \/ agenda' = agenda
            \/ agenda' = Tail(agenda)
            \/ /\ Head(agenda) \notin {"sendDue", "servicePending"}
               /\ \E work \in Ahead : agenda' = work \o Tail(agenda)
            \/ /\ Head(agenda) = "consumeTick"
               /\ \E work \in AdvanceWork : agenda' = work \o Tail(agenda)
  <1> DEFINE Small == /\ Head(agenda) \notin {"sendDue", "servicePending"}
                      /\ \E work \in Ahead : agenda' = work \o Tail(agenda)
             Opens == /\ Head(agenda) = "consumeTick"
                      /\ \E work \in AdvanceWork : agenda' = work \o Tail(agenda)
             Goal == /\ agenda # <<>>
                     /\ agenda' = agenda \/ agenda' = Tail(agenda) \/ Small \/ Opens
  <1>1. CASE Delivery
    BY <1>1, Zenon DEF Delivery, ServiceEnded, RetryWindowExceeded, OutboxDrained, SendAccepted,
           SendRetryLater, SendDisconnected, Attempt, CanSend, Doing, Done
  <1>2. /\ <<"servicePending">> \in Ahead /\ <<"stop">> \in Ahead
        /\ <<"stopExternal">> \in Ahead /\ <<"sendDue", "servicePending">> \in Ahead
        /\ <<"advance">> \in AdvanceWork
        /\ <<"sendDue", "servicePending", "advance">> \in AdvanceWork
    BY DEF Ahead, SmallPuts, AdvanceWork
  <1>3. ASSUME NEW step \in StepChoices, NEW swing \in Swings,
               ScheduleStep(step, swing) \/ ScheduleOverflow(step, swing)
        PROVE  Goal
    BY <1>2, <1>3 DEF ScheduleStep, ScheduleOverflow, Doing
  <1>4. ASSUME NEW phase \in Phases, ConsumeTick(phase) PROVE Goal
    <2>1. /\ agenda # <<>> /\ Head(agenda) = "consumeTick"
          /\ \/ agenda' = Tail(agenda)
             \/ agenda' = <<"sendDue", "servicePending", "advance">> \o Tail(agenda)
             \/ agenda' = <<"advance">> \o Tail(agenda)
      BY <1>4, Zenon DEF ConsumeTick, Doing, Done, Then
    <2> QED
      BY <1>2, <2>1
  <1>5. CASE AdvanceTick \/ DispatchDue
    <2>1. /\ agenda # <<>> /\ Head(agenda) \in {"advance", "dispatchDue"}
          /\ agenda' = <<"sendDue", "servicePending">> \o Tail(agenda)
      BY <1>5 DEF AdvanceTick, DispatchDue, Doing, Then
    <2> QED
      BY <1>2, <2>1
  <1>6. CASE \/ StopSession \/ CapacityStop \/ EndPreviousSession \/ DispatcherStart
             \/ ClockLost
    <2>1. /\ agenda # <<>>
          /\ Head(agenda) \in {"stop", "stopExternal", "capCheck", "start",
                               "dispatcherStart", "clockLoss"}
          /\ \/ agenda' = <<"servicePending">> \o Tail(agenda)
             \/ agenda' = <<"stopExternal">> \o Tail(agenda)
             \/ agenda' = Tail(agenda)
      BY <1>6 DEF StopSession, Stop, CapacityStop, EndPreviousSession,
             DispatcherStart, ClockLost, Doing, Done, Then
    <2> QED
      BY <1>2, <2>1
  <1>7. CASE \/ CapacityKept \/ NoOutcome \/ RetryWindowStop \/ Disconnect \/ LaunchSession
             \/ ContinueSession \/ ScheduleDone \/ AdvanceRefused \/ NothingDue \/ SendDueDone
             \/ DropLaunch \/ TransferNoteOff \/ TransferNoteOn \/ ClockPresent
    BY <1>7, Zenon DEF CapacityKept, NoOutcome, RetryWindowStop, Disconnect, LaunchSession,
           ContinueSession, ScheduleDone, AdvanceRefused, NothingDue, SendDueDone, DropLaunch,
           TransferNoteOff, TransferNoteOn, ClockPresent, Transferring, Doing, Done
  <1> QED
    BY <1>1, <1>3, <1>4, <1>5, <1>6, <1>7 DEF Work

(* Behind anything but a send or a transfer no advance waits.              *)
LEMMA NoAdvanceBehind ==
  ASSUME NEW rest \in Seq(Labels), rest # <<>>, AdvanceNext(rest)
  PROVE  /\ AdvanceNext(Tail(rest)) /\ Tail(rest) \in Seq(Labels)
         /\ HasAdvance(Tail(rest)) =>
              HasAdvance(rest) /\ Head(rest) \in {"sendDue", "servicePending"}
         /\ HasAdvance(rest) => Head(rest) \in {"sendDue", "servicePending", "advance"}
  <1>1. /\ Tail(rest) \in Seq(Labels) /\ Len(rest) \in Nat \ {0}
        /\ Len(Tail(rest)) = Len(rest) - 1 /\ Head(rest) = rest[1]
        /\ \A i \in 1 .. Len(Tail(rest)) : Tail(rest)[i] = rest[i + 1]
    BY TailAt
  <1>2. AdvanceNext(Tail(rest))
    <2> SUFFICES ASSUME NEW i \in 1 .. Len(Tail(rest)), Tail(rest)[i] = "advance",
                        NEW j \in 1 .. i - 1
                 PROVE  Tail(rest)[j] \in {"sendDue", "servicePending"}
      BY DEF AdvanceNext
    <2>1. i + 1 \in 1 .. Len(rest) /\ j + 1 \in 1 .. (i + 1) - 1 /\ j \in 1 .. Len(Tail(rest))
      BY <1>1
    <2> QED
      BY <1>1, <2>1 DEF AdvanceNext
  <1>3. ASSUME NEW i \in 1 .. Len(rest), rest[i] = "advance"
        PROVE  i = 1 \/ Head(rest) \in {"sendDue", "servicePending"}
    <2>1. i # 1 => 1 \in 1 .. i - 1
      OBVIOUS
    <2> QED
      BY <1>1, <1>3, <2>1 DEF AdvanceNext
  <1>4. ASSUME NEW i \in 1 .. Len(Tail(rest)), Tail(rest)[i] = "advance"
        PROVE  HasAdvance(rest) /\ Head(rest) \in {"sendDue", "servicePending"}
    <2>1. i + 1 \in 1 .. Len(rest) /\ i + 1 # 1 /\ rest[i + 1] = "advance"
      BY <1>1, <1>4
    <2> QED
      BY <1>3, <2>1 DEF HasAdvance
  <1> QED
    BY <1>1, <1>2, <1>3, <1>4 DEF HasAdvance

LEMMA AdvanceConcat ==
  ASSUME NEW work \in Seq(Labels), NEW rest \in Seq(Labels), AdvanceNext(work),
         ~HasAdvance(rest)
  PROVE  AdvanceNext(work \o rest) /\ (HasAdvance(work \o rest) => HasAdvance(work))
  <1>1. /\ Len(work) \in Nat /\ Len(rest) \in Nat /\ Len(work \o rest) = Len(work) + Len(rest)
        /\ \A i \in 1 .. Len(work) : (work \o rest)[i] = work[i]
        /\ \A i \in 1 .. Len(rest) : (work \o rest)[Len(work) + i] = rest[i]
    BY ConcatAt
  <1>2. ASSUME NEW i \in 1 .. Len(work \o rest), (work \o rest)[i] = "advance"
        PROVE  i \in 1 .. Len(work) /\ work[i] = "advance"
    <2>1. CASE i > Len(work)
      <3>1. i - Len(work) \in 1 .. Len(rest) /\ Len(work) + (i - Len(work)) = i
        BY <1>1, <2>1
      <3> QED
        BY <1>1, <1>2, <3>1 DEF HasAdvance
    <2> QED
      BY <1>1, <1>2, <2>1
  <1>3. \A i \in 1 .. Len(work) : \A j \in 1 .. i - 1 : j \in 1 .. Len(work)
    BY <1>1
  <1> QED
    BY <1>1, <1>2, <1>3 DEF AdvanceNext, HasAdvance

LEMMA AheadWorks ==
  /\ Ahead \cup AdvanceWork \subseteq Seq(Labels)
  /\ \A work \in Ahead \cup AdvanceWork : AdvanceNext(work)
  /\ \A work \in Ahead : ~HasAdvance(work)
  <1>1. Ahead \cup AdvanceWork \subseteq Seq(Labels)
    BY DEF Ahead, AdvanceWork, SmallPuts, Labels
  <1>2. \A work \in Ahead : ~HasAdvance(work)
    BY DEF Ahead, SmallPuts, HasAdvance
  <1>3. \A work \in Ahead : AdvanceNext(work)
    BY <1>2 DEF AdvanceNext, HasAdvance
  <1>4. AdvanceNext(<<"advance">>)
    BY DEF AdvanceNext
  <1>5. AdvanceNext(<<"sendDue", "servicePending", "advance">>)
    BY DEF AdvanceNext
  <1> QED
    BY <1>1, <1>2, <1>3, <1>4, <1>5 DEF AdvanceWork

LEMMA GateAgenda ==
  ASSUME agenda \in Seq(Labels), AdvanceNext(agenda), Work \/ Delivery
  PROVE  /\ AdvanceNext(agenda')
         /\ HasAdvance(agenda') =>
              \/ Head(agenda) = "consumeTick"
              \/ /\ Head(agenda) \in {"sendDue", "servicePending"}
                 /\ HasAdvance(agenda) /\ agenda' \in {agenda, Tail(agenda)}
              \/ Head(agenda) = "advance" /\ agenda' = agenda
  <1>1. /\ agenda # <<>> /\ AdvanceNext(Tail(agenda)) /\ Tail(agenda) \in Seq(Labels)
        /\ HasAdvance(Tail(agenda)) =>
             HasAdvance(agenda) /\ Head(agenda) \in {"sendDue", "servicePending"}
        /\ HasAdvance(agenda) => Head(agenda) \in {"sendDue", "servicePending", "advance"}
    BY AgendaAhead, NoAdvanceBehind
  <1>2. CASE agenda' = agenda
    BY <1>1, <1>2
  <1>3. CASE agenda' = Tail(agenda)
    BY <1>1, <1>3
  <1>4. ASSUME Head(agenda) \notin {"sendDue", "servicePending"},
               NEW work \in Ahead, agenda' = work \o Tail(agenda)
        PROVE  AdvanceNext(agenda') /\ ~HasAdvance(agenda')
    BY <1>1, <1>4, AheadWorks, AdvanceConcat
  <1>5. ASSUME Head(agenda) = "consumeTick", NEW work \in AdvanceWork,
               agenda' = work \o Tail(agenda)
        PROVE  AdvanceNext(agenda')
    BY <1>1, <1>5, AheadWorks, AdvanceConcat
  <1> QED
    BY <1>2, <1>3, <1>4, <1>5, AgendaAhead

(* An operation begins a pass that either plays or ends and starts.        *)
StartLabels ==
  {"servicePending", "stop", "start", "dispatcherStart", "launch", "schedule", "capCheck",
   "lifecycle"}

PlayLabels ==
  {"servicePending", "consumeTick", "dispatchDue", "schedule", "clockLoss", "capCheck",
   "lifecycle"}

LEMMA PassLabels ==
  ASSUME NEW S, {"servicePending", "capCheck", "lifecycle"} \subseteq S,
         NEW work \in Seq(S), Pass(work)
  PROVE  agenda' \in Seq(S)
  <1>1. <<"servicePending">> \in Seq(S) /\ FinishPass \in Seq(S)
    BY DEF FinishPass
  <1>2. <<"servicePending">> \o work \in Seq(S)
    BY <1>1, ConcatProperties
  <1>3. <<"servicePending">> \o work \o FinishPass \in Seq(S)
    BY <1>1, <1>2, ConcatProperties
  <1> QED
    BY <1>3 DEF Pass

LEMMA OperationAgenda ==
  ASSUME SoloInv, Operation
  PROVE  /\ Idle /\ PassUnchanged
         /\ agenda' \in Seq(StartLabels) \cup Seq(PlayLabels)
  <1>1. ~HearsExternal
    BY DEF SoloInv, HearsExternal
  <1>2. /\ PassUnchanged /\ Idle
    BY <1>1, Zenon DEF Operation, Toggle, ApplyMode, OpenStorage, CloseStorage, Process,
           ExternalStart, ExternalContinue, ExternalStop, ExternalClock
  <1>3. /\ StartSession \in Seq(StartLabels) /\ <<"stop">> \in Seq(StartLabels)
        /\ {"servicePending", "capCheck", "lifecycle"} \subseteq StartLabels
    BY DEF StartSession, StartLabels
  <1>4. Toggle => agenda' \in Seq(StartLabels)
    <2> SUFFICES ASSUME Toggle PROVE agenda' \in Seq(StartLabels)
      OBVIOUS
    <2>1. Pass(StartSession) \/ Pass(<<"stop">>)
      BY DEF Toggle
    <2> QED
      BY <1>3, <2>1, PassLabels
  <1>5. OpenStorage \/ (\E m \in Modes : ApplyMode(m)) => agenda' \in Seq(StartLabels)
    <2> SUFFICES ASSUME OpenStorage \/ \E m \in Modes : ApplyMode(m)
                 PROVE  agenda' \in Seq(StartLabels)
      OBVIOUS
    <2>1. Pass(<<"stop">>)
      BY DEF OpenStorage, ApplyMode
    <2> QED
      BY <1>3, <2>1, PassLabels
  <1>6. CloseStorage => agenda' \in Seq(StartLabels)
    BY <1>2 DEF CloseStorage, Idle
  <1>7. ASSUME NEW n \in 0 .. MaxTicksPerPass, Process(n) PROVE agenda' \in Seq(PlayLabels)
    <2> DEFINE ticks == [i \in 1 .. 2 * n |->
                           IF i % 2 = 1 THEN "consumeTick" ELSE "capCheck"]
               due == <<"dispatchDue", "capCheck", "schedule">>
               loss == IF mode = "External" THEN <<"clockLoss">> ELSE <<>>
    <2>1. Pass(ticks \o due \o loss)
      BY <1>7, Zenon DEF Process
    <2>2. n \in Nat
      BY ControllerAssumption
    <2>3. ticks \in Seq(PlayLabels)
      <3>1. \A i \in 1 .. 2 * n : ticks[i] \in PlayLabels
        BY DEF PlayLabels
      <3>2. 2 * n \in Nat
        BY <2>2
      <3>3. ticks \in [1 .. 2 * n -> PlayLabels]
        BY <3>1
      <3> HIDE DEF ticks
      <3> QED
        BY <3>2, <3>3
    <2>4. due \in Seq(PlayLabels) /\ loss \in Seq(PlayLabels)
      <3>1. /\ due \in Seq(PlayLabels) /\ <<"clockLoss">> \in Seq(PlayLabels)
            /\ <<>> \in Seq(PlayLabels)
        BY DEF PlayLabels
      <3>2. loss \in {<<"clockLoss">>, <<>>}
        OBVIOUS
      <3> HIDE DEF due, loss
      <3> QED
        BY <3>1, <3>2
    <2> HIDE DEF ticks, due, loss
    <2>5. ticks \o due \o loss \in Seq(PlayLabels)
      BY <2>3, <2>4, ConcatProperties
    <2>6. {"servicePending", "capCheck", "lifecycle"} \subseteq PlayLabels
      BY DEF PlayLabels
    <2> QED
      BY <2>1, <2>5, <2>6, PassLabels
  <1> QED
    BY <1>1, <1>2, <1>4, <1>5, <1>6, <1>7
       DEF Operation, ExternalStart, ExternalContinue, ExternalStop, ExternalClock

(* The position behind the last phase of a tick is in another tick.        *)
LEMMA LaterTick ==
  ASSUME NEW n \in Nat, NEW at \in Nat, at > At(n, PhaseMax)
  PROVE  TickOf(at) # n
  <1>1. PhaseCount \in Nat \ {0}
    BY TimeAssumption
  <1>2. at = PhaseCount * (at \div PhaseCount) + (at % PhaseCount)
        /\ at % PhaseCount \in 0 .. PhaseCount - 1
    BY <1>1
  <1> SUFFICES ASSUME at \div PhaseCount = n PROVE FALSE
    BY DEF TickOf
  <1>3. n * PhaseCount = PhaseCount * n /\ n * PhaseCount \in Nat
    BY <1>1
  <1> DEFINE base == n * PhaseCount
             low == at % PhaseCount
  <1>4. at = base + low /\ low <= PhaseCount - 1 /\ at > base + (PhaseCount - 1)
    BY <1>2, <1>3 DEF At, PhaseMax
  <1>5. base \in Nat /\ low \in Nat
    BY <1>1, <1>2, <1>3
  <1> HIDE DEF base, low
  <1> QED
    BY <1>1, <1>4, <1>5

LEMMA GateTypes ==
  ASSUME GateInv
  PROVE  /\ RoomInv /\ SoloInv /\ NoteInv /\ FlagInv /\ SessionInv /\ TypeOK
         /\ Accounted(outbox, actual, projected, hostNotes) /\ Planned
         /\ agenda \in Seq(Labels) /\ outbox \in SUBSET Messages /\ queue \in SUBSET Events
         /\ deliveryPos \in Nat /\ tick \in Nat /\ nextSeq \in Nat
         /\ actual \in Launches \cup {None} /\ projected \in Launches \cup {None}
  BY RoomTypes DEF GateInv, NoteInv, TypeOK

(* An event of the queue of the running session.                           *)
LEMMA QueuedTypes ==
  ASSUME GateInv, NEW e \in queue
  PROVE  /\ e \in Events /\ e.kind \in {"NoteOn", "NoteOff"} /\ e.gen = sessionGen
         /\ e.at \in Nat /\ e.gate \in Nat /\ e.launch \in Nat
         /\ LaunchOf(e) \in Known(outbox, actual, projected)
         /\ LaunchOf(e).gen = e.gen /\ LaunchOf(e).launch = e.launch
         /\ LaunchOf(e) \in Launches
  <1>1. e \in Events
    BY GateTypes
  <1>2. e.kind \in {"NoteOn", "NoteOff"} /\ e.at \in Nat /\ e.gate \in Nat /\ e.launch \in Nat
    BY <1>1 DEF Events
  <1>3. LaunchOf(e) \in LaunchesOf(queue)
    BY DEF LaunchesOf
  <1> QED
    BY <1>1, <1>2, <1>3, LaunchFields DEF GateInv, QueueIsLive, Known

(* The end of a tick takes nothing from the queue.                         *)
LEMMA NothingDiscarded ==
  ASSUME GateInv, AdvanceTick
  PROVE  queue' = queue
  <1>1. CASE ~haveTick
    BY <1>1, Zenon DEF AdvanceTick
  <1>2. CASE haveTick
    <2>1. /\ queue' = DiscardAt(queue, tick) /\ ~capacityExceeded
          /\ agenda # <<>> /\ Head(agenda) = "advance"
      BY <1>2, Zenon DEF AdvanceTick, Doing
    <2>2. HasAdvance(agenda) /\ ~Doing("sendDue")
      <3>1. Len(agenda) \in Nat \ {0} /\ Head(agenda) = agenda[1]
        BY <2>1, GateTypes, TailAt
      <3> QED
        BY <2>1, <3>1 DEF HasAdvance, Doing
    <2>3. deliveryPos = At(tick, PhaseMax) /\ \A e \in queue : e.at > deliveryPos
      BY <1>2, <2>1, <2>2 DEF GateInv, TickCloses
    <2>4. \A e \in queue : TickOf(e.at) # tick
      BY <2>3, GateTypes, QueuedTypes, LaterTick
    <2> QED
      BY <2>1, <2>4 DEF DiscardAt
  <1> QED
    BY <1>1, <1>2

LEMMA SendDueFirst ==
  ASSUME NEW rest \in Seq(Labels), rest # <<>>, NEW work \in DuePuts,
         agenda' = work \o Tail(rest)
  PROVE  Doing("sendDue")'
  <1> DEFINE due == <<"sendDue", "servicePending">>
             late == <<"sendDue", "servicePending", "advance">>
  <1>0. /\ due \in Seq(Labels) /\ Len(due) = 2 /\ due[1] = "sendDue"
        /\ late \in Seq(Labels) /\ Len(late) = 3 /\ late[1] = "sendDue"
    BY DEF Labels
  <1>9. work = due \/ work = late
    BY DEF DuePuts
  <1> HIDE DEF due, late
  <1>1. /\ Tail(rest) \in Seq(Labels) /\ work \in Seq(Labels)
        /\ Len(work) \in {2, 3} /\ work[1] = "sendDue"
    BY <1>0, <1>9, TailAt
  <1>2. /\ Len(agenda') = Len(work) + Len(Tail(rest)) /\ agenda'[1] = "sendDue"
        /\ Len(Tail(rest)) \in Nat /\ agenda' \in Seq(Labels)
    BY <1>1, ConcatAt
  <1>3. agenda' # <<>>
    BY <1>1, <1>2
  <1> QED
    BY <1>2, <1>3, HeadTailProperties DEF Doing

(* The head of the pass says which step it is.                             *)
LEMMA StepAtHand ==
  ASSUME Work \/ Delivery
  PROVE  /\ Head(agenda) = "consumeTick" => \E phase \in Phases : ConsumeTick(phase)
         /\ Head(agenda) = "servicePending" <=> Delivery
         /\ Head(agenda) = "sendDue" =>
              SendDueDone \/ DropLaunch \/ TransferNoteOff \/ TransferNoteOn
         /\ Head(agenda) = "advance" => AdvanceTick \/ AdvanceRefused
         /\ Head(agenda) = "capCheck" => CapacityStop \/ CapacityKept
  <1>1. Delivery => Head(agenda) = "servicePending"
    BY DEF Delivery, ServiceEnded, RetryWindowExceeded, OutboxDrained, SendAccepted,
       SendRetryLater, SendDisconnected, Attempt, CanSend, Doing
  <1>2. CASE StopSession \/ NoOutcome \/ RetryWindowStop \/ Disconnect
             \/ EndPreviousSession \/ DispatcherStart \/ LaunchSession \/ ContinueSession
             \/ ScheduleDone \/ DispatchDue \/ NothingDue \/ ClockLost \/ ClockPresent
    BY <1>1, <1>2 DEF StopSession, Stop, NoOutcome, RetryWindowStop, Disconnect,
       EndPreviousSession, DispatcherStart, LaunchSession, ContinueSession, ScheduleDone,
       DispatchDue, NothingDue, ClockLost, ClockPresent, Doing
  <1>3. ASSUME NEW step \in StepChoices, NEW swing \in Swings,
               ScheduleStep(step, swing) \/ ScheduleOverflow(step, swing)
        PROVE  Head(agenda) = "schedule"
    BY <1>3 DEF ScheduleStep, ScheduleOverflow, Doing
  <1>4. ASSUME NEW phase \in Phases, ConsumeTick(phase)
        PROVE  Head(agenda) = "consumeTick"
    BY <1>4 DEF ConsumeTick, Doing
  <1>5. CapacityStop \/ CapacityKept => Head(agenda) = "capCheck"
    BY DEF CapacityStop, CapacityKept, Doing
  <1>6. AdvanceTick \/ AdvanceRefused => Head(agenda) = "advance"
    BY DEF AdvanceTick, AdvanceRefused, Doing
  <1>7. SendDueDone \/ DropLaunch \/ TransferNoteOff \/ TransferNoteOn =>
          Head(agenda) = "sendDue"
    BY DEF SendDueDone, DropLaunch, TransferNoteOff, TransferNoteOn, Transferring, Doing
  <1> QED
    BY <1>1, <1>2, <1>3, <1>4, <1>5, <1>6, <1>7 DEF Work

LEMMA GateTicks ==
  ASSUME GateInv, Work \/ Delivery
  PROVE  AdvanceNext(agenda') /\ TickCloses'
  <1> USE DEF transportVars
  <1>1. /\ agenda \in Seq(Labels) /\ AdvanceNext(agenda) /\ TickCloses /\ mode # "External"
    BY GateTypes DEF GateInv, SoloInv
  <1>2. /\ AdvanceNext(agenda') /\ agenda # <<>>
        /\ HasAdvance(agenda') =>
             \/ Head(agenda) = "consumeTick"
             \/ /\ Head(agenda) \in {"sendDue", "servicePending"}
                /\ HasAdvance(agenda) /\ agenda' \in {agenda, Tail(agenda)}
             \/ Head(agenda) = "advance" /\ agenda' = agenda
    BY <1>1, GateAgenda, AgendaAhead
  <1>3. SUFFICES ASSUME HasAdvance(agenda'), haveTick'
                 PROVE  /\ deliveryPos' = At(tick', PhaseMax)
                        /\ \/ Doing("sendDue")'
                           \/ capacityExceeded'
                           \/ \A e \in queue' : e.at > deliveryPos'
    BY <1>2 DEF TickCloses
  <1>4. CASE Head(agenda) = "consumeTick"
    <2>1. PICK phase \in Phases : ConsumeTick(phase)
      BY <1>2, <1>4, StepAtHand
    <2>2. haveTick' = haveTick /\ tick' = tick
      BY <2>1 DEF ConsumeTick
    <2>3. CASE running /\ haveTick
      <3>1. /\ phase = PhaseMax /\ deliveryPos' = At(tick, phase)
            /\ agenda' = <<"sendDue", "servicePending", "advance">> \o Tail(agenda)
        BY <1>1, <2>1, <2>3 DEF ConsumeTick, Then
      <3>2. Head(agenda') = "sendDue" /\ agenda' # <<>>
        <4>1. Tail(agenda) \in Seq(Labels)
          BY <1>1, <1>2, TailAt
        <4>2. <<"sendDue", "servicePending", "advance">> \in Seq(Labels)
          BY DEF Labels
        <4>3. /\ Len(agenda') = 3 + Len(Tail(agenda)) /\ agenda'[1] = "sendDue"
              /\ Len(Tail(agenda)) \in Nat /\ agenda' \in Seq(Labels)
          BY <3>1, <4>1, <4>2, ConcatAt
        <4>4. agenda' # <<>>
          BY <4>3
        <4> QED
          BY <4>3, <4>4, HeadTailProperties
      <3> QED
        BY <2>2, <3>1, <3>2 DEF Doing
    <2>4. CASE ~(running /\ haveTick)
      <3>1. ~running /\ agenda' = Tail(agenda)
        BY <1>3, <2>1, <2>2, <2>4 DEF ConsumeTick, Done
      <3> QED
        BY <1>1, <1>2, <1>3, <1>4, <3>1, NoAdvanceBehind
    <2> QED
      BY <2>3, <2>4
  <1>5. CASE Head(agenda) = "servicePending" /\ HasAdvance(agenda)
    <2>1. Delivery
      BY <1>2, <1>5, StepAtHand
    <2>2. UNCHANGED <<tick, haveTick, deliveryPos, queue, capacityExceeded>>
      BY <2>1, Zenon DEF Delivery, ServiceEnded, RetryWindowExceeded, OutboxDrained,
         SendAccepted, SendRetryLater, SendDisconnected, Attempt
    <2>3. ~Doing("sendDue")
      BY <1>5 DEF Doing
    <2>4. haveTick
      BY <1>3, <2>2
    <2> QED
      BY <1>1, <1>5, <2>2, <2>3, <2>4 DEF TickCloses
  <1>6. CASE Head(agenda) = "sendDue" /\ HasAdvance(agenda)
    <2>1. SendDueDone \/ DropLaunch \/ TransferNoteOff \/ TransferNoteOn
      BY <1>2, <1>6, StepAtHand
    <2>2. UNCHANGED <<tick, haveTick, deliveryPos>>
      BY <2>1, Zenon DEF SendDueDone, DropLaunch, TransferNoteOff, TransferNoteOn, Transferring
    <2>3. deliveryPos' = At(tick', PhaseMax)
      BY <1>1, <1>3, <1>6, <2>2 DEF TickCloses
    <2>4. CASE SendDueDone
      <3>1. ~EventDue /\ queue' = queue
        BY <2>4 DEF SendDueDone
      <3>2. \A e \in queue : e.at > deliveryPos
        <4> SUFFICES ASSUME NEW e \in queue PROVE e.at > deliveryPos
          OBVIOUS
        <4>1. /\ QueueFront(queue) \in queue /\ ~EventPrecedes(e, QueueFront(queue))
          BY GateTypes, FrontOfQueue
        <4>2. ~(QueueFront(queue).at <= deliveryPos)
          BY <3>1 DEF EventDue
        <4>3. /\ ~(e.at < QueueFront(queue).at) /\ e.at \in Nat
              /\ QueueFront(queue).at \in Nat /\ deliveryPos \in Nat
          BY <4>1, GateTypes, QueuedTypes DEF EventPrecedes
        <4> QED
          BY <4>2, <4>3
      <3> QED
        BY <2>2, <2>3, <3>1, <3>2
    <2>5. CASE DropLaunch \/ TransferNoteOff \/ TransferNoteOn
      <3>1. agenda' = agenda \/ capacityExceeded'
        BY <2>5 DEF DropLaunch, TransferNoteOff, TransferNoteOn
      <3> QED
        BY <1>2, <1>6, <2>3, <3>1 DEF Doing
    <2> QED
      BY <2>1, <2>4, <2>5
  <1>7. CASE Head(agenda) = "advance" /\ agenda' = agenda
    <2>1. AdvanceTick \/ AdvanceRefused
      BY <1>2, <1>7, StepAtHand
    <2>2. /\ Len(agenda) \in Nat \ {0} /\ Len(Tail(agenda)) = Len(agenda) - 1
          /\ Tail(agenda) \in Seq(Labels)
      BY <1>1, <1>2, TailAt
    <2>3. CASE AdvanceRefused
      <3>1. agenda' = Tail(agenda)
        BY <2>3 DEF AdvanceRefused, Done
      <3> QED
        BY <1>7, <2>2, <3>1
    <2>4. CASE AdvanceTick
      <3>1. agenda' = <<"sendDue", "servicePending">> \o Tail(agenda)
        BY <2>4 DEF AdvanceTick, Then
      <3>2. <<"sendDue", "servicePending">> \in Seq(Labels)
        BY DEF Labels
      <3>3. Len(agenda') = 2 + Len(Tail(agenda))
        BY <2>2, <3>1, <3>2, ConcatAt
      <3> QED
        BY <1>7, <2>2, <3>3
    <2> QED
      BY <2>1, <2>3, <2>4
  <1> QED
    BY <1>2, <1>3, <1>4, <1>5, <1>6, <1>7

-----------------------------------------------------------------------------
(***************************************************************************)
(* What a send and a transfer do to the notes                              *)
(***************************************************************************)
LEMMA LiveIs ==
  /\ Live \subseteq outbox /\ OnsOf(Live) \subseteq OnsOf(outbox)
  /\ OffsOf(Live) = OffsOf(outbox)
  /\ \A p \in OnsOf(outbox) \ OnsOf(Live) : p.gen = sessionGen /\ deliveryPos >= p.limit
  BY DEF Live, Overdue, OnsOf, OffsOf

LEMMA SentIs ==
  ASSUME Delivery
  PROVE  /\ agenda # <<>> /\ Head(agenda) = "servicePending"
         /\ agenda' = agenda \/ agenda' = Tail(agenda)
         /\ UNCHANGED <<queue, running, seqRunning, sessionGen, haveTick, tick, deliveryPos,
                        capacityExceeded, nextSeq>>
         /\ \/ UNCHANGED <<outbox, actual, projected>>
            \/ outbox' = Live /\ actual' = actual /\ projected' = ProjectedLive
            \/ SendAccepted
  <1> USE DEF transportVars, plannerVars, sessionVars, outboxVars, noteVars
  <1>1. CASE ServiceEnded \/ RetryWindowExceeded
    BY <1>1 DEF ServiceEnded, RetryWindowExceeded, CanSend, Doing, Done
  <1>2. CASE OutboxDrained
    BY <1>2 DEF OutboxDrained, CanSend, Doing, Done
  <1>3. CASE SendRetryLater \/ SendDisconnected
    BY <1>3 DEF SendRetryLater, SendDisconnected, Attempt, CanSend, Doing, Done
  <1>4. CASE SendAccepted
    BY <1>4 DEF SendAccepted, Attempt, CanSend, Doing
  <1> QED
    BY <1>1, <1>2, <1>3, <1>4 DEF Delivery

LEMMA AcceptedIs ==
  ASSUME TypeOK, SendAccepted
  PROVE  /\ Accepted \in Live /\ Accepted \in outbox /\ Accepted \in Messages
         /\ outbox' = Live \ {Accepted} /\ \A q \in Live : Accepted.seq <= q.seq
         /\ Accepted.kind = "NoteOn" =>
              /\ actual' = LaunchOf(Accepted)
              /\ projected' = ProjectedAfterOnAccepted(ProjectedLive, LaunchOf(Accepted))
              /\ OffsOf(outbox') = OffsOf(outbox)
              /\ OnsOf(outbox') = OnsOf(Live) \ {Accepted} /\ Accepted \in OnsOf(Live)
         /\ Accepted.kind = "NoteOff" =>
              /\ actual' = Forget(actual, LaunchOf(Accepted))
              /\ projected' = Forget(ProjectedLive, LaunchOf(Accepted))
              /\ OffsOf(outbox') = OffsOf(outbox) \ {Accepted}
              /\ OnsOf(outbox') = OnsOf(Live) /\ Accepted \in OffsOf(outbox)
         /\ Accepted.kind \notin {"NoteOn", "NoteOff"} =>
              /\ actual' = actual /\ projected' = ProjectedLive
              /\ OffsOf(outbox') = OffsOf(outbox)
              /\ OnsOf(outbox') = OnsOf(Live)
  <1> DEFINE p == Accepted
  <1>1. /\ Live \in SUBSET Messages /\ Live # {}
        /\ outbox' = Live \ {p} /\ NoteAccepted(p)
    BY LiveIs DEF TypeOK, SendAccepted, Attempt, Accepted
  <1>2. p \in Live /\ \A q \in Live : p.seq <= q.seq
    BY <1>1, FrontOfOutbox DEF Accepted
  <1> HIDE DEF p
  <1>3. OffsOf(Live) = OffsOf(outbox)
    BY LiveIs
  <1>4. p.kind # "NoteOff" => OffsOf(outbox') = OffsOf(outbox)
    BY <1>1, <1>3 DEF OffsOf
  <1>5. p.kind = "NoteOff" => OffsOf(outbox') = OffsOf(outbox) \ {p} /\ p \in OffsOf(outbox)
    BY <1>1, <1>2, <1>3 DEF OffsOf
  <1>6. p.kind # "NoteOn" => OnsOf(outbox') = OnsOf(Live)
    BY <1>1 DEF OnsOf
  <1>7. p.kind = "NoteOn" => OnsOf(outbox') = OnsOf(Live) \ {p} /\ p \in OnsOf(Live)
    BY <1>1, <1>2 DEF OnsOf
  <1>8. p \in outbox /\ p \in Messages
    BY <1>1, <1>2, LiveIs
  <1> QED
    BY <1>1, <1>2, <1>4, <1>5, <1>6, <1>7, <1>8 DEF NoteAccepted, p

LEMMA MovedOff ==
  ASSUME GateInv, TransferNoteOff
  PROVE  LET e == QueueFront(queue)
             off == Pending(nextSeq, "NoteOff", e.note, e.launch, sessionGen, 0, FALSE)
         IN /\ e \in queue /\ e.kind = "NoteOff" /\ e.gen = sessionGen
            /\ e.at <= deliveryPos /\ \A f \in queue : ~EventPrecedes(f, e)
            /\ UNCHANGED <<actual, projected, sessionGen, running, seqRunning, haveTick,
                           deliveryPos>>
            /\ Doing("sendDue")
            /\ \/ /\ UNCHANGED <<outbox, queue>> /\ capacityExceeded'
                  /\ agenda' = Tail(agenda) /\ ~HasRoom(outbox, NormalCapacity)
               \/ /\ HasRoom(outbox, NormalCapacity) /\ queue' = queue \ {e}
                  /\ outbox' = outbox \cup {off}
                  /\ UNCHANGED <<capacityExceeded, agenda>>
            /\ off.kind = "NoteOff" /\ off.seq = nextSeq /\ LaunchOf(off) = LaunchOf(e)
            /\ off.gen = e.gen /\ off.launch = e.launch
  <1> USE DEF transportVars, plannerVars, sessionVars, outboxVars
  <1> DEFINE e == QueueFront(queue)
             off == Pending(nextSeq, "NoteOff", e.note, e.launch, sessionGen, 0, FALSE)
  <1>1. /\ UNCHANGED <<actual, projected, sessionGen, running, seqRunning, haveTick,
                       deliveryPos>>
        /\ Doing("sendDue") /\ e.gen = sessionGen /\ e.kind = "NoteOff" /\ e.at <= deliveryPos
        /\ \/ /\ UNCHANGED <<outbox, queue>> /\ capacityExceeded'
              /\ agenda' = Tail(agenda) /\ ~HasRoom(outbox, NormalCapacity)
           \/ /\ HasRoom(outbox, NormalCapacity) /\ queue' = queue \ {e}
              /\ outbox' = outbox \cup {off}
              /\ capacityExceeded' = capacityExceeded /\ agenda' = agenda
    <2>1. /\ UNCHANGED <<actual, projected, sessionGen, running, seqRunning, haveTick,
                         deliveryPos>>
          /\ Doing("sendDue") /\ e.gen = sessionGen /\ e.kind = "NoteOff" /\ e.at <= deliveryPos
      BY DEF TransferNoteOff, Transferring, Stale, EventDue
    <2> DEFINE fits == HasRoom(outbox, NormalCapacity)
    <2>2. /\ outbox' = Push(outbox, off, NormalCapacity)
          /\ queue' = IF fits THEN queue \ {e} ELSE queue
          /\ capacityExceeded' = (capacityExceeded \/ ~fits)
          /\ IF fits THEN UNCHANGED agenda ELSE Done
      BY Zenon DEF TransferNoteOff
    <2>3. outbox' = IF fits THEN outbox \cup {off} ELSE outbox
      BY <2>2 DEF Push
    <2>4. capacityExceeded \in BOOLEAN
      BY GateTypes DEF TypeOK
    <2> HIDE DEF e, off, fits
    <2>5. \/ /\ outbox' = outbox /\ queue' = queue /\ capacityExceeded'
             /\ agenda' = Tail(agenda) /\ ~fits
          \/ /\ fits /\ queue' = queue \ {e} /\ outbox' = outbox \cup {off}
             /\ capacityExceeded' = capacityExceeded /\ agenda' = agenda
      BY <2>2, <2>3, <2>4 DEF Done
    <2> QED
      BY <2>1, <2>5 DEF fits
  <1>2. e \in queue /\ \A f \in queue : ~EventPrecedes(f, e)
    BY GateTypes, FrontEvent DEF TransferNoteOff
  <1>3. /\ off.kind = "NoteOff" /\ off.seq = nextSeq /\ LaunchOf(off) = LaunchOf(e)
        /\ off.gen = e.gen /\ off.launch = e.launch
    BY <1>1 DEF Pending, LaunchOf, Launch
  <1> HIDE DEF e, off
  <1> QED
    BY <1>1, <1>2, <1>3 DEF e, off

LEMMA MovedOn ==
  ASSUME GateInv, TransferNoteOn
  PROVE  LET e == QueueFront(queue)
             on == Pending(nextSeq + 1, "NoteOn", e.note, e.launch, sessionGen, e.gate, FALSE)
             left == IF ReplacementDue(e) THEN WithoutOff(queue, Active.gen, Active.launch)
                     ELSE queue
             fits == /\ ReplacementDue(e) => HasRoom(outbox, Capacity)
                     /\ HasRoom(Replaced(e), NormalCapacity)
         IN /\ e \in queue /\ e.kind = "NoteOn" /\ e.gen = sessionGen
            /\ e.at <= deliveryPos /\ e.at < e.gate
            /\ UNCHANGED <<actual, sessionGen, running, seqRunning, haveTick, deliveryPos>>
            /\ Doing("sendDue") /\ running
            /\ \/ /\ ~fits /\ outbox' = Replaced(e) /\ queue' = left
                  /\ projected' = projected /\ capacityExceeded' /\ agenda' = Tail(agenda)
               \/ /\ fits /\ outbox' = Replaced(e) \cup {on} /\ queue' = left \ {e}
                  /\ projected' = LaunchOf(e) /\ UNCHANGED <<capacityExceeded, agenda>>
            /\ on.kind = "NoteOn" /\ on.seq = nextSeq + 1 /\ LaunchOf(on) = LaunchOf(e)
            /\ on.gen = e.gen /\ on.launch = e.launch /\ on.limit = e.gate
  <1> USE DEF transportVars, plannerVars, sessionVars, outboxVars
  <1> DEFINE e == QueueFront(queue)
             on == Pending(nextSeq + 1, "NoteOn", e.note, e.launch, sessionGen, e.gate, FALSE)
             left == IF ReplacementDue(e) THEN WithoutOff(queue, Active.gen, Active.launch)
                     ELSE queue
             fits == /\ ReplacementDue(e) => HasRoom(outbox, Capacity)
                     /\ HasRoom(Replaced(e), NormalCapacity)
  <1>1. /\ UNCHANGED <<actual, sessionGen, running, seqRunning, haveTick, deliveryPos>>
        /\ Doing("sendDue") /\ e.gen = sessionGen /\ e.kind = "NoteOn" /\ e.at <= deliveryPos
        /\ ~(e.gate <= deliveryPos)
    BY DEF TransferNoteOn, Transferring, Stale, EventDue, GatePassed
  <1>2. /\ outbox' = IF fits THEN Replaced(e) \cup {on} ELSE Replaced(e)
        /\ queue' = IF fits THEN left \ {e} ELSE left
        /\ projected' = IF fits THEN LaunchOf(e) ELSE projected
        /\ capacityExceeded' = (capacityExceeded \/ ~fits)
        /\ IF fits THEN UNCHANGED agenda ELSE Done
    BY Zenon DEF TransferNoteOn, Replaced, LaunchOf
  <1>3. e \in queue
    BY GateTypes, FrontEvent DEF TransferNoteOn
  <1>4. e.at < e.gate
    BY <1>1, <1>3, GateTypes, QueuedTypes
  <1>5. /\ on.kind = "NoteOn" /\ on.seq = nextSeq + 1 /\ LaunchOf(on) = LaunchOf(e)
        /\ on.gen = e.gen /\ on.launch = e.launch /\ on.limit = e.gate
    BY <1>1 DEF Pending, LaunchOf, Launch
  <1>6. running
    BY <1>1, GateTypes, AtHand DEF Doing
  <1>7. capacityExceeded \in BOOLEAN
    BY GateTypes DEF TypeOK
  <1> HIDE DEF e, on, left, fits
  <1>8. \/ /\ ~fits /\ outbox' = Replaced(e) /\ queue' = left
           /\ projected' = projected /\ capacityExceeded' /\ agenda' = Tail(agenda)
        \/ /\ fits /\ outbox' = Replaced(e) \cup {on} /\ queue' = left \ {e}
           /\ projected' = LaunchOf(e) /\ UNCHANGED <<capacityExceeded, agenda>>
    BY <1>2, <1>7 DEF Done
  <1> QED
    BY <1>1, <1>3, <1>4, <1>5, <1>6, <1>8 DEF e, on, left, fits

-----------------------------------------------------------------------------
(***************************************************************************)
(* Every launch that is owed an Off keeps it                               *)
(***************************************************************************)
GatePlan == QueueIsLive /\ PairIsPlanned /\ OwedHasOff

LEMMA OwedIsKnown ==
  ASSUME GateInv, NEW l \in Owed(outbox, actual)
  PROVE  /\ l \in Known(outbox, actual, projected) /\ l \in Launches
         /\ running /\ seqRunning => Covered(outbox, l) \/ OffPlanned(queue, l)
  <1>1. l \in Known(outbox, actual, projected)
    BY DEF Known
  <1> QED
    BY <1>1, GateTypes, KnownTypes DEF GateInv, OwedHasOff

LEMMA GateDelivery ==
  ASSUME GateInv, Delivery
  PROVE  GatePlan'
  <1>1. /\ UNCHANGED <<queue, running, seqRunning, sessionGen>>
        /\ \/ UNCHANGED <<outbox, actual, projected>>
           \/ outbox' = Live /\ actual' = actual
           \/ SendAccepted
    BY SentIs
  <1>2. QueueIsLive' /\ PairIsPlanned'
    BY <1>1 DEF GateInv, QueueIsLive, PairIsPlanned
  <1>3. SUFFICES ASSUME running, seqRunning, NEW l \in Owed(outbox', actual')
                 PROVE  Covered(outbox', l) \/ OffPlanned(queue, l)
    BY <1>1, <1>2 DEF GatePlan, OwedHasOff
  <1>4. /\ OnsOf(Live) \subseteq OnsOf(outbox) /\ OffsOf(Live) = OffsOf(outbox)
        /\ TypeOK /\ Accounted(outbox, actual, projected, hostNotes)
    BY LiveIs, GateTypes
  <1>5. CASE UNCHANGED <<outbox, actual, projected>>
    BY <1>3, <1>5, OwedIsKnown
  <1>6. CASE outbox' = Live /\ actual' = actual
    <2>1. l \in Owed(outbox, actual)
      BY <1>3, <1>4, <1>6 DEF Owed, LaunchesOf
    <2> QED
      BY <1>3, <1>4, <1>6, <2>1, OwedIsKnown, CoveredBy
  <1>7. CASE SendAccepted /\ Accepted.kind # "NoteOff"
    <2>1. OffsOf(outbox') = OffsOf(outbox) /\ l \in Owed(outbox, actual)
      <3>1. CASE Accepted.kind = "NoteOn"
        BY <1>3, <1>4, <1>7, <3>1, AcceptedIs DEF Owed, LaunchesOf
      <3>2. CASE Accepted.kind # "NoteOn"
        BY <1>3, <1>4, <1>7, <3>2, AcceptedIs DEF Owed, LaunchesOf
      <3> QED
        BY <3>1, <3>2
    <2> QED
      BY <1>3, <2>1, OwedIsKnown, CoveredBy
  <1>8. CASE SendAccepted /\ Accepted.kind = "NoteOff"
    <2> DEFINE p == Accepted
    <2>1. /\ p \in OffsOf(outbox) /\ OffsOf(outbox') = OffsOf(outbox) \ {p}
          /\ OnsOf(outbox') = OnsOf(Live) /\ actual' = Forget(actual, LaunchOf(p))
          /\ p \in Messages /\ \A q \in Live : p.seq <= q.seq
      BY <1>4, <1>8, AcceptedIs
    <2> HIDE DEF p
    <2>2. l \in Owed(outbox, actual)
      BY <1>3, <1>4, <2>1 DEF Owed, LaunchesOf, Forget
    <2> SUFFICES ASSUME ~OffPlanned(queue, l) PROVE Covered(outbox', l)
      OBVIOUS
    <2>3. PICK q \in OffsOf(outbox) : SameLaunch(q, l)
      BY <1>3, <2>2, OwedIsKnown, CoveredBy
    <2>4. q # p
      <3> SUFFICES ASSUME q = p PROVE FALSE
        OBVIOUS
      <3>1. LaunchOf(p) \in Known(outbox, actual, projected)
        BY <2>1 DEF Known, LaunchesOf
      <3>2. /\ LaunchOf(p).gen = p.gen /\ LaunchOf(p).launch = p.launch
        BY <2>1, LaunchFields DEF OffsOf
      <3>3. l = LaunchOf(p)
        BY <1>4, <2>2, <2>3, <3>1, <3>2, OwedIsKnown DEF Accounted, OneLaunch, SameLaunch
      <3>4. PICK r \in OnsOf(Live) : l = LaunchOf(r)
        BY <1>3, <2>1, <3>3 DEF Owed, LaunchesOf, Forget
      <3>5. /\ r \in OnsOf(outbox) /\ r \in Messages /\ r \in Live
            /\ LaunchOf(r).gen = r.gen /\ LaunchOf(r).launch = r.launch
        BY <1>4, <3>4, GateTypes, LaunchFields DEF OnsOf
      <3>6. r.seq < p.seq
        BY <1>4, <2>1, <3>2, <3>3, <3>4, <3>5 DEF Accounted, OnBeforeOff, SameLaunch
      <3>7. p.seq <= r.seq /\ p.seq \in Nat /\ r.seq \in Nat
        BY <2>1, <3>5, SeqTypes
      <3> QED
        BY <3>6, <3>7
    <2> QED
      BY <2>1, <2>3, <2>4, CoveredBy
  <1> QED
    BY <1>1, <1>5, <1>6, <1>7, <1>8

LEMMA GateMovesOff ==
  ASSUME GateInv, TransferNoteOff
  PROVE  GatePlan'
  <1> DEFINE e == QueueFront(queue)
             off == Pending(nextSeq, "NoteOff", e.note, e.launch, sessionGen, 0, FALSE)
  <1>1. /\ e \in queue /\ e.kind = "NoteOff" /\ e.gen = sessionGen
        /\ \A f \in queue : ~EventPrecedes(f, e)
        /\ UNCHANGED <<actual, sessionGen, running, seqRunning>>
        /\ \/ UNCHANGED <<outbox, queue>>
           \/ queue' = queue \ {e} /\ outbox' = outbox \cup {off}
        /\ off.kind = "NoteOff" /\ off.gen = e.gen /\ off.launch = e.launch
    BY MovedOff
  <1> HIDE DEF e, off
  <1>2. CASE UNCHANGED <<outbox, queue>>
    BY <1>1, <1>2 DEF GatePlan, GateInv, QueueIsLive, PairIsPlanned, OwedHasOff
  <1>3. CASE queue' = queue \ {e} /\ outbox' = outbox \cup {off}
    <2>1. QueueIsLive'
      BY <1>1, <1>3 DEF GateInv, QueueIsLive
    <2>2. PairIsPlanned'
      <3> SUFFICES ASSUME NEW g \in queue \ {e}, g.kind = "NoteOn", g.at < g.gate
                   PROVE  OffPlanned(queue \ {e}, g)
        BY <1>3 DEF PairIsPlanned
      <3>1. PICK f \in queue : f.kind = "NoteOff" /\ SameLaunch(f, g)
        BY DEF GateInv, PairIsPlanned, OffPlanned
      <3>2. f # e
        <4> SUFFICES ASSUME f = e PROVE FALSE
          OBVIOUS
        <4>1. e.at = g.gate
          BY <1>1, <3>1, GateTypes DEF Planned, SameLaunch
        <4> QED
          BY <1>1, <4>1 DEF EventPrecedes
      <3> QED
        BY <3>1, <3>2 DEF OffPlanned
    <2>3. OwedHasOff'
      <3> SUFFICES ASSUME running, seqRunning, NEW l \in Owed(outbox', actual)
                   PROVE  Covered(outbox', l) \/ OffPlanned(queue', l)
        BY <1>1 DEF OwedHasOff
      <3>1. OnsOf(outbox') = OnsOf(outbox) /\ OffsOf(outbox') = OffsOf(outbox) \cup {off}
        BY <1>1, <1>3 DEF OnsOf, OffsOf
      <3>2. l \in Owed(outbox, actual)
        BY <3>1 DEF Owed
      <3>3. CASE Covered(outbox, l)
        BY <3>1, <3>3, CoveredBy
      <3>4. ASSUME NEW f \in queue, f.kind = "NoteOff", SameLaunch(f, l)
            PROVE  Covered(outbox', l) \/ OffPlanned(queue', l)
        <4>1. CASE f = e
          <5>1. SameLaunch(off, l)
            BY <1>1, <3>4, <4>1 DEF SameLaunch
          <5> QED
            BY <3>1, <5>1, CoveredBy
        <4>2. CASE f # e
          BY <1>3, <3>4, <4>2 DEF OffPlanned
        <4> QED
          BY <4>1, <4>2
      <3> QED
        BY <3>2, <3>3, <3>4, OwedIsKnown DEF OffPlanned
    <2> QED
      BY <2>1, <2>2, <2>3 DEF GatePlan
  <1> QED
    BY <1>1, <1>2, <1>3

LEMMA GateDrops ==
  ASSUME GateInv, DropLaunch
  PROVE  GatePlan' /\ QueueFront(queue) \in queue /\ QueueFront(queue).kind = "NoteOn"
         /\ UNCHANGED <<outbox, actual, projected, capacityExceeded, agenda, deliveryPos,
                        sessionGen, running, seqRunning, haveTick>>
         /\ queue' = WithoutLaunch(queue, QueueFront(queue).gen, QueueFront(queue).launch)
  <1> USE DEF transportVars, plannerVars, sessionVars, outboxVars
  <1> DEFINE e == QueueFront(queue)
  <1>1. /\ e \in queue /\ TypeOK /\ Accounted(outbox, actual, projected, hostNotes)
    BY GateTypes, FrontEvent DEF DropLaunch
  <1>2. /\ UNCHANGED <<actual, sessionGen, running, seqRunning, outbox, capacityExceeded,
                       agenda, deliveryPos, haveTick>>
        /\ queue' = WithoutLaunch(queue, e.gen, e.launch)
        /\ \/ Stale(e) \/ GatePassed(e)
        /\ projected' = IF Stale(e) THEN projected
                        ELSE Forget(projected, Launch(e.note, e.launch, e.gen))
    BY DEF DropLaunch, Transferring
  <1> HIDE DEF e
  <1>3. e.kind = "NoteOn" /\ ~Stale(e)
    BY <1>1, <1>2 DEF GateInv, QueueIsLive, Stale, GatePassed
  <1>4. LaunchOf(e) \notin Owed(outbox, actual) \cup {projected}
    BY <1>1, <1>3 DEF Accounted, Unsent
  <1>5. projected' = projected
    BY <1>2, <1>3, <1>4 DEF Forget, LaunchOf
  <1>6. queue' = {f \in queue : ~SameLaunch(f, e)}
    BY <1>2 DEF WithoutLaunch, SameLaunch
  <1>7. QueueIsLive'
    BY <1>2, <1>6 DEF GateInv, QueueIsLive
  <1>8. PairIsPlanned'
    <2> SUFFICES ASSUME NEW g \in queue', g.kind = "NoteOn", g.at < g.gate
                 PROVE  OffPlanned(queue', g)
      BY DEF PairIsPlanned
    <2>1. g \in queue /\ ~SameLaunch(g, e)
      BY <1>6
    <2>2. PICK f \in queue : f.kind = "NoteOff" /\ SameLaunch(f, g)
      BY <2>1 DEF GateInv, PairIsPlanned, OffPlanned
    <2> QED
      BY <1>6, <2>1, <2>2 DEF OffPlanned, SameLaunch
  <1>9. OwedHasOff'
    <2> SUFFICES ASSUME running, seqRunning, NEW l \in Owed(outbox, actual)
                 PROVE  Covered(outbox, l) \/ OffPlanned(queue', l)
      BY <1>2 DEF OwedHasOff
    <2>1. ASSUME NEW f \in queue, f.kind = "NoteOff", SameLaunch(f, l)
          PROVE  OffPlanned(queue', l)
      <3>1. /\ LaunchOf(e) \in Known(outbox, actual, projected)
            /\ LaunchOf(e).gen = e.gen /\ LaunchOf(e).launch = e.launch
        BY <1>1, QueuedTypes
      <3>2. ~SameLaunch(LaunchOf(e), l)
        BY <1>1, <1>4, <3>1, OwedIsKnown DEF Accounted, OneLaunch
      <3> QED
        BY <1>6, <2>1, <3>1, <3>2 DEF OffPlanned, SameLaunch
    <2> QED
      BY <2>1, OwedIsKnown DEF OffPlanned
  <1> QED
    BY <1>1, <1>2, <1>3, <1>5, <1>7, <1>8, <1>9 DEF GatePlan, e

(* The Off of the launch that is replaced is withdrawn; no other event of  *)
(* the queue belongs to that launch.                                       *)
LEMMA GateMovesOn ==
  ASSUME GateInv, TransferNoteOn
  PROVE  GatePlan'
  <1> DEFINE e == QueueFront(queue)
             on == Pending(nextSeq + 1, "NoteOn", e.note, e.launch, sessionGen, e.gate, FALSE)
             left == IF ReplacementDue(e) THEN WithoutOff(queue, Active.gen, Active.launch)
                     ELSE queue
             mid == Replaced(e)
  <1>1. /\ e \in queue /\ e.kind = "NoteOn" /\ e.gen = sessionGen
        /\ e.at < e.gate /\ running
        /\ UNCHANGED <<actual, sessionGen, running, seqRunning>>
        /\ \/ outbox' = mid /\ queue' = left
           \/ outbox' = mid \cup {on} /\ queue' = left \ {e}
        /\ on.kind = "NoteOn" /\ LaunchOf(on) = LaunchOf(e)
    BY MovedOn
  <1>2. /\ TypeOK /\ Accounted(outbox, actual, projected, hostNotes)
    BY GateTypes
  <1>3. /\ mid \in {outbox, outbox \cup {ReplacementOff}} /\ ReplacementOff.kind = "NoteOff"
        /\ ReplacementDue(e) => /\ Active \in {projected, actual} \ {None}
                                /\ Active.gen = sessionGen /\ Active.launch # e.launch
        /\ actual # None => Covered(mid, actual)
        /\ \A p \in OnsOf(outbox) : Covered(mid, p)
    BY <1>1, GateTypes, ReplacedIs
  <1>4. left \subseteq queue
        /\ \A f \in queue \ left : ReplacementDue(e) /\ SameLaunch(f, Active)
                                     /\ f.kind = "NoteOff"
    BY DEF WithoutOff, SameLaunch
  <1> HIDE DEF e, on, left, mid
  <1>5. QueueIsLive'
    BY <1>1, <1>4 DEF GateInv, QueueIsLive
  <1>6. ASSUME NEW g \in queue, g.kind = "NoteOn", NEW f \in queue, f.kind = "NoteOff",
               SameLaunch(f, g)
        PROVE  f \in left /\ f # e
    <2>1. SUFFICES ASSUME ReplacementDue(e), SameLaunch(f, Active) PROVE FALSE
      BY <1>1, <1>4, <1>6
    <2>2. /\ LaunchOf(g).gen = g.gen /\ LaunchOf(g).launch = g.launch
          /\ LaunchOf(g) \in Known(outbox, actual, projected)
      BY QueuedTypes
    <2>3. Active \in Known(outbox, actual, projected)
      BY <1>3, <2>1 DEF Known, Owed
    <2>4. LaunchOf(g) = Active
      BY <1>2, <1>6, <2>1, <2>2, <2>3 DEF Accounted, OneLaunch, SameLaunch
    <2> QED
      BY <1>2, <1>3, <1>6, <2>1, <2>4 DEF Accounted, Unsent, Owed
  <1>7. PairIsPlanned'
    <2> SUFFICES ASSUME NEW g \in queue', g.kind = "NoteOn", g.at < g.gate
                 PROVE  OffPlanned(queue', g)
      BY DEF PairIsPlanned
    <2>1. g \in queue
      BY <1>1, <1>4
    <2>2. PICK f \in queue : f.kind = "NoteOff" /\ SameLaunch(f, g)
      BY <2>1 DEF GateInv, PairIsPlanned, OffPlanned
    <2> QED
      BY <1>1, <1>6, <2>1, <2>2 DEF OffPlanned
  <1>8. OwedHasOff'
    <2> SUFFICES ASSUME NEW l \in Owed(outbox', actual)
                 PROVE  Covered(outbox', l) \/ OffPlanned(queue', l)
      BY <1>1 DEF OwedHasOff
    <2>1. /\ OffsOf(mid) \subseteq OffsOf(outbox')
          /\ OnsOf(outbox') \subseteq OnsOf(outbox) \cup {on}
      BY <1>1, <1>3 DEF OnsOf, OffsOf
    <2>2. CASE l = actual /\ actual # None
      BY <1>3, <2>1, <2>2, CoveredBy
    <2>3. ASSUME NEW p \in OnsOf(outbox), l = LaunchOf(p) PROVE Covered(outbox', l)
      <3>1. LaunchOf(p).gen = p.gen /\ LaunchOf(p).launch = p.launch
        BY GateTypes, LaunchFields DEF OnsOf
      <3> QED
        BY <1>3, <2>1, <2>3, <3>1, CoveredBy DEF SameLaunch
    <2>4. CASE l = LaunchOf(e) /\ queue' = left \ {e}
      <3>1. PICK f \in queue : f.kind = "NoteOff" /\ SameLaunch(f, e)
        BY <1>1 DEF GateInv, PairIsPlanned, OffPlanned
      <3>2. f \in queue'
        BY <1>1, <1>6, <2>4, <3>1
      <3>3. SameLaunch(f, l)
        BY <1>1, <2>4, <3>1, QueuedTypes DEF SameLaunch
      <3> QED
        BY <3>1, <3>2, <3>3 DEF OffPlanned
    <2>5. CASE l = LaunchOf(e) /\ outbox' = mid
      <3>1. OnsOf(outbox') = OnsOf(outbox)
        BY <1>3, <2>5 DEF OnsOf
      <3>2. l \in Owed(outbox, actual)
        BY <3>1 DEF Owed
      <3> QED
        BY <1>1, <1>2, <2>5, <3>2 DEF Accounted, Unsent
    <2> QED
      BY <1>1, <2>1, <2>2, <2>3, <2>4, <2>5 DEF Owed, LaunchesOf
  <1> QED
    BY <1>5, <1>7, <1>8 DEF GatePlan

LEMMA GateSchedules ==
  ASSUME GateInv, NEW step \in StepChoices, NEW swing \in Swings, ScheduleStep(step, swing)
  PROVE  GatePlan'
  <1> USE DEF transportVars, sessionVars, noteVars, outboxVars
  <1>1. /\ UNCHANGED <<actual, sessionGen, running, seqRunning, outbox>>
        /\ queue' = queue \/ queue' = queue \cup LaunchAt(step, swing)
    BY DEF ScheduleStep
  <1>2. /\ \A e \in LaunchAt(step, swing) : e.gen = sessionGen
        /\ \A e \in LaunchAt(step, swing) : OffPlanned(LaunchAt(step, swing), e)
    BY DEF LaunchAt, Scheduled, OffPlanned, SameLaunch
  <1> DEFINE batch == LaunchAt(step, swing)
  <1> HIDE DEF batch
  <1>3. QueueIsLive'
    BY <1>1, <1>2 DEF GateInv, QueueIsLive
  <1>4. PairIsPlanned'
    BY <1>1, <1>2 DEF GateInv, PairIsPlanned, OffPlanned
  <1>5. OwedHasOff'
    BY <1>1 DEF GateInv, OwedHasOff, OffPlanned
  <1> QED
    BY <1>3, <1>4, <1>5 DEF GatePlan

LEMMA LaunchIsClean ==
  ASSUME NoteInv, LaunchSession
  PROVE  running /\ ~seqRunning /\ queue = {} /\ OnsOf(outbox) = {}
  <1>1. /\ TypeOK /\ SessionInv /\ Accounted(outbox, actual, projected, hostNotes)
        /\ outbox \in SUBSET Messages /\ running /\ ~seqRunning
    <2>1. SessionInv /\ TypeOK /\ agenda # <<>> /\ agenda \in Seq(Labels)
          /\ InTurn(agenda, Starting) /\ Head(agenda) = "launch"
      BY DEF NoteInv, FlagInv, SessionInv, TypeOK, LaunchSession, Doing
    <2>2. Starting
      BY <2>1, InTurnRest
    <2> QED
      BY <2>1, <2>2 DEF Starting, NoteInv, TypeOK
  <1>2. queue = {}
    BY <1>1 DEF NoteInv, Planned
  <1>3. OnsOf(outbox) = {}
    <2> SUFFICES ASSUME NEW p \in OnsOf(outbox) PROVE FALSE
      OBVIOUS
    <2>1. p.gen = sessionGen /\ LaunchOf(p).gen = p.gen
      BY <1>1, LaunchFields DEF OnsOf, SessionInv, MusicIsLive, Musical
    <2>2. LaunchOf(p) \in Known(outbox, actual, projected)
      BY DEF Known, Owed, LaunchesOf
    <2> QED
      BY <1>1, <2>1, <2>2 DEF Accounted, Current
  <1> QED
    BY <1>1, <1>2, <1>3

(* A start finds no events: the session before it was ended.               *)
LEMMA StartIsClean ==
  ASSUME NoteInv, DispatcherStart
  PROVE  ~running /\ ~seqRunning /\ queue = {}
  <1>1. agenda # <<>> /\ Head(agenda) = "dispatcherStart"
    BY DEF DispatcherStart, Doing
  <1> QED
    BY <1>1, AtHand DEF NoteInv, FlagInv, Planned

LEMMA TickedBox ==
  ASSUME AdvanceTick
  PROVE  /\ OnsOf(outbox') = OnsOf(outbox) /\ OffsOf(outbox') = OffsOf(outbox)
         /\ UNCHANGED <<actual, projected, sessionGen, running, seqRunning>>
  <1> USE DEF plannerVars, sessionVars, noteVars
  <1> DEFINE kept == {p \in outbox : ~OwnClock(p)}
             clock == Pending(nextSeq, "Clock", None, 0, sessionGen, tick', FALSE)
  <1>1. /\ outbox' \in {outbox, kept, kept \cup {clock}}
        /\ UNCHANGED <<actual, projected, sessionGen, running, seqRunning>>
    BY DEF AdvanceTick, Push
  <1>2. clock.kind = "Clock"
    BY DEF Pending
  <1>3. OnsOf(kept) = OnsOf(outbox) /\ OffsOf(kept) = OffsOf(outbox)
    BY DEF OwnClock, OnsOf, OffsOf
  <1> HIDE DEF kept, clock
  <1> QED
    BY <1>1, <1>2, <1>3 DEF OnsOf, OffsOf

(* A session that ends leaves no events behind.                            *)
Ends == StopSession \/ CapacityStop \/ RetryWindowStop \/ EndPreviousSession

LEMMA GateEnds ==
  ASSUME Ends \/ Disconnect
  PROVE  GatePlan' /\ queue' = {} /\ ~running'
  <1>1. queue' = {} /\ ~running'
    BY DEF Ends, StopSession, Stop, CapacityStop, RetryWindowStop, EndPreviousSession, Disconnect,
       EndSession
  <1> QED
    BY <1>1 DEF GatePlan, QueueIsLive, PairIsPlanned, OwedHasOff

(* Steps that leave the notes alone.                                       *)
Quiet ==
  \/ CapacityKept \/ NoOutcome \/ ScheduleDone
  \/ \E step \in StepChoices, swing \in Swings : ScheduleOverflow(step, swing)
  \/ \E phase \in Phases : ConsumeTick(phase)
  \/ AdvanceRefused \/ DispatchDue \/ NothingDue \/ SendDueDone
  \/ ClockLost \/ ClockPresent

LEMMA QuietIs ==
  ASSUME Quiet
  PROVE  UNCHANGED <<queue, outbox, actual, projected, sessionGen, running, seqRunning,
                     capacityExceeded, haveTick, nextSeq>>
  BY Zenon DEF Quiet, transportVars, plannerVars, sessionVars, noteVars, outboxVars, CapacityKept,
     NoOutcome, ScheduleDone, ScheduleOverflow, ConsumeTick, AdvanceRefused, DispatchDue,
     NothingDue, SendDueDone, Transferring, ClockLost, ClockPresent

LEMMA GateSteps ==
  ASSUME GateInv, RoomInv', Work \/ Delivery
  PROVE  GateInv'
  <1>1. AdvanceNext(agenda') /\ TickCloses'
    BY GateTicks
  <1>2. ~ContinueSession
    <2>1. agenda \in Seq(Labels) /\ NoContinue(agenda)
      BY GateTypes DEF SoloInv
    <2> QED
      BY <2>1, NoContinueTail DEF ContinueSession, Doing
  <1>3. ASSUME UNCHANGED <<queue, outbox, actual, sessionGen, running, seqRunning>>
        PROVE  GatePlan'
    BY <1>3 DEF GatePlan, GateInv, QueueIsLive, PairIsPlanned, OwedHasOff
  <1>4. Quiet => GatePlan'
    BY <1>3, QuietIs
  <1>5. AdvanceTick => GatePlan'
    <2> SUFFICES ASSUME AdvanceTick PROVE GatePlan'
      OBVIOUS
    <2>1. queue' = queue
      BY NothingDiscarded
    <2>2. /\ OnsOf(outbox') = OnsOf(outbox) /\ OffsOf(outbox') = OffsOf(outbox)
          /\ UNCHANGED <<actual, sessionGen, running, seqRunning>>
      BY TickedBox
    <2>3. QueueIsLive' /\ PairIsPlanned'
      BY <2>1, <2>2 DEF GateInv, QueueIsLive, PairIsPlanned
    <2>4. Owed(outbox', actual) = Owed(outbox, actual)
      BY <2>2 DEF Owed
    <2>5. \A l : Covered(outbox, l) => Covered(outbox', l)
      BY <2>2, CoveredBy
    <2>6. OwedHasOff'
      BY <2>1, <2>2, <2>4, <2>5 DEF GateInv, OwedHasOff
    <2> QED
      BY <2>3, <2>6 DEF GatePlan
  <1>6. DispatcherStart => GatePlan'
    <2> SUFFICES ASSUME DispatcherStart PROVE GatePlan'
      OBVIOUS
    <2>1. queue' = {} /\ ~seqRunning'
      BY GateTypes, StartIsClean DEF DispatcherStart, plannerVars
    <2> QED
      BY <2>1 DEF GatePlan, QueueIsLive, PairIsPlanned, OwedHasOff
  <1>7. LaunchSession => GatePlan'
    <2> SUFFICES ASSUME LaunchSession PROVE GatePlan'
      OBVIOUS
    <2>1. queue' = {} /\ OnsOf(outbox') = {} /\ actual' = None
      BY GateTypes, LaunchIsClean DEF LaunchSession, outboxVars
    <2>2. Owed(outbox', actual') = {}
      BY <2>1 DEF Owed, LaunchesOf
    <2> QED
      BY <2>1, <2>2 DEF GatePlan, QueueIsLive, PairIsPlanned, OwedHasOff
  <1>8. (\E step \in StepChoices, swing \in Swings : ScheduleStep(step, swing)) => GatePlan'
    BY GateSchedules
  <1>9. DropLaunch \/ TransferNoteOff \/ TransferNoteOn \/ Delivery => GatePlan'
    BY GateDrops, GateMovesOff, GateMovesOn, GateDelivery
  <1>10. Ends \/ Disconnect => GatePlan'
    BY GateEnds
  <1> HIDE DEF GatePlan
  <1>11. GatePlan'
    BY <1>2, <1>4, <1>5, <1>6, <1>7, <1>8, <1>9, <1>10, Zenon DEF Work, Quiet, Ends
  <1> QED
    BY <1>1, <1>11 DEF GateInv, GatePlan

LEMMA NoneOf ==
  ASSUME NEW S, NEW rest \in Seq(S)
  PROVE  \A i \in 1 .. Len(rest) : rest[i] \in S
  OBVIOUS

LEMMA GateOperations ==
  ASSUME GateInv, RoomInv', Operation
  PROVE  GateInv'
  <1> USE DEF transportVars, plannerVars, sessionVars, noteVars
  <1>1. PassUnchanged /\ agenda' \in Seq(StartLabels) \cup Seq(PlayLabels)
    BY GateTypes, OperationAgenda
  <1>2. UNCHANGED <<queue, outbox, actual, sessionGen, running, seqRunning>>
    BY <1>1 DEF PassUnchanged
  <1>3. \A i \in 1 .. Len(agenda') : agenda'[i] # "advance"
    <2>1. "advance" \notin StartLabels \cup PlayLabels
      BY DEF StartLabels, PlayLabels
    <2> QED
      BY <1>1, <2>1, NoneOf
  <1>4. AdvanceNext(agenda') /\ TickCloses'
    BY <1>3 DEF AdvanceNext, TickCloses, HasAdvance
  <1>5. QueueIsLive' /\ PairIsPlanned' /\ OwedHasOff'
    BY <1>2 DEF GateInv, QueueIsLive, PairIsPlanned, OwedHasOff
  <1> QED
    BY <1>4, <1>5 DEF GateInv

(* With a clock of its own, a tick is played to its end before the next    *)
(* one begins, so no scheduled Off is discarded with its tick.             *)
THEOREM GateInvariance ==
  ASSUME "External" \notin Modes
  PROVE  Spec => []GateInv
  <1>1. Init /\ RoomInv => GateInv
    <2> SUFFICES ASSUME Init, RoomInv PROVE GateInv
      OBVIOUS
    <2>1. queue = {} /\ agenda = <<>> /\ ~running
      BY DEF Init
    <2>2. Len(agenda) = 0
      BY <2>1
    <2> QED
      BY <2>1, <2>2 DEF GateInv, QueueIsLive, AdvanceNext, TickCloses, HasAdvance,
         PairIsPlanned, OwedHasOff
  <1>2. GateInv /\ RoomInv' /\ [Next]_vars => GateInv'
    <2> SUFFICES ASSUME GateInv, RoomInv', [Next]_vars PROVE GateInv'
      OBVIOUS
    <2>1. CASE UNCHANGED vars
      BY <2>1 DEF vars, transportVars, plannerVars, outboxVars, sessionVars, noteVars, GateInv,
         QueueIsLive, AdvanceNext, TickCloses, HasAdvance, PairIsPlanned, OwedHasOff, Doing
    <2> QED
      BY <2>1, GateOperations, GateSteps DEF Next
  <1> QED
    BY <1>1, <1>2, RoomInvariance, PTL DEF Spec

(* AcceptedOnHasOff: a NoteOn that was accepted keeps its Off, scheduled   *)
(* or pending, until the Off is sent or the session ends.                  *)
THEOREM AcceptedKeepsItsOff ==
  ASSUME "External" \notin Modes
  PROVE  Spec => []AcceptedOnHasOff
  <1>1. GateInv => AcceptedOnHasOff
    <2> SUFFICES ASSUME GateInv, Idle, running, actual # None
                 PROVE  \/ HasNoteOff(outbox, actual.gen, actual.launch)
                        \/ \E e \in queue : e.kind = "NoteOff" /\ e.launch = actual.launch
      BY DEF AcceptedOnHasOff
    <2>1. seqRunning
      <3>1. ~LaunchNext(agenda)
        BY DEF Idle, LaunchNext
      <3> QED
        BY <3>1, GateTypes DEF FlagInv, Starting, TypeOK
    <2>2. actual \in Owed(outbox, actual)
      BY DEF Owed
    <2> QED
      BY <2>1, <2>2, OwedIsKnown DEF Covered, OffPlanned, SameLaunch
  <1> QED
    BY <1>1, GateInvariance, PTL

-----------------------------------------------------------------------------
(***************************************************************************)
(* A full outbox stops the moving                                          *)
(***************************************************************************)
LEMMA OrderTypes ==
  ASSUME OrderInv
  PROVE  /\ GateInv /\ RoomInv /\ SoloInv /\ NoteInv /\ FlagInv /\ SessionInv /\ TypeOK
         /\ Accounted(outbox, actual, projected, hostNotes) /\ Planned
         /\ agenda \in Seq(Labels) /\ outbox \in SUBSET Messages /\ queue \in SUBSET Events
         /\ deliveryPos \in Nat /\ tick \in Nat /\ nextSeq \in Nat
         /\ actual \in Launches \cup {None} /\ projected \in Launches \cup {None}
  BY GateTypes DEF OrderInv

LEMMA EachLabel ==
  ASSUME NEW work \in Seq(Labels), NEW rest \in Seq(Labels),
         NEW i \in 1 .. Len(work \o rest)
  PROVE  \/ \E j \in 1 .. Len(work) : (work \o rest)[i] = work[j]
         \/ \E j \in 1 .. Len(rest) : (work \o rest)[i] = rest[j]
  <1>1. /\ Len(work) \in Nat /\ Len(rest) \in Nat /\ Len(work \o rest) = Len(work) + Len(rest)
        /\ \A j \in 1 .. Len(work) : (work \o rest)[j] = work[j]
        /\ \A j \in 1 .. Len(rest) : (work \o rest)[Len(work) + j] = rest[j]
    BY ConcatAt
  <1>2. CASE i \in 1 .. Len(work)
    BY <1>1, <1>2
  <1>3. CASE i \notin 1 .. Len(work)
    <2>1. i - Len(work) \in 1 .. Len(rest) /\ Len(work) + (i - Len(work)) = i
      BY <1>1, <1>3
    <2> QED
      BY <1>1, <2>1
  <1> QED
    BY <1>2, <1>3

LEMMA AheadLabels ==
  \A work \in Ahead \cup AdvanceWork : \A i \in 1 .. Len(work) :
    /\ work[i] \in {"servicePending", "stop", "stopExternal", "sendDue", "advance"}
    /\ work \in SmallPuts => work[i] \in {"servicePending", "stop", "stopExternal"}
  <1>1. /\ \A work \in SmallPuts : \A i \in 1 .. Len(work) :
             work[i] \in {"servicePending", "stop", "stopExternal"}
    BY DEF SmallPuts
  <1>2. \A i \in 1 .. Len(<<"advance">>) : <<"advance">>[i] = "advance"
    OBVIOUS
  <1>3. \A i \in 1 .. Len(<<"sendDue", "servicePending">>) :
          <<"sendDue", "servicePending">>[i] \in {"sendDue", "servicePending"}
    OBVIOUS
  <1>4. \A i \in 1 .. Len(<<"sendDue", "servicePending", "advance">>) :
          <<"sendDue", "servicePending", "advance">>[i] \in
            {"sendDue", "servicePending", "advance"}
    OBVIOUS
  <1> QED
    BY <1>1, <1>2, <1>3, <1>4, Zenon DEF Ahead, AdvanceWork

LEMMA OrderAgenda ==
  ASSUME OrderInv, Work \/ Delivery
  PROVE  /\ StartsAlone(agenda')
         /\ NoTicks(agenda) => NoTicks(agenda')
         /\ NoTicks(agenda) =>
              Head(agenda) \notin {"consumeTick", "advance", "sendDue", "dispatchDue"}
  <1> DEFINE t == Tail(agenda)
  <1>1. /\ agenda \in Seq(Labels) /\ agenda # <<>> /\ StartsAlone(agenda)
    BY OrderTypes, AgendaAhead DEF OrderInv
  <1>2. /\ t \in Seq(Labels) /\ Len(agenda) \in Nat \ {0} /\ Len(t) = Len(agenda) - 1
        /\ Head(agenda) = agenda[1] /\ \A i \in 1 .. Len(t) : t[i] = agenda[i + 1]
    BY <1>1, TailAt
  <1>3. \A i \in 1 .. Len(t) : i + 1 \in 1 .. Len(agenda)
    BY <1>2
  <1> HIDE DEF t
  <1>4. StartsAlone(t) /\ (NoTicks(agenda) => NoTicks(t))
    BY <1>1, <1>2, <1>3 DEF StartsAlone, NoTicks
  <1>5. NoTicks(agenda) =>
          Head(agenda) \notin {"consumeTick", "advance", "sendDue", "dispatchDue"}
    <2>1. 1 \in 1 .. Len(agenda)
      BY <1>2
    <2> QED
      BY <1>2, <2>1 DEF NoTicks
  <1>6. ASSUME NEW work \in Ahead \cup AdvanceWork, agenda' = work \o t
        PROVE  StartsAlone(agenda')
    <2>1. work \in Seq(Labels)
      BY AheadWorks
    <2> SUFFICES ASSUME NEW i \in 1 .. Len(agenda'), agenda'[i] = "dispatcherStart",
                        NEW j \in 1 .. Len(agenda')
                 PROVE  agenda'[j] \notin {"consumeTick", "dispatchDue"}
      BY DEF StartsAlone
    <2>5. \A n \in 1 .. Len(work) : work[n] # "dispatcherStart"
      BY AheadLabels
    <2>6. \/ \E n \in 1 .. Len(work) : agenda'[i] = work[n]
          \/ \E n \in 1 .. Len(t) : agenda'[i] = t[n]
      BY <1>2, <1>6, <2>1, EachLabel
    <2>2. PICK m \in 1 .. Len(t) : t[m] = "dispatcherStart"
      BY <2>5, <2>6
    <2>3. \A n \in 1 .. Len(t) : t[n] \notin {"consumeTick", "dispatchDue"}
      BY <1>4, <2>2 DEF StartsAlone
    <2>4. \A n \in 1 .. Len(work) : work[n] \notin {"consumeTick", "dispatchDue"}
      BY AheadLabels
    <2> QED
      BY <1>2, <1>6, <2>1, <2>3, <2>4, EachLabel
  <1>7. ASSUME NoTicks(agenda), NEW work \in SmallPuts, agenda' = work \o t
        PROVE  NoTicks(agenda')
    <2>1. work \in Seq(Labels) /\ work \in Ahead
      BY AheadWorks DEF Ahead
    <2> SUFFICES ASSUME NEW i \in 1 .. Len(agenda')
                 PROVE  agenda'[i] \notin {"consumeTick", "advance", "sendDue", "dispatchDue"}
      BY DEF NoTicks
    <2>2. \A n \in 1 .. Len(t) : t[n] \notin {"consumeTick", "advance", "sendDue", "dispatchDue"}
      BY <1>4, <1>7 DEF NoTicks
    <2>3. \A n \in 1 .. Len(work) :
            work[n] \notin {"consumeTick", "advance", "sendDue", "dispatchDue"}
      BY <1>7, <2>1, AheadLabels
    <2> QED
      BY <1>2, <1>7, <2>1, <2>2, <2>3, EachLabel
  <1>8. StartsAlone(agenda')
    BY <1>1, <1>4, <1>6, AgendaAhead DEF t
  <1>9. NoTicks(agenda) => NoTicks(agenda')
    <2> SUFFICES ASSUME NoTicks(agenda) PROVE NoTicks(agenda')
      OBVIOUS
    <2>1. \/ agenda' = agenda
          \/ agenda' = t
          \/ \E work \in SmallPuts : agenda' = work \o t
      BY <1>5, AgendaSteps DEF t
    <2> QED
      BY <1>4, <1>7, <2>1
  <1> QED
    BY <1>5, <1>8, <1>9

LEMMA FullMovesNothing ==
  ASSUME OrderInv, Doing("sendDue"), HasRoom(outbox, NormalCapacity)
  PROVE  ~capacityExceeded
  <1>1. running /\ ~Halting
    BY OrderTypes, MovingHaltsSoon
  <1>2. ~NoTicks(agenda)
    <2>1. Len(agenda) \in Nat \ {0} /\ Head(agenda) = agenda[1]
      BY OrderTypes, TailAt DEF Doing
    <2>2. 1 \in 1 .. Len(agenda)
      BY <2>1
    <2> QED
      BY <2>1, <2>2 DEF NoTicks, Doing
  <1> QED
    BY <1>1, <1>2 DEF OrderInv, HaltsNext

LEMMA OrderHalts ==
  ASSUME OrderInv, Work \/ Delivery
  PROVE  HaltsNext'
  <1> USE DEF transportVars, sessionVars
  <1>1. /\ agenda \in Seq(Labels) /\ agenda # <<>> /\ HaltsNext /\ SessionInv
        /\ capacityExceeded \in BOOLEAN
    BY OrderTypes, AgendaAhead DEF OrderInv, TypeOK
  <1>2. SUFFICES ASSUME capacityExceeded', running'
                 PROVE  \/ Halting'
                        \/ Doing("sendDue")' /\ ~HasRoom(outbox', NormalCapacity)
                        \/ NoTicks(agenda')
    BY DEF HaltsNext
  <1>3. ASSUME UNCHANGED <<capacityExceeded, running>>,
               Head(agenda) \notin {"servicePending", "advance", "capCheck", "sendDue"}
        PROVE  NoTicks(agenda')
    <2>1. ~Halting
      BY <1>1, <1>3, HaltingAhead DEF Halting
    <2>2. NoTicks(agenda)
      BY <1>1, <1>2, <1>3, <2>1 DEF HaltsNext, Doing
    <2> QED
      BY <2>2, OrderAgenda
  <1>4. CASE Delivery
    <2>1. /\ Head(agenda) = "servicePending" /\ (agenda' = agenda \/ agenda' = Tail(agenda))
          /\ UNCHANGED <<running, haveTick, capacityExceeded>>
      BY <1>4, SentIs
    <2>2. Halting \/ NoTicks(agenda)
      BY <1>1, <1>2, <2>1 DEF HaltsNext, Doing
    <2>3. CASE Halting
      <3>1. HaltsSoon(agenda')
        BY <1>1, <2>1, <2>3, HaltingAhead DEF Halting
      <3> QED
        BY <2>1, <2>3, <3>1 DEF Halting
    <2> QED
      BY <1>4, <2>2, <2>3, OrderAgenda
  <1>5. CASE SendDueDone \/ DropLaunch \/ TransferNoteOff \/ TransferNoteOn
    <2>1. Doing("sendDue") /\ haveTick' = haveTick
      BY <1>5 DEF SendDueDone, DropLaunch, TransferNoteOff, TransferNoteOn, Transferring
    <2>2. haveTick /\ HaltsSoon(Tail(agenda)) /\ running
      BY <2>1, OrderTypes, MovingHaltsSoon
    <2>3. CASE agenda' = Tail(agenda)
      BY <1>2, <2>1, <2>2, <2>3 DEF Halting
    <2>4. CASE agenda' = agenda /\ capacityExceeded' = capacityExceeded
      <3>1. ~HasRoom(outbox, NormalCapacity)
        BY <1>2, <2>1, <2>4, FullMovesNothing
      <3>2. CASE DropLaunch
        BY <2>1, <2>4, <3>1, <3>2, OrderTypes, GateDrops DEF Doing
      <3>3. CASE TransferNoteOff
        <4>1. ~Done
          BY <1>1, <2>4, TailAt DEF Done
        <4> QED
          BY <3>1, <3>3, <4>1, Zenon DEF TransferNoteOff
      <3>4. CASE TransferNoteOn
        <4>1. agenda' # Tail(agenda)
          BY <1>1, <2>4, TailAt
        <4> DEFINE e == QueueFront(queue)
        <4>2. e \in queue /\ e.kind = "NoteOn" /\ e.gen = sessionGen
              /\ HasRoom(Replaced(e), NormalCapacity)
          BY <3>4, <4>1, OrderTypes, MovedOn
        <4> HIDE DEF e
        <4>3. Replaced(e) \in {outbox, outbox \cup {ReplacementOff}}
          BY <2>2, <4>2, OrderTypes, ReplacedIs
        <4>4. IsFiniteSet(outbox)
          BY OrderTypes, RoomTypes
        <4>5. IsFiniteSet(Replaced(e)) /\ outbox \subseteq Replaced(e)
          BY <4>3, <4>4, OneMore
        <4>6. /\ Cardinality(outbox) <= Cardinality(Replaced(e))
              /\ Cardinality(outbox) \in Nat /\ Cardinality(Replaced(e)) \in Nat
          BY <4>4, <4>5, FS_Subset, FS_CardinalityType
        <4> QED
          BY <3>1, <4>2, <4>6, Rooms DEF HasRoom
      <3>5. CASE SendDueDone
        BY <1>1, <2>4, <3>5, TailAt DEF SendDueDone, Done
      <3> QED
        BY <1>5, <3>2, <3>3, <3>4, <3>5
    <2>5. \/ agenda' = Tail(agenda)
          \/ agenda' = agenda /\ capacityExceeded' = capacityExceeded
      <3>1. CASE SendDueDone
        BY <3>1 DEF SendDueDone, Done
      <3>2. CASE DropLaunch
        BY <3>2, OrderTypes, GateDrops
      <3>3. CASE TransferNoteOff
        BY <3>3, OrderTypes, MovedOff
      <3>4. CASE TransferNoteOn
        BY <3>4, OrderTypes, MovedOn
      <3> QED
        BY <1>5, <3>1, <3>2, <3>3, <3>4
    <2> QED
      BY <2>3, <2>4, <2>5
  <1>6. CASE AdvanceRefused
    <2>1. /\ Head(agenda) = "advance" /\ agenda' = Tail(agenda)
          /\ UNCHANGED <<running, haveTick, capacityExceeded>>
      BY <1>6 DEF AdvanceRefused, Doing, Done
    <2>2. Halting
      BY <1>1, <1>2, <1>6, <2>1, OrderAgenda DEF HaltsNext, Doing
    <2> QED
      BY <1>1, <2>1, <2>2, HaltingAhead DEF Halting
  <1>7. CASE AdvanceTick
    <2> DEFINE kept == {p \in outbox : ~OwnClock(p)}
               clock == Pending(nextSeq, "Clock", None, 0, sessionGen, tick', FALSE)
    <2>1. /\ Head(agenda) = "advance" /\ running' = running
          /\ agenda' = <<"sendDue", "servicePending">> \o Tail(agenda)
          /\ ~(haveTick /\ capacityExceeded)
          /\ outbox' = IF mode = "Internal" THEN Push(kept, clock, NormalCapacity) ELSE outbox
          /\ capacityExceeded' =
               (capacityExceeded \/ (mode = "Internal" /\ ~HasRoom(kept, NormalCapacity)))
      BY <1>7 DEF AdvanceTick, Doing, Then
    <2> HIDE DEF kept, clock
    <2>2. ~capacityExceeded
      BY <1>1, <1>2, <1>7, <2>1, OrderAgenda DEF HaltsNext, Halting, Doing
    <2>3. outbox' = kept /\ ~HasRoom(kept, NormalCapacity)
      BY <1>2, <2>1, <2>2 DEF Push
    <2>4. <<"sendDue", "servicePending">> \in DuePuts
      BY DEF DuePuts
    <2>5. Doing("sendDue")'
      BY <1>1, <2>1, <2>4, SendDueFirst
    <2> QED
      BY <2>3, <2>5
  <1>8. CASE CapacityKept \/ CapacityStop
    BY <1>2, <1>8 DEF CapacityKept, CapacityStop, EndSession
  <1>9. CASE DispatcherStart
    <2>1. /\ Head(agenda) = "dispatcherStart" /\ agenda' = <<"servicePending">> \o Tail(agenda)
      BY <1>9 DEF DispatcherStart, Doing, Then
    <2>2. ~running
      BY <1>9, OrderTypes, StartIsClean
    <2>3. /\ Len(agenda) \in Nat \ {0} /\ Head(agenda) = agenda[1]
      BY <1>1, TailAt
    <2>4. 1 \in 1 .. Len(agenda) /\ agenda[1] = "dispatcherStart"
      BY <2>1, <2>3
    <2>5. \A j \in 1 .. Len(agenda) : agenda[j] \notin {"consumeTick", "dispatchDue"}
      BY <2>4 DEF OrderInv, StartsAlone
    <2>6. \A j \in 1 .. Len(agenda) : agenda[j] \notin {"sendDue", "advance"}
      BY <1>1, <2>2 DEF SessionInv, Ordered, OrderedAt
    <2>7. NoTicks(agenda)
      BY <2>5, <2>6 DEF NoTicks
    <2> QED
      BY <1>9, <2>7, OrderAgenda
  <1>10. CASE Ends \/ Disconnect
    BY <1>2, <1>10, GateEnds
  <1>11. CASE LaunchSession \/ NoOutcome \/ ScheduleDone \/ DispatchDue \/ NothingDue
              \/ ClockLost \/ ClockPresent
    <2>1. /\ UNCHANGED <<capacityExceeded, running>>
          /\ Head(agenda) \notin {"servicePending", "advance", "capCheck", "sendDue"}
      BY <1>11 DEF LaunchSession, NoOutcome, ScheduleDone, DispatchDue, NothingDue,
         ClockLost, ClockPresent, Doing
    <2> QED
      BY <1>3, <2>1
  <1>12. ASSUME NEW step \in StepChoices, NEW swing \in Swings,
                ScheduleStep(step, swing) \/ ScheduleOverflow(step, swing)
         PROVE  NoTicks(agenda')
    <2>1. /\ UNCHANGED <<capacityExceeded, running>> /\ Head(agenda) = "schedule"
      BY <1>12 DEF ScheduleStep, ScheduleOverflow, Doing
    <2> QED
      BY <1>3, <2>1
  <1>13. ASSUME NEW phase \in Phases, ConsumeTick(phase) PROVE NoTicks(agenda')
    <2>1. /\ UNCHANGED <<capacityExceeded, running>> /\ Head(agenda) = "consumeTick"
      BY <1>13, Zenon DEF ConsumeTick, Doing
    <2> QED
      BY <1>3, <2>1
  <1>14. ~ContinueSession
    <2>1. NoContinue(agenda)
      BY OrderTypes DEF SoloInv
    <2> QED
      BY <1>1, <2>1, NoContinueTail DEF ContinueSession, Doing
  <1> QED
    BY <1>4, <1>5, <1>6, <1>7, <1>8, <1>9, <1>10, <1>11, <1>12, <1>13, <1>14
       DEF Work, Ends

-----------------------------------------------------------------------------
(***************************************************************************)
(* The order of the Offs, kept by a send and by a transfer                 *)
(***************************************************************************)
OrderPlan ==
  /\ GatesOpen
  /\ LimitIsGate
  /\ OrphanIsActive
  /\ SoundingIsCovered
  /\ OwnOffFirst
  /\ SoundingOffFirst

LEMMA NoteTypes ==
  ASSUME OrderInv, NEW p \in OnsOf(outbox) \cup OffsOf(outbox)
  PROVE  /\ p \in outbox /\ p \in Messages /\ p.seq \in Nat /\ p.seq < nextSeq
         /\ p.kind \in {"NoteOn", "NoteOff"} /\ p.limit \in Nat
         /\ LaunchOf(p) \in Known(outbox, actual, projected)
         /\ LaunchOf(p).gen = p.gen /\ LaunchOf(p).launch = p.launch /\ LaunchOf(p) # None
         /\ p \in OnsOf(outbox) =>
              p.gen = sessionGen /\ LaunchOf(p) \in Owed(outbox, actual)
         /\ \A r \in OnsOf(outbox) \cup OffsOf(outbox) : p.seq = r.seq => p = r
  <1>1. p \in outbox /\ p \in Messages /\ p.kind \in {"NoteOn", "NoteOff"}
    BY OrderTypes DEF OnsOf, OffsOf
  <1>2. p.seq \in Nat /\ p.seq < nextSeq /\ p.limit \in Nat
    BY <1>1, OrderTypes, SeqTypes DEF Accounted, Numbered
  <1>3. LaunchOf(p) \in Known(outbox, actual, projected)
    BY DEF Known, Owed, LaunchesOf
  <1>4. p \in OnsOf(outbox) => p.gen = sessionGen /\ LaunchOf(p) \in Owed(outbox, actual)
    BY OrderTypes DEF SessionInv, MusicIsLive, Musical, OnsOf, Owed, LaunchesOf
  <1>5. \A r \in OnsOf(outbox) \cup OffsOf(outbox) : p.seq = r.seq => p = r
    BY OrderTypes DEF Accounted, Numbered, OnsOf, OffsOf
  <1> QED
    BY <1>1, <1>2, <1>3, <1>4, <1>5, LaunchFields

LEMMA ActiveIs ==
  ASSUME OrderInv
  PROVE  /\ Active = IF projected # None THEN projected ELSE actual
         /\ Active # None => /\ Active \in Known(outbox, actual, projected)
                             /\ Active \in Launches
         /\ actual # None => actual \in Known(outbox, actual, projected)
         /\ \A k, l \in Known(outbox, actual, projected) : SameLaunch(k, l) => k = l
  BY OrderTypes DEF Active, ProjectedOrActual, Known, Owed, Accounted, OneLaunch

(* A scheduled Off is pending nowhere.                                     *)
LEMMA ScheduledOff ==
  ASSUME OrderInv, NEW f \in queue, f.kind = "NoteOff"
  PROVE  /\ \A q \in OffsOf(outbox) : ~SameLaunch(q, f)
         /\ ~Covered(outbox, f)
  <1>1. \A q \in OffsOf(outbox) : ~SameLaunch(q, f)
    BY OrderTypes DEF Accounted, OneOff
  <1> QED
    BY <1>1, CoveredBy

LEMMA OrderDelivery ==
  ASSUME OrderInv, Delivery
  PROVE  OrderPlan'
  <1> DEFINE a == Accepted
  <1>1. /\ UNCHANGED <<queue, deliveryPos, capacityExceeded, sessionGen>>
        /\ ~Doing("sendDue")
        /\ \/ UNCHANGED <<outbox, actual, projected>>
           \/ outbox' = Live /\ actual' = actual /\ projected' = ProjectedLive
           \/ SendAccepted
    <2>1. agenda # <<>> /\ Head(agenda) = "servicePending"
      BY SentIs
    <2> QED
      BY <2>1, SentIs DEF Doing
  <1>2. /\ OnsOf(Live) \subseteq OnsOf(outbox) /\ OffsOf(Live) = OffsOf(outbox)
        /\ TypeOK /\ OrderPlan
        /\ \A p \in OnsOf(outbox) \ OnsOf(Live) : p.gen = sessionGen /\ deliveryPos >= p.limit
    BY LiveIs, OrderTypes DEF OrderPlan, OrderInv
  <1>3. SendAccepted =>
          /\ \A q \in OnsOf(Live) \cup OffsOf(outbox) : a.seq <= q.seq
          /\ a.kind = "NoteOn" =>
               /\ actual' = LaunchOf(a) /\ a \in OnsOf(outbox)
               /\ projected' = ProjectedAfterOnAccepted(ProjectedLive, LaunchOf(a))
               /\ OffsOf(outbox') = OffsOf(outbox) /\ OnsOf(outbox') = OnsOf(Live) \ {a}
          /\ a.kind = "NoteOff" =>
               /\ actual' = Forget(actual, LaunchOf(a)) /\ a \in OffsOf(outbox)
               /\ projected' = Forget(ProjectedLive, LaunchOf(a))
               /\ OffsOf(outbox') = OffsOf(outbox) \ {a} /\ OnsOf(outbox') = OnsOf(Live)
          /\ a.kind \notin {"NoteOn", "NoteOff"} =>
               /\ actual' = actual /\ projected' = ProjectedLive
               /\ OffsOf(outbox') = OffsOf(outbox) /\ OnsOf(outbox') = OnsOf(Live)
    <2>1. \A q \in OnsOf(Live) \cup OffsOf(outbox) : q \in Live
      BY <1>2 DEF OnsOf, OffsOf
    <2> HIDE DEF a
    <2> QED
      BY <1>2, <2>1, AcceptedIs DEF a
  <1> HIDE DEF a
  (* The notes of the outbox, and what sounds. *)
  <1>4. \/ /\ actual' = actual /\ OffsOf(outbox') = OffsOf(outbox)
           /\ projected' \in {projected, ProjectedLive}
        \/ SendAccepted /\ a.kind = "NoteOn"
        \/ SendAccepted /\ a.kind = "NoteOff"
    BY <1>1, <1>2, <1>3
  <1>5. OnsOf(outbox') \subseteq OnsOf(outbox) /\ OffsOf(outbox') \subseteq OffsOf(outbox)
    BY <1>1, <1>2, <1>3
  <1>6. GatesOpen' /\ LimitIsGate'
    BY <1>1, <1>2, <1>5 DEF OrderPlan, GatesOpen, LimitIsGate
  <1>7. OwnOffFirst'
    <2> SUFFICES ASSUME NEW p \in OffsOf(outbox'), NEW r \in OnsOf(outbox'),
                        r.seq < p.seq, ~SameLaunch(p, r)
                 PROVE  \E q \in OffsOf(outbox') :
                          SameLaunch(q, r) /\ r.seq < q.seq /\ q.seq < p.seq
      BY DEF OwnOffFirst
    <2>1. PICK q \in OffsOf(outbox) : SameLaunch(q, r) /\ r.seq < q.seq /\ q.seq < p.seq
      BY <1>2, <1>5 DEF OrderPlan, OwnOffFirst
    <2>2. q \notin OffsOf(outbox') => SendAccepted /\ a.kind = "NoteOff" /\ q = a
      BY <1>3, <1>4, <2>1
    <2>3. q = a /\ SendAccepted /\ a.kind = "NoteOff" => a.seq <= r.seq
      BY <1>3
    <2>4. q.seq \in Nat /\ r.seq \in Nat
      BY <1>5, <2>1, NoteTypes
    <2> QED
      BY <2>1, <2>2, <2>3, <2>4
  <1>8. SoundingOffFirst'
    <2> SUFFICES ASSUME actual' # None, NEW p \in OffsOf(outbox'), ~SameLaunch(p, actual')
                 PROVE  \E q \in OffsOf(outbox') : SameLaunch(q, actual') /\ q.seq < p.seq
      BY DEF SoundingOffFirst
    <2>1. CASE actual' = actual /\ OffsOf(outbox') = OffsOf(outbox)
      BY <1>2, <2>1 DEF OrderPlan, SoundingOffFirst
    <2>2. CASE SendAccepted /\ a.kind = "NoteOn"
      <3>1. /\ a \in OnsOf(outbox) /\ actual' = LaunchOf(a) /\ OffsOf(outbox') = OffsOf(outbox)
            /\ a.seq <= p.seq
        BY <1>3, <2>2
      <3>2. /\ LaunchOf(a).gen = a.gen /\ LaunchOf(a).launch = a.launch
            /\ a.seq \in Nat /\ p.seq \in Nat /\ (a.seq = p.seq => a = p)
            /\ p.kind = "NoteOff"
        BY <1>5, <3>1, NoteTypes DEF OffsOf
      <3>3. a.seq < p.seq /\ ~SameLaunch(p, a)
        BY <2>2, <3>1, <3>2 DEF SameLaunch
      <3>4. PICK q \in OffsOf(outbox) : SameLaunch(q, a) /\ q.seq < p.seq
        BY <1>2, <3>1, <3>3 DEF OrderPlan, OwnOffFirst
      <3> QED
        BY <3>1, <3>2, <3>4 DEF SameLaunch
    <2>3. CASE SendAccepted /\ a.kind = "NoteOff"
      <3>1. /\ a \in OffsOf(outbox) /\ actual' = actual /\ actual # LaunchOf(a)
            /\ actual # None
        BY <1>3, <2>3 DEF Forget
      <3>2. ~SameLaunch(LaunchOf(a), actual)
        BY <3>1, NoteTypes, ActiveIs
      <3>3. ~SameLaunch(a, actual)
        BY <3>1, <3>2, NoteTypes DEF SameLaunch
      <3>4. PICK q \in OffsOf(outbox) : SameLaunch(q, actual) /\ q.seq < a.seq
        BY <1>2, <3>1, <3>3 DEF OrderPlan, SoundingOffFirst
      <3>5. a.seq <= q.seq /\ a.seq \in Nat /\ q.seq \in Nat
        BY <1>3, <2>3, <3>1, <3>4, NoteTypes
      <3> QED
        BY <3>4, <3>5
    <2> QED
      BY <1>4, <2>1, <2>2, <2>3
  <1>9. SoundingIsCovered'
    <2> SUFFICES ASSUME NEW r \in OnsOf(outbox'), actual' # None
                 PROVE  Covered(outbox', actual')
      BY DEF SoundingIsCovered
    <2>1. CASE actual' = actual /\ OffsOf(outbox') = OffsOf(outbox)
      BY <1>2, <1>5, <2>1, CoveredBy DEF OrderPlan, SoundingIsCovered
    <2>2. CASE SendAccepted /\ a.kind = "NoteOn"
      <3>1. /\ a \in OnsOf(outbox) /\ actual' = LaunchOf(a) /\ OffsOf(outbox') = OffsOf(outbox)
            /\ a.seq <= r.seq /\ r # a /\ r \in OnsOf(outbox)
        BY <1>2, <1>3, <2>2
      <3>2. /\ a.seq \in Nat /\ r.seq \in Nat /\ a.seq # r.seq
            /\ LaunchOf(a).gen = a.gen /\ LaunchOf(a).launch = a.launch
        BY <3>1, NoteTypes
      <3>3. a.seq < r.seq
        BY <3>1, <3>2
      <3>4. PICK q \in OffsOf(outbox) : SameLaunch(a, q)
        BY <3>1, <3>3, OrderTypes DEF Accounted, OffBetween, Barrier, OnsOf
      <3>5. SameLaunch(q, actual')
        BY <3>1, <3>2, <3>4 DEF SameLaunch
      <3> QED
        BY <3>1, <3>4, <3>5, CoveredBy
    <2>3. CASE SendAccepted /\ a.kind = "NoteOff"
      <3>1. /\ a \in OffsOf(outbox) /\ actual' = actual /\ actual # LaunchOf(a)
            /\ actual # None /\ OffsOf(outbox') = OffsOf(outbox) \ {a}
        BY <1>3, <2>3 DEF Forget
      <3>2. PICK q \in OffsOf(outbox) : SameLaunch(q, actual)
        BY <1>2, <1>5, <3>1, CoveredBy DEF OrderPlan, SoundingIsCovered
      <3>3. ~SameLaunch(LaunchOf(a), actual)
        BY <3>1, NoteTypes, ActiveIs
      <3>4. q # a
        BY <3>1, <3>2, <3>3, NoteTypes DEF SameLaunch
      <3> QED
        BY <3>1, <3>2, <3>4, CoveredBy
    <2> QED
      BY <1>4, <2>1, <2>2, <2>3
  <1>10. OrphanIsActive'
    <2> SUFFICES ASSUME ~capacityExceeded, NEW f \in queue, Orphan(f)'
                 PROVE  Active' # None /\ SameLaunch(f, Active') /\ f.at > deliveryPos
      BY <1>1 DEF OrphanIsActive
    <2>1. /\ f.kind = "NoteOff" /\ Active # None /\ SameLaunch(f, Active)
          /\ f.at > deliveryPos
      BY <1>1, <1>2 DEF OrderPlan, OrphanIsActive, Orphan
    <2>2. f.at \in Nat /\ f.gen = sessionGen /\ deliveryPos \in Nat
      BY OrderTypes, QueuedTypes
    <2>3. ProjectedLive = projected
      <3> SUFFICES ASSUME projected \in OverdueLaunches PROVE FALSE
        BY DEF ProjectedLive, ForgetAny
      <3>1. PICK p \in outbox \ Live : p.kind = "NoteOn" /\ projected = LaunchOf(p)
        BY DEF OverdueLaunches, LaunchOf
      <3>2. p \in OnsOf(outbox) \ OnsOf(Live)
        BY <3>1 DEF OnsOf
      <3>3. /\ deliveryPos >= p.limit /\ p.limit \in Nat /\ projected # None
            /\ projected.gen = p.gen /\ projected.launch = p.launch
        BY <1>2, <3>1, <3>2, NoteTypes
      <3>4. SameLaunch(f, p)
        BY <2>1, <3>3, ActiveIs DEF SameLaunch
      <3>5. f.at = p.limit
        BY <1>2, <2>1, <3>2, <3>4 DEF OrderPlan, LimitIsGate
      <3> QED
        BY <2>1, <2>2, <3>3, <3>5
    <2>4. Active' = IF projected' # None THEN projected' ELSE actual'
      BY DEF Active, ProjectedOrActual
    <2>5. CASE actual' = actual /\ projected' \in {projected, ProjectedLive}
      BY <2>1, <2>3, <2>4, <2>5, ActiveIs
    <2>6. CASE SendAccepted /\ a.kind = "NoteOn"
      <3>1. /\ a \in OnsOf(outbox) /\ actual' = LaunchOf(a)
            /\ projected' = ProjectedAfterOnAccepted(projected, LaunchOf(a))
        BY <1>3, <2>3, <2>6
      <3>2. projected # None
        <4> SUFFICES ASSUME projected = None PROVE FALSE
          OBVIOUS
        <4>1. Active = actual /\ actual # None
          BY <2>1, ActiveIs
        <4>2. PICK q \in OffsOf(outbox) : SameLaunch(q, actual)
          BY <1>2, <3>1, <4>1, CoveredBy DEF OrderPlan, SoundingIsCovered
        <4> QED
          BY <2>1, <4>1, <4>2, ScheduledOff DEF SameLaunch
      <3>3. Active = projected /\ projected.gen = sessionGen
        BY <2>1, <2>2, <3>2, ActiveIs DEF SameLaunch
      <3>4. projected.launch = LaunchOf(a).launch => LaunchOf(a) = projected
        BY <2>1, <3>1, <3>3, NoteTypes, ActiveIs DEF SameLaunch
      <3>5. projected' = projected
        BY <3>1, <3>2, <3>4 DEF ProjectedAfterOnAccepted
      <3> QED
        BY <2>1, <2>4, <3>2, <3>3, <3>5
    <2>7. CASE SendAccepted /\ a.kind = "NoteOff"
      <3>1. /\ a \in OffsOf(outbox) /\ actual' = Forget(actual, LaunchOf(a))
            /\ projected' = Forget(projected, LaunchOf(a))
        BY <1>3, <2>3, <2>7
      <3>2. Active # LaunchOf(a)
        BY <2>1, <3>1, NoteTypes, ScheduledOff DEF SameLaunch
      <3>3. Active' = Active
        BY <2>1, <2>4, <3>1, <3>2, ActiveIs DEF Forget
      <3> QED
        BY <2>1, <3>3
    <2> QED
      BY <1>4, <2>5, <2>6, <2>7
  <1> QED
    BY <1>6, <1>7, <1>8, <1>9, <1>10 DEF OrderPlan


(* An Off of the active launch is added behind all others: every other     *)
(* launch that sounds or is pending has its Off already.                   *)
LEMMA OffAdded ==
  ASSUME OrderInv, actual' = actual, OffsOf(outbox) \subseteq OffsOf(outbox'),
         \A r \in OnsOf(outbox') : r \in OnsOf(outbox) \/ r.seq = nextSeq + 1,
         \A p \in OffsOf(outbox') : p \in OffsOf(outbox) \/
           (p.seq = nextSeq /\ Active # None /\ SameLaunch(p, Active))
  PROVE  OwnOffFirst' /\ SoundingOffFirst'
  <1>1. OwnOffFirst /\ SoundingOffFirst /\ nextSeq \in Nat
    BY OrderTypes DEF OrderInv
  <1>2. OwnOffFirst'
    <2> SUFFICES ASSUME NEW p \in OffsOf(outbox'), NEW r \in OnsOf(outbox'),
                        r.seq < p.seq, ~SameLaunch(p, r)
                 PROVE  \E q \in OffsOf(outbox) :
                          SameLaunch(q, r) /\ r.seq < q.seq /\ q.seq < p.seq
      BY DEF OwnOffFirst
    <2>1. p \in OffsOf(outbox) => p.seq \in Nat /\ p.seq < nextSeq
      BY NoteTypes
    <2>2. r \in OnsOf(outbox)
      BY <1>1, <2>1
    <2>3. CASE p \in OffsOf(outbox)
      BY <1>1, <2>2, <2>3 DEF OwnOffFirst
    <2>4. CASE p.seq = nextSeq /\ Active # None /\ SameLaunch(p, Active)
      <3>1. LaunchOf(r) # None /\ LaunchOf(r).gen = r.gen /\ LaunchOf(r).launch = r.launch
        BY <2>2, NoteTypes
      <3>2. projected # LaunchOf(r)
        BY <2>4, <3>1, ActiveIs DEF SameLaunch
      <3>3. PICK q \in OffsOf(outbox) : SameLaunch(q, r)
        BY <2>2, <3>2, OrderTypes, CoveredBy DEF Accounted, PendingIsOwed
      <3>4. r.seq < q.seq
        BY <2>2, <3>3, OrderTypes DEF Accounted, OnBeforeOff, SameLaunch
      <3>5. q.seq < nextSeq
        BY <3>3, NoteTypes
      <3> QED
        BY <2>4, <3>3, <3>4, <3>5
    <2> QED
      BY <2>3, <2>4
  <1>3. SoundingOffFirst'
    <2> SUFFICES ASSUME actual # None, NEW p \in OffsOf(outbox'), ~SameLaunch(p, actual)
                 PROVE  \E q \in OffsOf(outbox) : SameLaunch(q, actual) /\ q.seq < p.seq
      BY DEF SoundingOffFirst
    <2>1. CASE p \in OffsOf(outbox)
      BY <1>1, <2>1 DEF SoundingOffFirst
    <2>2. CASE p.seq = nextSeq /\ Active # None /\ SameLaunch(p, Active)
      <3>1. projected \notin {None, actual}
        BY <2>2, ActiveIs
      <3>2. PICK q \in OffsOf(outbox) : SameLaunch(q, actual)
        BY <3>1, OrderTypes, CoveredBy DEF Accounted, ActualIsOwed
      <3> QED
        BY <2>2, <3>2, NoteTypes
    <2> QED
      BY <2>1, <2>2
  <1> QED
    BY <1>2, <1>3

LEMMA OrderMovesOff ==
  ASSUME OrderInv, TransferNoteOff
  PROVE  OrderPlan'
  <1> DEFINE e == QueueFront(queue)
             off == Pending(nextSeq, "NoteOff", e.note, e.launch, sessionGen, 0, FALSE)
  <1>1. /\ e \in queue /\ e.kind = "NoteOff" /\ e.gen = sessionGen
        /\ e.at <= deliveryPos /\ \A f \in queue : ~EventPrecedes(f, e)
        /\ UNCHANGED <<actual, projected, deliveryPos>>
        /\ Doing("sendDue")
        /\ \/ UNCHANGED <<outbox, queue>> /\ capacityExceeded'
           \/ /\ HasRoom(outbox, NormalCapacity) /\ queue' = queue \ {e}
              /\ outbox' = outbox \cup {off}
              /\ UNCHANGED <<capacityExceeded, agenda>>
        /\ off.kind = "NoteOff" /\ off.seq = nextSeq
        /\ off.gen = e.gen /\ off.launch = e.launch
    BY OrderTypes, MovedOff
  <1>2. OrderPlan
    BY DEF OrderInv, OrderPlan
  <1> HIDE DEF e, off
  <1>3. CASE UNCHANGED <<outbox, queue>> /\ capacityExceeded'
    BY <1>1, <1>2, <1>3 DEF OrderPlan, GatesOpen, LimitIsGate, OrphanIsActive,
       SoundingIsCovered, OwnOffFirst, SoundingOffFirst
  <1>4. CASE /\ HasRoom(outbox, NormalCapacity) /\ queue' = queue \ {e}
             /\ outbox' = outbox \cup {off} /\ UNCHANGED <<capacityExceeded, agenda>>
    <2>1. OnsOf(outbox') = OnsOf(outbox) /\ OffsOf(outbox') = OffsOf(outbox) \cup {off}
      BY <1>1, <1>4 DEF OnsOf, OffsOf
    <2>2. GatesOpen' /\ LimitIsGate'
      BY <1>2, <1>4, <2>1 DEF OrderPlan, GatesOpen, LimitIsGate
    <2>3. Orphan(e)
      <3> SUFFICES ASSUME NEW g \in queue, g.kind = "NoteOn", SameLaunch(g, e) PROVE FALSE
        BY <1>1 DEF Orphan
      <3>1. e.at = g.gate /\ g.at < g.gate
        BY <1>1, <1>2, OrderTypes DEF Planned, OrderPlan, GatesOpen
      <3> QED
        BY <1>1, <3>1 DEF EventPrecedes
    <2>4. ~capacityExceeded
      BY <1>1, <1>4, FullMovesNothing
    <2>5. Active # None /\ SameLaunch(e, Active)
      BY <1>1, <1>2, <2>3, <2>4 DEF OrderPlan, OrphanIsActive
    <2>6. OwnOffFirst' /\ SoundingOffFirst'
      <3>1. SameLaunch(off, Active)
        BY <1>1, <2>5 DEF SameLaunch
      <3> QED
        BY <1>1, <2>1, <2>5, <3>1, OffAdded
    <2>7. SoundingIsCovered'
      BY <1>1, <1>2, <2>1, CoveredBy DEF OrderPlan, SoundingIsCovered
    <2>8. OrphanIsActive'
      <3> SUFFICES ASSUME NEW f \in queue', Orphan(f)'
                   PROVE  Active' # None /\ SameLaunch(f, Active') /\ Doing("sendDue")'
        BY DEF OrphanIsActive
      <3>1. Orphan(f) /\ f \in queue
        BY <1>1, <1>4 DEF Orphan
      <3>2. Active' = Active /\ Doing("sendDue")'
        BY <1>1, <1>4 DEF Active, Doing
      <3> QED
        BY <1>2, <2>4, <3>1, <3>2 DEF OrderPlan, OrphanIsActive
    <2> QED
      BY <2>2, <2>6, <2>7, <2>8 DEF OrderPlan
  <1> QED
    BY <1>1, <1>3, <1>4

LEMMA OrderMovesOn ==
  ASSUME OrderInv, TransferNoteOn
  PROVE  OrderPlan'
  <1> DEFINE e == QueueFront(queue)
             on == Pending(nextSeq + 1, "NoteOn", e.note, e.launch, sessionGen, e.gate, FALSE)
             left == IF ReplacementDue(e) THEN WithoutOff(queue, Active.gen, Active.launch)
                     ELSE queue
             mid == Replaced(e)
  <1>1. /\ e \in queue /\ e.kind = "NoteOn" /\ e.gen = sessionGen
        /\ e.at < e.gate /\ running
        /\ UNCHANGED <<actual, deliveryPos>> /\ Doing("sendDue")
        /\ \/ /\ outbox' = mid /\ queue' = left /\ capacityExceeded'
           \/ /\ outbox' = mid \cup {on} /\ queue' = left \ {e}
              /\ projected' = LaunchOf(e) /\ UNCHANGED <<capacityExceeded, agenda>>
        /\ on.kind = "NoteOn" /\ on.seq = nextSeq + 1 /\ LaunchOf(on) = LaunchOf(e)
        /\ on.gen = e.gen /\ on.launch = e.launch /\ on.limit = e.gate
    BY OrderTypes, MovedOn
  <1>2. OrderPlan
    BY DEF OrderInv, OrderPlan
  <1>3. /\ mid \in {outbox, outbox \cup {ReplacementOff}} /\ ReplacementOff.kind = "NoteOff"
        /\ mid # outbox => ReplacementDue(e)
        /\ ReplacementOff.seq = nextSeq
        /\ ReplacementDue(e) => Active # None /\ SameLaunch(ReplacementOff, Active)
        /\ actual # None => Covered(mid, actual)
    BY <1>1, OrderTypes, ReplacedIs
  <1>4. /\ left \subseteq queue
        /\ \A f \in queue \ left : f.kind = "NoteOff"
        /\ ReplacementDue(e) => \A f \in left : ~(f.kind = "NoteOff" /\ SameLaunch(f, Active))
    BY DEF WithoutOff, SameLaunch
  <1> HIDE DEF e, on, left, mid
  <1>5. /\ OnsOf(mid) = OnsOf(outbox) /\ OffsOf(outbox) \subseteq OffsOf(mid)
        /\ OffsOf(outbox') = OffsOf(mid) /\ OnsOf(outbox') \subseteq OnsOf(outbox) \cup {on}
        /\ outbox' = mid => OnsOf(outbox') = OnsOf(outbox)
        /\ \A p \in OffsOf(mid) : p \in OffsOf(outbox) \/ (ReplacementDue(e) /\ p = ReplacementOff)
    BY <1>1, <1>3 DEF OnsOf, OffsOf
  <1>6. GatesOpen'
    BY <1>1, <1>2, <1>4 DEF OrderPlan, GatesOpen
  <1>7. LimitIsGate'
    <2> SUFFICES ASSUME NEW p \in OnsOf(outbox'), NEW f \in queue', f.kind = "NoteOff",
                        SameLaunch(f, p)
                 PROVE  f.at = p.limit
      BY DEF LimitIsGate
    <2>1. f \in queue
      BY <1>1, <1>4
    <2>2. CASE p \in OnsOf(outbox)
      BY <1>2, <2>1, <2>2 DEF OrderPlan, LimitIsGate
    <2>3. CASE p = on
      BY <1>1, <2>1, <2>3, OrderTypes DEF Planned, SameLaunch
    <2> QED
      BY <1>5, <2>2, <2>3
  <1>8. OwnOffFirst' /\ SoundingOffFirst'
    BY <1>1, <1>3, <1>5, OffAdded
  <1>9. SoundingIsCovered'
    BY <1>1, <1>3, <1>5, CoveredBy DEF SoundingIsCovered
  <1>10. OrphanIsActive'
    <2> SUFFICES ASSUME ~capacityExceeded', NEW f \in queue', Orphan(f)'
                 PROVE  Active' # None /\ SameLaunch(f, Active') /\ Doing("sendDue")'
      BY DEF OrphanIsActive
    <2>1. /\ queue' = left \ {e} /\ projected' = LaunchOf(e) /\ ~capacityExceeded
          /\ Doing("sendDue")' /\ f \in left /\ f \in queue /\ f.kind = "NoteOff"
      BY <1>1, <1>4 DEF Doing, Orphan
    <2>2. LaunchOf(e).gen = e.gen /\ LaunchOf(e).launch = e.launch /\ LaunchOf(e) # None
      BY <1>1, OrderTypes, QueuedTypes, ControllerAssumption
    <2>3. Active' = LaunchOf(e)
      BY <2>1, <2>2 DEF Active, ProjectedOrActual
    <2>4. SameLaunch(f, e)
      <3> SUFFICES ASSUME ~SameLaunch(f, e) PROVE FALSE
        OBVIOUS
      <3>1. Orphan(f)
        <4> SUFFICES ASSUME NEW g \in queue, g.kind = "NoteOn", SameLaunch(g, f) PROVE FALSE
          BY <2>1 DEF Orphan
        <4>1. g # e
          BY DEF SameLaunch
        <4>2. g \in left
          BY <1>4
        <4> QED
          BY <2>1, <4>1, <4>2 DEF Orphan
      <3>2. Active # None /\ SameLaunch(f, Active)
        BY <1>2, <2>1, <3>1 DEF OrderPlan, OrphanIsActive
      <3>3. f.gen = sessionGen /\ ~Covered(outbox, f)
        BY <2>1, OrderTypes, QueuedTypes, ScheduledOff
      <3>4. ReplacementDue(e)
        BY <1>1, <3>2, <3>3 DEF ReplacementDue, Covered, SameLaunch
      <3>5. ~(f.kind = "NoteOff" /\ SameLaunch(f, Active))
        BY <1>4, <2>1, <3>4
      <3> QED
        BY <2>1, <3>2, <3>5
    <2> QED
      BY <2>1, <2>2, <2>3, <2>4 DEF SameLaunch
  <1> QED
    BY <1>6, <1>7, <1>8, <1>9, <1>10 DEF OrderPlan


-----------------------------------------------------------------------------
(***************************************************************************)
(* The order of the Offs, kept by the other steps                          *)
(***************************************************************************)
LEMMA NotesSame ==
  ASSUME OrderInv, actual' = actual, queue' \subseteq queue,
         OnsOf(outbox') = OnsOf(outbox), OffsOf(outbox') = OffsOf(outbox)
  PROVE  /\ GatesOpen' /\ LimitIsGate' /\ SoundingIsCovered' /\ OwnOffFirst'
         /\ SoundingOffFirst'
  <1>1. GatesOpen' /\ LimitIsGate'
    BY DEF OrderInv, GatesOpen, LimitIsGate
  <1>2. SoundingIsCovered'
    BY CoveredBy DEF OrderInv, SoundingIsCovered
  <1>3. OwnOffFirst' /\ SoundingOffFirst'
    BY DEF OrderInv, OwnOffFirst, SoundingOffFirst
  <1> QED
    BY <1>1, <1>2, <1>3

LEMMA OrphansSame ==
  ASSUME OrderInv, UNCHANGED <<actual, projected, queue>>,
         ~capacityExceeded' => ~capacityExceeded,
         \/ Doing("sendDue")'
         \/ ~Doing("sendDue") /\ deliveryPos' = deliveryPos
         \/ deliveryPos' = deliveryPos /\ \A f \in queue : f.at > deliveryPos
  PROVE  OrphanIsActive'
  <1> SUFFICES ASSUME ~capacityExceeded', NEW f \in queue, Orphan(f)'
               PROVE  /\ Active' # None /\ SameLaunch(f, Active')
                      /\ Doing("sendDue")' \/ f.at > deliveryPos'
    BY DEF OrphanIsActive
  <1>1. Orphan(f) /\ Active' = Active
    BY DEF Orphan, Active
  <1>2. Active # None /\ SameLaunch(f, Active) /\ (Doing("sendDue") \/ f.at > deliveryPos)
    BY <1>1 DEF OrderInv, OrphanIsActive
  <1> QED
    BY <1>1, <1>2

LEMMA OrderQuiet ==
  ASSUME OrderInv, Quiet
  PROVE  OrderPlan'
  <1>1. UNCHANGED <<queue, outbox, actual, projected, capacityExceeded>>
    BY QuietIs
  <1>2. /\ GatesOpen' /\ LimitIsGate' /\ SoundingIsCovered' /\ OwnOffFirst'
        /\ SoundingOffFirst'
    BY <1>1, NotesSame
  <1> SUFFICES OrphanIsActive'
    BY <1>2 DEF OrderPlan
  <1>3. /\ agenda \in Seq(Labels) /\ <<"sendDue", "servicePending">> \in DuePuts
        /\ <<"sendDue", "servicePending", "advance">> \in DuePuts
    BY OrderTypes DEF DuePuts
  <1>4. ASSUME NEW phase \in Phases, ConsumeTick(phase) PROVE OrphanIsActive'
    <2>1. agenda # <<>> /\ ~Doing("sendDue")
      BY <1>4 DEF ConsumeTick, Doing
    <2>2. CASE running /\ haveTick
      <3>1. agenda' = <<"sendDue", "servicePending", "advance">> \o Tail(agenda)
        BY <1>4, <2>2 DEF ConsumeTick, Then
      <3>2. Doing("sendDue")'
        BY <1>3, <2>1, <3>1, SendDueFirst
      <3> QED
        BY <1>1, <3>2, OrphansSame
    <2>3. CASE ~(running /\ haveTick)
      <3>1. deliveryPos' = deliveryPos
        BY <1>4, <2>3 DEF ConsumeTick
      <3> QED
        BY <1>1, <2>1, <3>1, OrphansSame
    <2> QED
      BY <2>2, <2>3
  <1>5. CASE DispatchDue
    <2>1. agenda' = <<"sendDue", "servicePending">> \o Tail(agenda) /\ agenda # <<>>
      BY <1>5 DEF DispatchDue, Doing, Then
    <2>2. Doing("sendDue")'
      BY <1>3, <2>1, SendDueFirst
    <2> QED
      BY <1>1, <2>2, OrphansSame
  <1>6. CASE SendDueDone
    <2>1. ~EventDue /\ deliveryPos' = deliveryPos
      BY <1>6 DEF SendDueDone, Transferring
    <2>2. \A e \in queue : e.at > deliveryPos
      <3> SUFFICES ASSUME NEW e \in queue PROVE e.at > deliveryPos
        OBVIOUS
      <3>1. /\ QueueFront(queue) \in queue /\ ~EventPrecedes(e, QueueFront(queue))
        BY OrderTypes, FrontOfQueue
      <3>2. ~(QueueFront(queue).at <= deliveryPos)
        BY <2>1 DEF EventDue
      <3>3. /\ ~(e.at < QueueFront(queue).at) /\ e.at \in Nat
            /\ QueueFront(queue).at \in Nat /\ deliveryPos \in Nat
        BY <3>1, OrderTypes, QueuedTypes DEF EventPrecedes
      <3> QED
        BY <3>2, <3>3
    <2> QED
      BY <1>1, <2>1, <2>2, OrphansSame
  <1>7. ASSUME deliveryPos' = deliveryPos, ~Doing("sendDue") PROVE OrphanIsActive'
    BY <1>1, <1>7, OrphansSame
  <1>8. CASE CapacityKept \/ NoOutcome \/ ScheduleDone \/ AdvanceRefused \/ NothingDue
             \/ ClockLost \/ ClockPresent
    BY <1>7, <1>8 DEF CapacityKept, NoOutcome, ScheduleDone, AdvanceRefused, NothingDue,
       ClockLost, ClockPresent, Doing
  <1>9. ASSUME NEW step \in StepChoices, NEW swing \in Swings, ScheduleOverflow(step, swing)
        PROVE  OrphanIsActive'
    BY <1>7, <1>9 DEF ScheduleOverflow, Doing
  <1> QED
    BY <1>4, <1>5, <1>6, <1>8, <1>9 DEF Quiet

LEMMA OrderTick ==
  ASSUME OrderInv, AdvanceTick
  PROVE  OrderPlan'
  <1>1. /\ queue' = queue /\ UNCHANGED <<actual, projected>>
        /\ OnsOf(outbox') = OnsOf(outbox) /\ OffsOf(outbox') = OffsOf(outbox)
    BY OrderTypes, NothingDiscarded, TickedBox
  <1>2. /\ agenda # <<>> /\ agenda' = <<"sendDue", "servicePending">> \o Tail(agenda)
        /\ ~capacityExceeded' => ~capacityExceeded
    BY DEF AdvanceTick, Doing, Then
  <1>3. <<"sendDue", "servicePending">> \in DuePuts
    BY DEF DuePuts
  <1>4. Doing("sendDue")'
    BY <1>2, <1>3, OrderTypes, SendDueFirst
  <1> QED
    BY <1>1, <1>2, <1>4, NotesSame, OrphansSame DEF OrderPlan

LEMMA OrderDrops ==
  ASSUME OrderInv, DropLaunch
  PROVE  OrderPlan'
  <1> DEFINE e == QueueFront(queue)
  <1>1. /\ UNCHANGED <<outbox, actual, projected, capacityExceeded, agenda, deliveryPos>>
        /\ queue' = {f \in queue : ~SameLaunch(f, e)}
    BY OrderTypes, GateDrops DEF WithoutLaunch, SameLaunch
  <1> HIDE DEF e
  <1>2. OrphanIsActive'
    <2> SUFFICES ASSUME ~capacityExceeded, NEW f \in queue', Orphan(f)'
                 PROVE  /\ Active # None /\ SameLaunch(f, Active)
                        /\ Doing("sendDue") \/ f.at > deliveryPos
      BY <1>1 DEF OrphanIsActive, Active, Doing
    <2>1. f \in queue /\ ~SameLaunch(f, e)
      BY <1>1
    <2>2. Orphan(f)
      <3> SUFFICES ASSUME NEW g \in queue, g.kind = "NoteOn", SameLaunch(g, f) PROVE FALSE
        BY DEF Orphan
      <3>1. g \in queue'
        BY <1>1, <2>1 DEF SameLaunch
      <3> QED
        BY <3>1 DEF Orphan
    <2> QED
      BY <2>1, <2>2 DEF OrderInv, OrphanIsActive
  <1> QED
    BY <1>1, <1>2, NotesSame DEF OrderPlan

(* The gate of a launch is not empty, and its number is new.               *)
LEMMA OrderSchedules ==
  ASSUME OrderInv, NEW step \in StepChoices, NEW swing \in Swings, ScheduleStep(step, swing),
         GateDurationUnits(step.gate) > 0
  PROVE  OrderPlan'
  <1> USE DEF transportVars, sessionVars, noteVars, outboxVars
  <1>1. /\ UNCHANGED <<outbox, actual, projected, capacityExceeded, agenda, deliveryPos>>
        /\ queue' = queue \/ queue' = queue \cup LaunchAt(step, swing)
        /\ Doing("schedule")
    BY DEF ScheduleStep
  <1> DEFINE position == At(nextBoundary,
                            SwingPhase(nextBoundary \div TicksPerSixteenth, swing))
             gate == GateDeadline(position, step.gate)
             on == Scheduled(position, "NoteOn", step.note, nextBoundary + 1, sessionGen, gate)
             off == Scheduled(gate, "NoteOff", step.note, nextBoundary + 1, sessionGen, gate)
             batch == LaunchAt(step, swing)
  <1>2. batch = {on, off} /\ batch \subseteq Events
    BY OrderTypes, LaunchAtType DEF LaunchAt
  <1>3. /\ on.kind = "NoteOn" /\ off.kind = "NoteOff" /\ SameLaunch(on, off)
        /\ on.at = position /\ on.gate = gate
        /\ \A e \in {on, off} : e.gen = sessionGen /\ e.launch = nextBoundary + 1
    BY DEF Scheduled, SameLaunch
  <1>4. position \in Nat
    BY <1>2, <1>3 DEF Events
  <1>5. position < gate
    <2>1. gate = position + GateDurationUnits(step.gate)
      BY DEF GateDeadline
    <2>2. gate \in Nat
      BY <1>2, <1>3 DEF Events
    <2>3. GateDurationUnits(step.gate) \in Int
      <3>1. step.gate \in Nat /\ FullGate \in Nat
        BY ControllerAssumption, TimeAssumption DEF Step, FullGate
      <3>2. FullGate * step.gate \in Nat
        BY <3>1
      <3> QED
        BY <3>2 DEF GateDurationUnits
    <2> HIDE DEF position, gate
    <2> QED
      BY <1>4, <2>1, <2>2, <2>3
  <1> HIDE DEF position, gate, on, off, batch
  <1>6. GatesOpen'
    BY <1>1, <1>2, <1>3, <1>5 DEF OrderInv, GatesOpen, batch
  <1>7. LimitIsGate'
    <2> SUFFICES ASSUME NEW p \in OnsOf(outbox), NEW f \in queue', f.kind = "NoteOff",
                        SameLaunch(f, p)
                 PROVE  f.at = p.limit
      BY <1>1 DEF LimitIsGate
    <2>1. CASE f \in queue
      BY <2>1 DEF OrderInv, LimitIsGate
    <2>2. CASE f \in {on, off}
      <3>1. LaunchOf(p).gen = sessionGen /\ LaunchOf(p).launch = nextBoundary + 1
        BY <1>3, <2>2, NoteTypes DEF SameLaunch
      <3>2. LaunchOf(p).launch <= nextBoundary /\ nextBoundary \in Nat
        BY <3>1, OrderTypes, NoteTypes DEF Accounted, Current, TypeOK
      <3> QED
        BY <3>1, <3>2
    <2> QED
      BY <1>1, <1>2, <2>1, <2>2 DEF batch
  <1>8. OrphanIsActive'
    <2> SUFFICES ASSUME ~capacityExceeded, NEW f \in queue', Orphan(f)'
                 PROVE  /\ Active # None /\ SameLaunch(f, Active)
                        /\ Doing("sendDue") \/ f.at > deliveryPos
      BY <1>1 DEF OrphanIsActive, Active, Doing
    <2>1. f \in queue
      <3> SUFFICES ASSUME f \notin queue PROVE FALSE
        OBVIOUS
      <3>1. f = off /\ on \in queue'
        BY <1>1, <1>2, <1>3 DEF Orphan, batch
      <3> QED
        BY <1>3, <3>1 DEF Orphan
    <2>2. Orphan(f)
      BY <1>1 DEF Orphan
    <2> QED
      BY <2>1, <2>2 DEF OrderInv, OrphanIsActive
  <1>9. SoundingIsCovered' /\ OwnOffFirst' /\ SoundingOffFirst'
    BY <1>1 DEF OrderInv, SoundingIsCovered, OwnOffFirst, SoundingOffFirst
  <1> QED
    BY <1>6, <1>7, <1>8, <1>9 DEF OrderPlan

LEMMA OrderStarts ==
  ASSUME OrderInv, DispatcherStart \/ LaunchSession
  PROVE  OrderPlan'
  <1>1. CASE DispatcherStart
    <2> DEFINE kept == {p \in outbox : ~(p.terminal /\ p.kind = "Stop")}
               entry == Pending(nextSeq, "Start", None, 0, sessionGen + 1, 0, FALSE)
    <2>1. /\ outbox' \in {kept, kept \cup {entry}} /\ actual' = actual /\ queue' = queue
          /\ entry.kind = "Start"
      BY <1>1 DEF DispatcherStart, Push, noteVars, Pending
    <2>2. OnsOf(kept) = OnsOf(outbox) /\ OffsOf(kept) = OffsOf(outbox)
      BY DEF OnsOf, OffsOf
    <2> HIDE DEF kept, entry
    <2>3. OnsOf(outbox') = OnsOf(outbox) /\ OffsOf(outbox') = OffsOf(outbox)
      BY <2>1, <2>2 DEF OnsOf, OffsOf
    <2>4. queue' = {}
      BY <1>1, <2>1, OrderTypes, StartIsClean
    <2> QED
      BY <2>1, <2>3, <2>4, NotesSame DEF OrderPlan, OrphanIsActive
  <1>2. CASE LaunchSession
    <2>1. queue' = {} /\ OnsOf(outbox') = {} /\ actual' = None
      BY <1>2, OrderTypes, LaunchIsClean DEF LaunchSession, outboxVars
    <2> QED
      BY <2>1 DEF OrderPlan, GatesOpen, LimitIsGate, OrphanIsActive, SoundingIsCovered,
         OwnOffFirst, SoundingOffFirst
  <1> QED
    BY <1>1, <1>2

LEMMA OrderEnds ==
  ASSUME OrderInv, Ends \/ Disconnect
  PROVE  OrderPlan'
  <1>1. CASE Ends
    <2>1. /\ outbox' = EndedBox /\ queue' = {} /\ actual' = actual
      BY <1>1 DEF Ends, StopSession, Stop, CapacityStop, RetryWindowStop, EndPreviousSession,
         EndSession, EndedBox, noteVars
    <2>2. /\ OnsOf(outbox') = {} /\ OffsOf(outbox) \subseteq OffsOf(outbox')
          /\ \A q \in OffsOf(outbox') : q \in OffsOf(outbox) \/ LaunchOf(q) = actual
      BY <2>1, OrderTypes, EndedBoxIs
    <2>3. SoundingOffFirst'
      <3> SUFFICES ASSUME actual # None, NEW p \in OffsOf(outbox'), ~SameLaunch(p, actual)
                   PROVE  \E q \in OffsOf(outbox') : SameLaunch(q, actual) /\ q.seq < p.seq
        BY <2>1 DEF SoundingOffFirst
      <3>1. LaunchOf(p) # actual
        BY DEF SameLaunch, LaunchOf, Launch
      <3> QED
        BY <2>2, <3>1 DEF OrderInv, SoundingOffFirst
    <2> QED
      BY <2>1, <2>2, <2>3 DEF OrderPlan, GatesOpen, LimitIsGate, OrphanIsActive,
         SoundingIsCovered, OwnOffFirst
  <1>2. CASE Disconnect
    <2>1. outbox' = {} /\ queue' = {}
      BY <1>2 DEF Disconnect
    <2>2. OnsOf(outbox') = {} /\ OffsOf(outbox') = {}
      BY <2>1 DEF OnsOf, OffsOf
    <2> QED
      BY <2>1, <2>2 DEF OrderPlan, GatesOpen, LimitIsGate, OrphanIsActive, SoundingIsCovered,
         OwnOffFirst, SoundingOffFirst
  <1> QED
    BY <1>1, <1>2

LEMMA OrderOperations ==
  ASSUME OrderInv, GateInv', Operation
  PROVE  OrderInv'
  <1> USE DEF transportVars, plannerVars, sessionVars, noteVars
  <1>1. /\ Idle /\ PassUnchanged
        /\ agenda' \in Seq(StartLabels) \/ agenda' \in Seq(PlayLabels)
    BY OrderTypes, OperationAgenda
  <1>2. UNCHANGED <<queue, outbox, actual, projected, deliveryPos, capacityExceeded, running>>
    BY <1>1 DEF PassUnchanged
  <1>3. StartsAlone(agenda')
    <2>1. /\ StartLabels \cap {"consumeTick", "dispatchDue"} = {}
          /\ "dispatcherStart" \notin PlayLabels
      BY DEF StartLabels, PlayLabels
    <2>2. CASE agenda' \in Seq(StartLabels)
      <3>1. \A i \in 1 .. Len(agenda') : agenda'[i] \in StartLabels
        BY <2>2, NoneOf
      <3> QED
        BY <2>1, <3>1 DEF StartsAlone
    <2>3. CASE agenda' \in Seq(PlayLabels)
      <3>1. \A i \in 1 .. Len(agenda') : agenda'[i] \in PlayLabels
        BY <2>3, NoneOf
      <3> QED
        BY <2>1, <3>1 DEF StartsAlone
    <2> QED
      BY <1>1, <2>2, <2>3
  <1>4. HaltsNext'
    <2>1. ~HasCheck(agenda)
      BY <1>1 DEF Idle, HasCheck
    <2> QED
      BY <1>2, <2>1, OrderTypes DEF FlagInv, HaltsNext
  <1>5. OrderPlan'
    <2>1. ~Doing("sendDue")
      BY <1>1 DEF Idle, Doing
    <2> QED
      BY <1>2, <2>1, NotesSame, OrphansSame DEF OrderPlan
  <1> QED
    BY <1>3, <1>4, <1>5 DEF OrderInv, OrderPlan

GatesAreOpen == \A step \in StepChoices : GateDurationUnits(step.gate) > 0

LEMMA OrderSteps ==
  ASSUME OrderInv, GateInv', GatesAreOpen, Work \/ Delivery
  PROVE  OrderInv'
  <1>1. StartsAlone(agenda') /\ HaltsNext'
    BY OrderAgenda, OrderHalts
  <1>2. ~ContinueSession
    <2>1. agenda \in Seq(Labels) /\ NoContinue(agenda)
      BY OrderTypes DEF SoloInv
    <2> QED
      BY <2>1, NoContinueTail DEF ContinueSession, Doing
  <1>3. Quiet \/ AdvanceTick \/ DropLaunch \/ TransferNoteOff \/ TransferNoteOn \/ Delivery
          => OrderPlan'
    BY OrderQuiet, OrderTick, OrderDrops, OrderMovesOff, OrderMovesOn, OrderDelivery
  <1>4. DispatcherStart \/ LaunchSession \/ Ends \/ Disconnect => OrderPlan'
    BY OrderStarts, OrderEnds
  <1>5. (\E step \in StepChoices, swing \in Swings : ScheduleStep(step, swing)) => OrderPlan'
    BY OrderSchedules DEF GatesAreOpen
  <1> HIDE DEF OrderPlan
  <1>6. OrderPlan'
    BY <1>2, <1>3, <1>4, <1>5, Zenon DEF Work, Quiet, Ends
  <1> QED
    BY <1>1, <1>6 DEF OrderInv, OrderPlan

(* With a clock of its own, and gates that are not empty, the Offs reach   *)
(* the host in the order of the launches: the Off of the note that sounds  *)
(* is always the first.  The shortest gate a step may have is one percent  *)
(* of a sixteenth, 3932 phase units.                                       *)
THEOREM OrderInvariance ==
  ASSUME "External" \notin Modes,
         \A step \in StepChoices : GateDurationUnits(step.gate) > 0
  PROVE  Spec => []OrderInv
  <1>1. Init /\ GateInv => OrderInv
    <2> SUFFICES ASSUME Init, GateInv PROVE OrderInv
      OBVIOUS
    <2>1. /\ queue = {} /\ outbox = {} /\ agenda = <<>> /\ ~running /\ actual = None
      BY DEF Init
    <2>2. OnsOf(outbox) = {} /\ OffsOf(outbox) = {} /\ Len(agenda) = 0
      BY <2>1 DEF OnsOf, OffsOf
    <2> QED
      BY <2>1, <2>2 DEF OrderInv, StartsAlone, HaltsNext, GatesOpen, LimitIsGate,
         OrphanIsActive, SoundingIsCovered, OwnOffFirst, SoundingOffFirst
  <1>2. OrderInv /\ GateInv' /\ [Next]_vars => OrderInv'
    <2> SUFFICES ASSUME OrderInv, GateInv', [Next]_vars PROVE OrderInv'
      OBVIOUS
    <2>1. CASE UNCHANGED vars
      BY <2>1 DEF vars, transportVars, plannerVars, outboxVars, sessionVars, noteVars, OrderInv,
         StartsAlone, HaltsNext, Halting, GatesOpen, LimitIsGate, OrphanIsActive, Orphan, Active,
         SoundingIsCovered, OwnOffFirst, SoundingOffFirst, Doing
    <2> QED
      BY <2>1, OrderOperations, OrderSteps DEF Next, GatesAreOpen
  <1> QED
    BY <1>1, <1>2, GateInvariance, PTL DEF Spec

(* OffSilencesItsOwnNote: the Off the host is sent while a note sounds is  *)
(* the Off of the launch that sounds, not that of another launch of the    *)
(* same pitch.                                                             *)
THEOREM OffsFindTheirNote ==
  ASSUME "External" \notin Modes,
         \A step \in StepChoices : GateDurationUnits(step.gate) > 0
  PROVE  Spec => OffSilencesItsOwnNote
  <1>1. OrderInv /\ [Next]_vars =>
          [SendAccepted /\ Accepted.kind = "NoteOff" /\ actual # None
             /\ Accepted.note = actual.note /\ Accepted.note \in hostNotes =>
           LaunchOf(Accepted) = actual]_vars
    <2> DEFINE a == Accepted
    <2> SUFFICES ASSUME OrderInv, SendAccepted, a.kind = "NoteOff", actual # None
                 PROVE  LaunchOf(a) = actual
      OBVIOUS
    <2>1. a \in OffsOf(outbox) /\ a.seq \in Nat /\ \A q \in OffsOf(outbox) : a.seq <= q.seq
      <3>1. OffsOf(outbox) \subseteq Live
        BY LiveIs DEF OffsOf
      <3>2. a \in OffsOf(outbox) /\ \A q \in Live : a.seq <= q.seq
        BY OrderTypes, AcceptedIs
      <3> HIDE DEF a
      <3> QED
        BY <3>1, <3>2, NoteTypes
    <2> HIDE DEF a
    <2>2. SameLaunch(a, actual)
      <3> SUFFICES ASSUME ~SameLaunch(a, actual) PROVE FALSE
        OBVIOUS
      <3>1. PICK q \in OffsOf(outbox) : q.seq < a.seq
        BY <2>1 DEF OrderInv, SoundingOffFirst
      <3> QED
        BY <2>1, <3>1, NoteTypes
    <2> QED
      BY <2>1, <2>2, NoteTypes, ActiveIs DEF SameLaunch
  <1> QED
    BY <1>1, OrderInvariance, PTL DEF Spec, OffSilencesItsOwnNote

-----------------------------------------------------------------------------
(***************************************************************************)
(* The planner and its queue                                               *)
(***************************************************************************)
PlansYet(rest) == \E i \in 1 .. Len(rest) : rest[i] = "schedule"

(* Ticks and a launch are followed by planning.                            *)
PlansLast(rest) ==
  \A i \in 1 .. Len(rest) : rest[i] \in TickLabels \cup {"launch"} =>
    \E j \in i + 1 .. Len(rest) : rest[j] = "schedule"

LaunchesAlone(rest) == HasLaunch(rest) => TicksAhead(rest) = 0

(* Planning is never more than a sixteenth behind its horizon, the ticks   *)
(* that a pass may still close before it included.                         *)
BoundaryAhead ==
  seqRunning =>
    IF PlansYet(agenda)
    THEN tick + Lookahead + TicksAhead(agenda) < nextBoundary + TicksPerSixteenth
    ELSE tick + Lookahead < nextBoundary

StartsAtZero == Starting => tick = 0

(* What is left when a boundary is due lies in the current tick or later.  *)
DueLater ==
  PlanningDue => \A e \in queue : e.at >= At(tick, 0)

(* The launches are a sixteenth or more apart, a NoteOn lies in the tick   *)
(* of its boundary, and its Off within a sixteenth of it.                  *)
Spaced ==
  \A e \in queue :
    /\ e.launch + TicksPerSixteenth <= nextBoundary + 1
    /\ e.kind = "NoteOn" => e.at < At(e.launch, 0)
    /\ e.kind = "NoteOff" => e.at < At(e.launch + TicksPerSixteenth, 0)
    /\ \A f \in queue :
         \/ e.launch = f.launch
         \/ e.launch + TicksPerSixteenth <= f.launch
         \/ f.launch + TicksPerSixteenth <= e.launch

PlanInv ==
  /\ GateInv
  /\ WindowInv
  /\ PlansLast(agenda)
  /\ LaunchesAlone(agenda)
  /\ BoundaryAhead
  /\ StartsAtZero
  /\ DueLater
  /\ Spaced

(* The horizon and the ticks of a pass are within a sixteenth, no gate is  *)
(* longer than one, and the queue has room for one launch and an Off.  In  *)
(* the code 2 < 6, 4 <= 6, STEP_MAX_GATE is 100, and 16 and 8 packets.     *)
PlannerHasRoom ==
  /\ Lookahead < TicksPerSixteenth
  /\ MaxTicksPerPass <= TicksPerSixteenth
  /\ \A step \in StepChoices : step.gate <= 100
  /\ QueueCapacity >= 3
  /\ MaxPacketsPerTick >= 4

LEMMA PlanTypes ==
  ASSUME PlanInv
  PROVE  /\ GateInv /\ NoteInv /\ FlagInv /\ SessionInv /\ TypeOK /\ Planned
         /\ agenda \in Seq(Labels) /\ tick \in Nat /\ nextBoundary \in Nat
         /\ deliveryPos \in Nat /\ queue \in SUBSET Events
         /\ Lookahead \in Nat /\ TicksPerSixteenth \in Nat \ {0} /\ MaxTicksPerPass \in Nat
  BY GateTypes, ControllerAssumption, TimeAssumption DEF PlanInv, TypeOK

(* Positions are ordered as their ticks are.                               *)
LEMMA TicksInOrder ==
  ASSUME NEW m \in Nat, NEW n \in Nat
  PROVE  /\ At(m, 0) \in Nat
         /\ m <= n => At(m, 0) <= At(n, 0)
         /\ At(m, 0) < At(n, 0) => m < n
  <1>1. PhaseCount \in Nat \ {0}
    BY TimeAssumption
  <1>2. At(m, 0) = m * PhaseCount /\ At(n, 0) = n * PhaseCount
    BY <1>1 DEF At
  <1>3. m * PhaseCount \in Nat /\ n * PhaseCount \in Nat
    BY <1>1
  <1>4. ASSUME NEW a \in Nat, NEW b \in Nat, a <= b PROVE a * PhaseCount <= b * PhaseCount
    <2>1. b - a \in Nat /\ b = a + (b - a)
      BY <1>4
    <2>2. b * PhaseCount = a * PhaseCount + (b - a) * PhaseCount
      BY <1>1, <2>1
    <2>3. (b - a) * PhaseCount \in Nat /\ a * PhaseCount \in Nat /\ b * PhaseCount \in Nat
      BY <1>1, <2>1
    <2> QED
      BY <2>2, <2>3
  <1>5. m <= n => At(m, 0) <= At(n, 0)
    BY <1>2, <1>4
  <1>6. ~(m < n) => At(n, 0) <= At(m, 0)
    BY <1>2, <1>4
  <1> QED
    BY <1>2, <1>3, <1>5, <1>6

(* What a step plans lies in the tick of its boundary and ends within a    *)
(* sixteenth.                                                              *)
LEMMA LaunchSpans ==
  ASSUME TypeOK, NEW step \in StepChoices, NEW swing \in Swings, step.gate <= 100,
         NEW e \in LaunchAt(step, swing)
  PROVE  /\ e.launch = nextBoundary + 1
         /\ e.at >= At(nextBoundary, 0)
         /\ e.kind = "NoteOn" => e.at < At(e.launch, 0)
         /\ e.kind = "NoteOff" => e.at < At(e.launch + TicksPerSixteenth, 0)
  <1> DEFINE phase == SwingPhase(nextBoundary \div TicksPerSixteenth, swing)
             position == At(nextBoundary, phase)
             gate == GateDeadline(position, step.gate)
  <1>1. /\ PhaseCount \in Nat \ {0} /\ TicksPerSixteenth \in Nat \ {0}
        /\ nextBoundary \in Nat /\ step.gate \in 0 .. 100 /\ swing \in Nat
    <2>1. step \in Step /\ swing \in Nat
      BY ControllerAssumption
    <2>2. step.gate \in Nat
      BY <2>1 DEF Step
    <2>3. nextBoundary \in Nat
      BY DEF TypeOK
    <2>4. step.gate \in 0 .. 100
      BY <2>2
    <2> QED
      BY <2>1, <2>3, <2>4, TimeAssumption
  <1>2. phase \in 0 .. PhaseCount - 1
    <2>1. ClampSwing(swing) \in 50 .. 90
      BY <1>1 DEF ClampSwing, SwingMin, SwingMax
    <2>2. PhaseFromPercent(ClampSwing(swing)) \in 0 .. PhaseCount - 1
      <3> DEFINE c == ClampSwing(swing)
      <3>1. c * PhaseCount \in Nat /\ c * PhaseCount <= 90 * PhaseCount
        <4>1. c \in Nat /\ 90 - c \in Nat
          BY <2>1
        <4> HIDE DEF c
        <4>2. c * PhaseCount \in Nat /\ (90 - c) * PhaseCount \in Nat
          BY <1>1, <4>1
        <4>3. 90 * PhaseCount = c * PhaseCount + (90 - c) * PhaseCount
          BY <1>1, <4>1
        <4> QED
          BY <4>2, <4>3
      <3>2. PhaseFromPercent(c) = (c * PhaseCount) \div 100
        BY <2>1 DEF PhaseFromPercent
      <3> HIDE DEF c
      <3> DEFINE x == c * PhaseCount
      <3>3. x \in Nat /\ x <= 90 * PhaseCount
        BY <3>1
      <3> HIDE DEF x
      <3>4. x \div 100 \in 0 .. PhaseCount - 1
        BY <1>1, <3>3
      <3> QED
        BY <3>2, <3>4 DEF c, x
    <2> QED
      BY <1>1, <2>2 DEF SwingPhase
  <1>3. /\ e.launch = nextBoundary + 1
        /\ \/ e.kind = "NoteOn" /\ e.at = position
           \/ e.kind = "NoteOff" /\ e.at = gate
    BY DEF LaunchAt, Scheduled
  <1>4. gate = position + (FullGate * step.gate) \div 100
    BY DEF GateDeadline, GateDurationUnits
  <1>5. (FullGate * step.gate) \div 100 \in 0 .. FullGate /\ FullGate \in Nat
    <2>1. FullGate \in Nat
      BY <1>1 DEF FullGate
    <2>2. /\ FullGate * step.gate \in Nat /\ FullGate * (100 - step.gate) \in Nat
          /\ FullGate * step.gate + FullGate * (100 - step.gate) = FullGate * 100
      <3>1. step.gate \in Nat /\ 100 - step.gate \in Nat
        BY <1>1
      <3> QED
        BY <2>1, <3>1
    <2> DEFINE x == FullGate * step.gate
    <2>3. x \in Nat /\ x <= FullGate * 100
      BY <2>1, <2>2
    <2> HIDE DEF x
    <2>4. x \div 100 \in 0 .. FullGate
      BY <2>1, <2>3
    <2> QED
      BY <2>1, <2>4 DEF x
  <1> DEFINE base == nextBoundary * PhaseCount
             full == TicksPerSixteenth * PhaseCount
             length == (FullGate * step.gate) \div 100
  <1>6. base \in Nat /\ full \in Nat /\ full = FullGate
    BY <1>1 DEF FullGate
  <1>7. /\ At(nextBoundary, 0) = base /\ position = base + phase
        /\ At(nextBoundary + 1, 0) = base + PhaseCount
        /\ At(nextBoundary + 1 + TicksPerSixteenth, 0) = base + PhaseCount + full
    BY <1>1 DEF At
  <1>8. length \in 0 .. full /\ gate = position + length
    BY <1>4, <1>5, <1>6
  <1> HIDE DEF base, full, length, position, gate, phase
  <1>9. /\ position >= base /\ position < base + PhaseCount
        /\ gate >= base /\ gate < base + PhaseCount + full
    BY <1>1, <1>2, <1>6, <1>7, <1>8
  <1>10. e.launch + TicksPerSixteenth = nextBoundary + 1 + TicksPerSixteenth
    BY <1>3
  <1> QED
    BY <1>3, <1>7, <1>9, <1>10

(* When a boundary is due, at most the Off of the launch before it is      *)
(* still scheduled.                                                        *)
LEMMA OneLeft ==
  ASSUME PlanInv, PlannerHasRoom, PlanningDue, NEW e \in queue, NEW f \in queue
  PROVE  e = f
  <1>1. /\ tick \in Nat /\ nextBoundary \in Nat /\ Lookahead \in Nat
        /\ TicksPerSixteenth \in Nat \ {0} /\ Lookahead < TicksPerSixteenth
        /\ nextBoundary <= tick + Lookahead
    <2>1. /\ tick \in Nat /\ nextBoundary \in Nat /\ Lookahead \in Nat
          /\ TicksPerSixteenth \in Nat \ {0}
      BY PlanTypes
    <2>2. Lookahead < TicksPerSixteenth
      BY DEF PlannerHasRoom
    <2>3. nextBoundary <= tick + Lookahead
      BY DEF PlanningDue, Horizon
    <2> QED
      BY <2>1, <2>2, <2>3
  <1>2. ASSUME NEW g \in queue
        PROVE  /\ g.kind = "NoteOff" /\ g.launch \in Nat /\ g.gen = sessionGen
               /\ g.launch <= tick /\ tick < g.launch + TicksPerSixteenth
    <2>1. /\ g.launch \in Nat /\ g.at \in Nat /\ g.kind \in {"NoteOn", "NoteOff"}
          /\ g.gen = sessionGen
      BY PlanTypes, QueuedTypes
    <2>2. /\ g.launch + TicksPerSixteenth <= nextBoundary + 1
          /\ g.kind = "NoteOn" => g.at < At(g.launch, 0)
          /\ g.kind = "NoteOff" => g.at < At(g.launch + TicksPerSixteenth, 0)
          /\ g.at >= At(tick, 0)
      BY DEF PlanInv, Spaced, DueLater
    <2>3. g.launch <= tick
      BY <1>1, <2>1, <2>2
    <2>4. At(g.launch, 0) <= At(tick, 0) /\ At(g.launch, 0) \in Nat /\ At(tick, 0) \in Nat
      BY <1>1, <2>1, <2>3, TicksInOrder
    <2>5. g.kind = "NoteOff"
      BY <2>1, <2>2, <2>4
    <2>6. g.launch + TicksPerSixteenth \in Nat
      BY <1>1, <2>1
    <2>7. At(g.launch + TicksPerSixteenth, 0) \in Nat
      BY <2>6, TicksInOrder
    <2>8. At(tick, 0) < At(g.launch + TicksPerSixteenth, 0)
      BY <2>1, <2>2, <2>4, <2>5, <2>7
    <2>9. tick < g.launch + TicksPerSixteenth
      BY <1>1, <2>6, <2>8, TicksInOrder
    <2> QED
      BY <2>1, <2>3, <2>5, <2>9
  <1>3. e.launch = f.launch
    <2>1. \/ e.launch = f.launch
          \/ e.launch + TicksPerSixteenth <= f.launch
          \/ f.launch + TicksPerSixteenth <= e.launch
      BY DEF PlanInv, Spaced
    <2>2. /\ e.launch \in Nat /\ e.launch <= tick /\ tick < e.launch + TicksPerSixteenth
          /\ f.launch \in Nat /\ f.launch <= tick /\ tick < f.launch + TicksPerSixteenth
      BY <1>2
    <2> QED
      BY <1>1, <2>1, <2>2
  <1>4. SameLaunch(e, f) /\ e.kind = f.kind
    BY <1>2, <1>3 DEF SameLaunch
  <1> QED
    BY <1>4, PlanTypes DEF Planned

LEMMA BatchHasRoom ==
  ASSUME PlanInv, PlannerHasRoom, PlanningDue, NEW step \in StepChoices, NEW swing \in Swings
  PROVE  BatchFits(queue, LaunchAt(step, swing))
  <1> DEFINE batch == LaunchAt(step, swing)
             all == queue \cup batch
  <1>1. PICK on, off : batch = {on, off}
    BY DEF LaunchAt
  <1> HIDE DEF batch
  <1>2. IsFiniteSet({on}) /\ Cardinality({on}) = 1
    BY FS_Singleton
  <1>3. IsFiniteSet(batch) /\ Cardinality(batch) \in Nat /\ Cardinality(batch) <= 2
    <2>1. batch = {on} \cup {off}
      BY <1>1
    <2>2. /\ IsFiniteSet({on} \cup {off})
          /\ Cardinality({on} \cup {off}) = IF off \in {on} THEN Cardinality({on})
                                            ELSE Cardinality({on}) + 1
      BY <1>2, FS_AddElement
    <2> QED
      BY <1>2, <2>1, <2>2
  <1>4. /\ IsFiniteSet(queue) /\ Cardinality(queue) \in {0, 1}
        /\ IsFiniteSet(all) /\ Cardinality(all) \in Nat /\ Cardinality(all) <= 3
    <2>1. CASE queue = {}
      <3>1. IsFiniteSet(queue) /\ Cardinality(queue) = 0
        BY <2>1, FS_EmptySet
      <3>2. all = batch
        BY <2>1
      <3> QED
        BY <1>3, <3>1, <3>2
    <2>2. CASE queue # {}
      <3>1. PICK e \in queue : TRUE
        BY <2>2
      <3>2. queue = {e}
        BY <3>1, OneLeft
      <3>3. IsFiniteSet(queue) /\ Cardinality(queue) = 1
        BY <3>2, FS_Singleton
      <3>4. all = batch \cup {e}
        BY <3>2
      <3>5. /\ IsFiniteSet(batch \cup {e})
            /\ Cardinality(batch \cup {e}) = IF e \in batch THEN Cardinality(batch)
                                             ELSE Cardinality(batch) + 1
        BY <1>3, FS_AddElement
      <3> HIDE DEF all
      <3> QED
        BY <1>3, <3>3, <3>4, <3>5
    <2> QED
      BY <2>1, <2>2
  <1> HIDE DEF all
  <1>5. /\ QueueCapacity \in Nat /\ MaxPacketsPerTick \in Nat
        /\ QueueCapacity >= 3 /\ MaxPacketsPerTick >= 4
    BY QueueAssumption DEF PlannerHasRoom
  <1>6. Cardinality(queue) + Cardinality(batch) <= QueueCapacity
    BY <1>3, <1>4, <1>5
  <1>7. ASSUME NEW e \in batch
        PROVE  Cardinality({f \in all : TickOf(f.at) = TickOf(e.at)}) < MaxPacketsPerTick
    <2> DEFINE same == {f \in all : TickOf(f.at) = TickOf(e.at)}
    <2>1. same \subseteq all
      OBVIOUS
    <2> HIDE DEF same
    <2>2. Cardinality(same) <= Cardinality(all) /\ IsFiniteSet(same)
      BY <1>4, <2>1, FS_Subset
    <2>3. Cardinality(same) \in Nat
      BY <2>2, FS_CardinalityType
    <2>4. Cardinality(same) < MaxPacketsPerTick
      BY <1>4, <1>5, <2>2, <2>3
    <2> QED
      BY <2>4 DEF same
  <1> QED
    BY <1>6, <1>7 DEF BatchFits, batch, all

-----------------------------------------------------------------------------
(***************************************************************************)
(* The order of ticks and planning in a pass                               *)
(***************************************************************************)
NoPlans(rest) == \A i \in 1 .. Len(rest) : rest[i] \notin TickLabels \cup {"launch", "schedule"}

LEMMA PlansTail ==
  ASSUME NEW rest \in Seq(Labels), rest # <<>>, PlansLast(rest)
  PROVE  /\ Tail(rest) \in Seq(Labels) /\ PlansLast(Tail(rest))
         /\ PlansYet(rest) <=> Head(rest) = "schedule" \/ PlansYet(Tail(rest))
         /\ Head(rest) \in TickLabels \cup {"launch"} => PlansYet(Tail(rest))
         /\ HasLaunch(Tail(rest)) => HasLaunch(rest)
         /\ Head(rest) = "launch" => HasLaunch(rest)
  <1> DEFINE t == Tail(rest)
  <1>1. /\ t \in Seq(Labels) /\ Len(rest) \in Nat \ {0} /\ Len(t) = Len(rest) - 1
        /\ Head(rest) = rest[1] /\ \A i \in 1 .. Len(t) : t[i] = rest[i + 1]
    BY TailAt
  <1>2. \A i \in 1 .. Len(t) : i + 1 \in 1 .. Len(rest)
    BY <1>1
  <1> HIDE DEF t
  <1>3. ASSUME NEW i \in 1 .. Len(rest), NEW j \in i + 1 .. Len(rest), rest[j] = "schedule"
        PROVE  j - 1 \in i .. Len(t) /\ t[j - 1] = "schedule"
    <2>1. j - 1 \in i .. Len(t) /\ j - 1 \in 1 .. Len(t) /\ (j - 1) + 1 = j
      BY <1>1
    <2> QED
      BY <1>1, <1>3, <2>1
  <1>4. PlansLast(t)
    <2> SUFFICES ASSUME NEW i \in 1 .. Len(t), t[i] \in TickLabels \cup {"launch"}
                 PROVE  \E j \in i + 1 .. Len(t) : t[j] = "schedule"
      BY DEF PlansLast
    <2>1. PICK j \in i + 1 + 1 .. Len(rest) : rest[j] = "schedule"
      BY <1>1, <1>2 DEF PlansLast
    <2>2. j - 1 \in i + 1 .. Len(t) /\ t[j - 1] = "schedule"
      BY <1>2, <1>3, <2>1
    <2> QED
      BY <2>2
  <1>5. PlansYet(t) => PlansYet(rest)
    BY <1>1, <1>2 DEF PlansYet
  <1>6. ASSUME NEW j \in 1 .. Len(rest), rest[j] = "schedule", Head(rest) # "schedule"
        PROVE  PlansYet(t)
    <2>1. j \in 1 + 1 .. Len(rest) /\ 1 \in 1 .. Len(rest)
      BY <1>1, <1>6
    <2>2. j - 1 \in 1 .. Len(t) /\ t[j - 1] = "schedule"
      BY <1>3, <1>6, <2>1
    <2> QED
      BY <2>2 DEF PlansYet
  <1>7. Head(rest) = "schedule" => PlansYet(rest)
    BY <1>1 DEF PlansYet
  <1>8. ASSUME Head(rest) \in TickLabels \cup {"launch"} PROVE PlansYet(t)
    <2>1. 1 \in 1 .. Len(rest)
      BY <1>1
    <2>2. PICK j \in 1 + 1 .. Len(rest) : rest[j] = "schedule"
      BY <1>1, <1>8, <2>1 DEF PlansLast
    <2>3. j - 1 \in 1 .. Len(t) /\ t[j - 1] = "schedule"
      BY <1>3, <2>1, <2>2
    <2> QED
      BY <2>3 DEF PlansYet
  <1>9. /\ HasLaunch(t) => HasLaunch(rest)
        /\ Head(rest) = "launch" => HasLaunch(rest)
    BY <1>1, <1>2 DEF HasLaunch
  <1> QED
    BY <1>1, <1>4, <1>5, <1>6, <1>7, <1>8, <1>9 DEF PlansYet, t

LEMMA PlansConcat ==
  ASSUME NEW work \in Seq(Labels), NEW rest \in Seq(Labels), PlansLast(rest),
         PlansLast(work) \/ PlansYet(rest)
  PROVE  /\ work \o rest \in Seq(Labels) /\ PlansLast(work \o rest)
         /\ PlansYet(work \o rest) <=> PlansYet(work) \/ PlansYet(rest)
         /\ HasLaunch(work \o rest) <=> HasLaunch(work) \/ HasLaunch(rest)
  <1> DEFINE both == work \o rest
  <1>1. /\ Len(work) \in Nat /\ Len(rest) \in Nat /\ Len(both) = Len(work) + Len(rest)
        /\ \A i \in 1 .. Len(work) : both[i] = work[i]
        /\ \A i \in 1 .. Len(rest) : both[Len(work) + i] = rest[i]
        /\ both \in Seq(Labels)
    BY ConcatAt
  <1>2. /\ \A i \in 1 .. Len(work) : i \in 1 .. Len(both)
        /\ \A i \in 1 .. Len(rest) : Len(work) + i \in 1 .. Len(both)
    BY <1>1
  <1>3. ASSUME NEW i \in 1 .. Len(both), i \notin 1 .. Len(work)
        PROVE  i - Len(work) \in 1 .. Len(rest) /\ both[i] = rest[i - Len(work)]
    <2>1. i - Len(work) \in 1 .. Len(rest) /\ Len(work) + (i - Len(work)) = i
      BY <1>1, <1>3
    <2> QED
      BY <1>1, <2>1
  <1> HIDE DEF both
  <1>4. PlansYet(both) <=> PlansYet(work) \/ PlansYet(rest)
    BY <1>1, <1>2, <1>3 DEF PlansYet
  <1>5. HasLaunch(both) <=> HasLaunch(work) \/ HasLaunch(rest)
    BY <1>1, <1>2, <1>3 DEF HasLaunch
  <1>6. PlansLast(both)
    <2> SUFFICES ASSUME NEW i \in 1 .. Len(both), both[i] \in TickLabels \cup {"launch"}
                 PROVE  \E j \in i + 1 .. Len(both) : both[j] = "schedule"
      BY DEF PlansLast
    <2>1. CASE i \notin 1 .. Len(work)
      <3>1. PICK j \in i - Len(work) + 1 .. Len(rest) : rest[j] = "schedule"
        BY <1>3, <2>1 DEF PlansLast
      <3>2. Len(work) + j \in i + 1 .. Len(both) /\ j \in 1 .. Len(rest)
        BY <1>1, <1>3, <2>1
      <3> QED
        BY <1>1, <3>1, <3>2
    <2>2. CASE i \in 1 .. Len(work) /\ PlansLast(work)
      <3>1. PICK j \in i + 1 .. Len(work) : work[j] = "schedule"
        BY <1>1, <2>2 DEF PlansLast
      <3>2. j \in 1 .. Len(work) /\ j \in i + 1 .. Len(both)
        BY <1>1, <2>2
      <3> QED
        BY <1>1, <3>1, <3>2
    <2>3. CASE i \in 1 .. Len(work) /\ PlansYet(rest)
      <3>1. PICK j \in 1 .. Len(rest) : rest[j] = "schedule"
        BY <2>3 DEF PlansYet
      <3>2. Len(work) + j \in i + 1 .. Len(both)
        BY <1>1, <2>3
      <3> QED
        BY <1>1, <3>1, <3>2
    <2> QED
      BY <2>1, <2>2, <2>3
  <1> QED
    BY <1>1, <1>4, <1>5, <1>6 DEF both

LEMMA PlainPlans ==
  ASSUME NEW rest \in Seq(Labels), NoPlans(rest)
  PROVE  PlansLast(rest) /\ ~PlansYet(rest) /\ ~HasLaunch(rest)
  BY DEF NoPlans, PlansLast, PlansYet, HasLaunch

-----------------------------------------------------------------------------
(***************************************************************************)
(* What a step leaves of its pass                                          *)
(***************************************************************************)
LEMMA PlainAhead == \A work \in Ahead : NoPlans(work)
  <1> SUFFICES ASSUME NEW work \in Ahead, NEW i \in 1 .. Len(work)
               PROVE  work[i] \notin TickLabels \cup {"launch", "schedule"}
    BY DEF NoPlans
  <1>1. work \in SmallPuts => work[i] \in {"servicePending", "stop", "stopExternal"}
    BY AheadLabels
  <1>2. work = <<"sendDue", "servicePending">> => work[i] \in {"sendDue", "servicePending"}
    OBVIOUS
  <1> QED
    BY <1>1, <1>2 DEF Ahead, TickLabels

LEMMA PlainAdvance ==
  \A work \in AdvanceWork : ~PlansYet(work) /\ ~HasLaunch(work)
  <1> SUFFICES ASSUME NEW work \in AdvanceWork, NEW i \in 1 .. Len(work)
               PROVE  work[i] \notin {"launch", "schedule"}
    BY DEF PlansYet, HasLaunch
  <1> QED
    BY AheadLabels

LEMMA PlanAgenda ==
  ASSUME PlanInv, Work \/ Delivery
  PROVE  /\ agenda # <<>> /\ PlansLast(agenda')
         /\ HasLaunch(agenda') => HasLaunch(agenda)
         /\ agenda' = agenda \/ (PlansYet(agenda') <=> PlansYet(Tail(agenda)))
         /\ PlansYet(agenda) <=> Head(agenda) = "schedule" \/ PlansYet(Tail(agenda))
         /\ Head(agenda) \in TickLabels \cup {"launch"} => PlansYet(Tail(agenda))
  <1> DEFINE t == Tail(agenda)
  <1>1. /\ agenda \in Seq(Labels) /\ agenda # <<>> /\ PlansLast(agenda)
    BY PlanTypes, AgendaAhead DEF PlanInv
  <1>2. /\ t \in Seq(Labels) /\ PlansLast(t)
        /\ PlansYet(agenda) <=> Head(agenda) = "schedule" \/ PlansYet(t)
        /\ Head(agenda) \in TickLabels \cup {"launch"} => PlansYet(t)
        /\ HasLaunch(t) => HasLaunch(agenda)
    BY <1>1, PlansTail
  <1>3. \/ agenda' = agenda
        \/ agenda' = t
        \/ \E work \in Ahead : agenda' = work \o t
        \/ /\ Head(agenda) = "consumeTick"
           /\ \E work \in AdvanceWork : agenda' = work \o t
    BY AgendaAhead
  <1> HIDE DEF t
  <1> DEFINE Goal == /\ PlansLast(agenda')
                     /\ HasLaunch(agenda') => HasLaunch(agenda)
                     /\ agenda' = agenda \/ (PlansYet(agenda') <=> PlansYet(t))
  <1>4. ASSUME agenda' = agenda \/ agenda' = t PROVE Goal
    BY <1>1, <1>2, <1>4
  <1>5. ASSUME NEW work \in Ahead, agenda' = work \o t PROVE Goal
    <2>1. /\ work \in Seq(Labels) /\ PlansLast(work) /\ ~PlansYet(work) /\ ~HasLaunch(work)
      BY AheadWorks, PlainAhead, PlainPlans
    <2> QED
      BY <1>2, <1>5, <2>1, PlansConcat
  <1>6. ASSUME Head(agenda) = "consumeTick", NEW work \in AdvanceWork, agenda' = work \o t
        PROVE  Goal
    <2>1. work \in Seq(Labels) /\ ~PlansYet(work) /\ ~HasLaunch(work)
      BY AheadWorks, PlainAdvance
    <2>2. PlansYet(t)
      BY <1>2, <1>6 DEF TickLabels
    <2> QED
      BY <1>2, <1>6, <2>1, <2>2, PlansConcat
  <1>7. Goal
    BY <1>3, <1>4, <1>5, <1>6
  <1> QED
    BY <1>1, <1>2, <1>7 DEF t

(* A pass does not grow ticks, and the end of one is the end of one.       *)
LEMMA TicksSpent ==
  ASSUME PlanInv, Work \/ Delivery
  PROVE  /\ TicksAhead(agenda) \in Nat /\ TicksAhead(agenda') \in Nat
         /\ TicksAhead(agenda') <= TicksAhead(agenda)
         /\ AdvanceTick => TicksAhead(agenda) = TicksAhead(agenda') + 1
  <1> DEFINE t == Tail(agenda)
  <1>1. agenda \in Seq(Labels) /\ agenda # <<>>
    BY PlanTypes, AgendaAhead
  <1>2. TicksAhead(agenda) \in Nat
    BY <1>1, TicksAheadTail
  <1> DEFINE Goal == TicksAhead(agenda') \in Nat /\ TicksAhead(agenda') <= TicksAhead(agenda)
  <1>3. ASSUME agenda' = agenda PROVE Goal
    <2> DEFINE m == TicksAhead(agenda)
    <2>1. TicksAhead(agenda') = m
      BY <1>3
    <2> HIDE DEF m
    <2>2. m \in Nat
      BY <1>2 DEF m
    <2> QED
      BY <2>1, <2>2 DEF m
  <1>4. ASSUME agenda' = t \/ \E work \in Ahead : agenda' = work \o t PROVE Goal
    <2>1. \/ agenda' = t
          \/ agenda' = <<"servicePending">> \o t
          \/ agenda' = <<"sendDue", "servicePending">> \o t
          \/ \E label \in {"stop", "stopExternal"} : agenda' = <<label>> \o t
      BY <1>4 DEF Ahead, SmallPuts
    <2>2. /\ TicksAhead(agenda') \in Nat
          /\ TicksAhead(agenda) =
               TicksAhead(agenda') + (IF Head(agenda) \in TickLabels THEN 1 ELSE 0)
      BY <1>1, <2>1, TicksAheadWork
    <2> DEFINE m == TicksAhead(agenda)
               n == TicksAhead(agenda')
    <2> HIDE DEF m, n
    <2>3. n \in Nat /\ m = n + (IF Head(agenda) \in TickLabels THEN 1 ELSE 0)
      BY <2>2 DEF m, n
    <2>4. n <= m
      BY <2>3
    <2> QED
      BY <2>3, <2>4 DEF m, n
  <1>5. ASSUME Head(agenda) = "consumeTick", NEW work \in AdvanceWork, agenda' = work \o t
        PROVE  Goal
    <2>1. \/ agenda' = <<"advance">> \o t
          \/ agenda' = <<"sendDue", "servicePending", "advance">> \o t
      BY <1>5 DEF AdvanceWork
    <2> QED
      BY <1>1, <1>5, <2>1, TicksAheadConsume
  <1>6. Goal
    BY <1>3, <1>4, <1>5, AgendaAhead
  <1>7. ASSUME AdvanceTick PROVE TicksAhead(agenda) = TicksAhead(agenda') + 1
    <2>1. /\ Head(agenda) = "advance" /\ "advance" \in TickLabels
          /\ agenda' = <<"sendDue", "servicePending">> \o t
      BY <1>7, Zenon DEF AdvanceTick, Doing, Then, TickLabels
    <2> QED
      BY <1>1, <2>1, TicksAheadWork
  <1> QED
    BY <1>2, <1>6, <1>7

-----------------------------------------------------------------------------
(***************************************************************************)
(* The planner through a pass                                              *)
(***************************************************************************)
PlannerAhead == BoundaryAhead /\ StartsAtZero /\ DueLater /\ Spaced

LEMMA PlanLimits ==
  ASSUME PlannerHasRoom
  PROVE  /\ Lookahead \in Nat /\ TicksPerSixteenth \in Nat \ {0} /\ MaxTicksPerPass \in Nat
         /\ Lookahead < TicksPerSixteenth /\ MaxTicksPerPass <= TicksPerSixteenth
  BY ControllerAssumption, TimeAssumption DEF PlannerHasRoom

(* Steps that leave the position and the boundary, and add no event.       *)
LEMMA PlanKept ==
  ASSUME PlanInv, PlannerHasRoom, Work \/ Delivery, Head(agenda) # "schedule",
         UNCHANGED <<tick, running, seqRunning, nextBoundary>>, queue' \subseteq queue
  PROVE  PlannerAhead'
  <1>1. /\ PlansYet(agenda') <=> PlansYet(agenda)
    BY PlanAgenda
  <1>2. /\ tick \in Nat /\ nextBoundary \in Nat /\ Lookahead \in Nat
        /\ TicksPerSixteenth \in Nat \ {0}
    BY PlanTypes
  <1>3. BoundaryAhead'
    <2> SUFFICES ASSUME seqRunning
                 PROVE  IF PlansYet(agenda')
                        THEN tick + Lookahead + TicksAhead(agenda')
                               < nextBoundary + TicksPerSixteenth
                        ELSE tick + Lookahead < nextBoundary
      BY DEF BoundaryAhead
    <2> DEFINE m == TicksAhead(agenda)
               n == TicksAhead(agenda')
    <2>1. m \in Nat /\ n \in Nat /\ n <= m
      BY TicksSpent
    <2>2. IF PlansYet(agenda) THEN tick + Lookahead + m < nextBoundary + TicksPerSixteenth
                              ELSE tick + Lookahead < nextBoundary
      BY DEF PlanInv, BoundaryAhead
    <2> HIDE DEF m, n
    <2>3. IF PlansYet(agenda') THEN tick + Lookahead + n < nextBoundary + TicksPerSixteenth
                               ELSE tick + Lookahead < nextBoundary
      BY <1>1, <1>2, <2>1, <2>2
    <2> QED
      BY <2>3 DEF n
  <1>4. StartsAtZero'
    BY DEF PlanInv, StartsAtZero, Starting
  <1>5. DueLater'
    BY DEF PlanInv, DueLater, PlanningDue, Horizon
  <1>6. Spaced'
    BY DEF PlanInv, Spaced
  <1> QED
    BY <1>3, <1>4, <1>5, <1>6 DEF PlannerAhead

(* A tick that ends has played everything before the next one.             *)
LEMMA PlanTick ==
  ASSUME PlanInv, PlannerHasRoom, AdvanceTick
  PROVE  PlannerAhead'
  <1>1. /\ Work /\ agenda # <<>> /\ Head(agenda) = "advance"
        /\ UNCHANGED <<running, seqRunning, nextBoundary>> /\ queue' = queue
        /\ tick' = IF haveTick THEN tick + 1 ELSE tick
        /\ haveTick => ~capacityExceeded
    <2>1. queue' = queue
      BY PlanTypes, NothingDiscarded
    <2> QED
      BY <2>1, Zenon DEF Work, AdvanceTick, Doing, plannerVars
  <1>2. /\ tick \in Nat /\ nextBoundary \in Nat /\ Lookahead \in Nat
        /\ TicksPerSixteenth \in Nat \ {0} /\ agenda \in Seq(Labels)
    BY PlanTypes
  <1>3. PlansYet(agenda) /\ PlansYet(Tail(agenda))
    BY <1>1, PlanAgenda DEF TickLabels
  <1>4. BoundaryAhead'
    <2> SUFFICES ASSUME seqRunning
                 PROVE  IF PlansYet(agenda')
                        THEN tick' + Lookahead + TicksAhead(agenda')
                               < nextBoundary + TicksPerSixteenth
                        ELSE tick' + Lookahead < nextBoundary
      BY <1>1 DEF BoundaryAhead
    <2> DEFINE m == TicksAhead(agenda)
               n == TicksAhead(agenda')
    <2>1. m \in Nat /\ n \in Nat /\ m = n + 1
      BY <1>1, TicksSpent
    <2>2. tick + Lookahead + m < nextBoundary + TicksPerSixteenth
      BY <1>3 DEF PlanInv, BoundaryAhead
    <2> HIDE DEF m, n
    <2>3. PlansYet(agenda')
      BY <1>1, <1>3, PlanAgenda
    <2>4. tick' + Lookahead + n < nextBoundary + TicksPerSixteenth
      BY <1>1, <1>2, <2>1, <2>2
    <2> QED
      BY <2>3, <2>4 DEF n
  <1>5. ~Starting
    <2>1. Starting => LaunchNext(agenda)
      BY PlanTypes DEF FlagInv
    <2>2. agenda[1] = "advance" /\ Len(agenda) \in Nat \ {0}
      BY <1>1, <1>2, TailAt
    <2>3. ~LaunchNext(agenda)
      <3> SUFFICES ASSUME NEW i \in 1 .. Len(agenda), agenda[i] = "launch",
                          \A j \in 1 .. i - 1 : agenda[j] = "servicePending"
                   PROVE  FALSE
        BY DEF LaunchNext
      <3>1. i # 1 => 1 \in 1 .. i - 1
        BY <2>2
      <3> QED
        BY <2>2, <3>1
    <2> QED
      BY <2>1, <2>3
  <1>6. StartsAtZero'
    BY <1>1, <1>5 DEF StartsAtZero, Starting
  <1>7. DueLater'
    <2>1. CASE ~haveTick
      BY <1>1, <2>1 DEF PlanInv, DueLater, PlanningDue, Horizon
    <2>2. CASE haveTick
      <3>1. HasAdvance(agenda) /\ ~Doing("sendDue")
        <4>1. Len(agenda) \in Nat \ {0} /\ Head(agenda) = agenda[1]
          BY <1>1, <1>2, TailAt
        <4> QED
          BY <1>1, <4>1 DEF HasAdvance, Doing
      <3>2. \A e \in queue : e.at > At(tick, PhaseMax)
        BY <1>1, <2>2, <3>1, PlanTypes DEF GateInv, TickCloses
      <3>3. At(tick + 1, 0) = At(tick, PhaseMax) + 1 /\ At(tick, PhaseMax) \in Nat
        <4>1. PhaseCount \in Nat \ {0} /\ tick * PhaseCount \in Nat
          BY <1>2, TimeAssumption
        <4> QED
          BY <1>2, <4>1 DEF At, PhaseMax
      <3>4. ASSUME NEW e \in queue PROVE e.at >= At(tick + 1, 0)
        <4>1. e.at \in Nat
          BY PlanTypes, QueuedTypes
        <4> QED
          BY <3>2, <3>3, <4>1
      <3> QED
        BY <1>1, <2>2, <3>4 DEF DueLater
    <2> QED
      BY <2>1, <2>2
  <1>8. Spaced'
    BY <1>1 DEF PlanInv, Spaced
  <1> QED
    BY <1>4, <1>6, <1>7, <1>8 DEF PlannerAhead

LEMMA PlanDone ==
  ASSUME PlanInv, PlannerHasRoom, ScheduleDone, TicksAhead(agenda') <= MaxTicksPerPass
  PROVE  PlannerAhead'
  <1>1. /\ Work /\ ~PlanningDue
        /\ UNCHANGED <<tick, running, seqRunning, nextBoundary, queue>>
    BY DEF Work, ScheduleDone, transportVars, plannerVars
  <1>2. /\ tick \in Nat /\ nextBoundary \in Nat /\ TicksAhead(agenda') \in Nat
    BY <1>1, PlanTypes, TicksSpent
  <1>3. BoundaryAhead'
    <2> DEFINE n == TicksAhead(agenda')
    <2>1. n \in Nat /\ n <= MaxTicksPerPass
      BY <1>2
    <2> HIDE DEF n
    <2> SUFFICES ASSUME seqRunning
                 PROVE  IF PlansYet(agenda')
                        THEN tick + Lookahead + n < nextBoundary + TicksPerSixteenth
                        ELSE tick + Lookahead < nextBoundary
      BY <1>1 DEF BoundaryAhead, n
    <2>2. ~(nextBoundary <= tick + Lookahead)
      BY <1>1 DEF PlanningDue, Horizon
    <2> QED
      BY <1>2, <2>1, <2>2, PlanLimits
  <1>4. StartsAtZero' /\ DueLater' /\ Spaced'
    BY <1>1 DEF PlanInv, StartsAtZero, Starting, DueLater, PlanningDue, Horizon, Spaced
  <1> QED
    BY <1>3, <1>4 DEF PlannerAhead

(* One boundary is planned at a time, and one is enough.                   *)
LEMMA PlanStep ==
  ASSUME PlanInv, PlannerHasRoom, NEW step \in StepChoices, NEW swing \in Swings,
         ScheduleStep(step, swing)
  PROVE  PlannerAhead'
  <1>1. /\ Work /\ agenda # <<>> /\ Head(agenda) = "schedule" /\ agenda' = agenda
        /\ nextBoundary' = nextBoundary + TicksPerSixteenth /\ seqRunning
        /\ UNCHANGED <<tick, running, seqRunning>>
        /\ queue' = queue \/ queue' = queue \cup LaunchAt(step, swing)
    BY DEF Work, ScheduleStep, Doing, transportVars, PlanningDue
  <1>2. /\ tick \in Nat /\ nextBoundary \in Nat /\ Lookahead \in Nat /\ TypeOK
        /\ TicksPerSixteenth \in Nat \ {0}
    BY PlanTypes
  <1>3. PlansYet(agenda)
    BY <1>1, PlanAgenda
  <1> DEFINE m == TicksAhead(agenda)
  <1>4. m \in Nat /\ tick + Lookahead + m < nextBoundary + TicksPerSixteenth
    BY <1>1, <1>3, TicksSpent DEF PlanInv, BoundaryAhead
  <1>5. BoundaryAhead'
    <2>1. tick' + Lookahead + TicksAhead(agenda') = tick + Lookahead + m
      BY <1>1
    <2> HIDE DEF m
    <2>2. tick + Lookahead + m < nextBoundary' + TicksPerSixteenth
      BY <1>1, <1>2, <1>4
    <2> QED
      BY <1>1, <1>3, <2>1, <2>2 DEF BoundaryAhead
  <1> HIDE DEF m
  <1>6. DueLater'
    <2>1. ~(nextBoundary' <= tick' + Lookahead)
      BY <1>1, <1>2, <1>4
    <2> QED
      BY <2>1 DEF DueLater, PlanningDue, Horizon
  <1>7. StartsAtZero'
    BY <1>1 DEF PlanInv, StartsAtZero, Starting
  <1> DEFINE batch == LaunchAt(step, swing)
  <1>8. ASSUME NEW e \in batch
        PROVE  /\ e.launch = nextBoundary + 1
               /\ e.kind = "NoteOn" => e.at < At(e.launch, 0)
               /\ e.kind = "NoteOff" => e.at < At(e.launch + TicksPerSixteenth, 0)
    BY <1>2, <1>8, LaunchSpans DEF PlannerHasRoom
  <1> HIDE DEF batch
  <1>9. ASSUME NEW e \in queue
        PROVE  /\ e.launch \in Nat /\ e.launch + TicksPerSixteenth <= nextBoundary + 1
               /\ e.kind = "NoteOn" => e.at < At(e.launch, 0)
               /\ e.kind = "NoteOff" => e.at < At(e.launch + TicksPerSixteenth, 0)
    BY PlanTypes, QueuedTypes DEF PlanInv, Spaced
  <1>10. Spaced'
    <2> SUFFICES ASSUME NEW e \in queue'
                 PROVE  /\ e.launch + TicksPerSixteenth <= nextBoundary' + 1
                        /\ e.kind = "NoteOn" => e.at < At(e.launch, 0)
                        /\ e.kind = "NoteOff" => e.at < At(e.launch + TicksPerSixteenth, 0)
                        /\ \A f \in queue' :
                             \/ e.launch = f.launch
                             \/ e.launch + TicksPerSixteenth <= f.launch
                             \/ f.launch + TicksPerSixteenth <= e.launch
      BY DEF Spaced
    <2>1. e \in queue \/ e \in batch
      BY <1>1 DEF batch
    <2>2. e.launch + TicksPerSixteenth <= nextBoundary' + 1
      BY <1>1, <1>2, <1>8, <1>9, <2>1
    <2>3. /\ e.kind = "NoteOn" => e.at < At(e.launch, 0)
          /\ e.kind = "NoteOff" => e.at < At(e.launch + TicksPerSixteenth, 0)
      BY <1>8, <1>9, <2>1
    <2>4. ASSUME NEW f \in queue'
          PROVE  \/ e.launch = f.launch
                 \/ e.launch + TicksPerSixteenth <= f.launch
                 \/ f.launch + TicksPerSixteenth <= e.launch
      <3>1. f \in queue \/ f \in batch
        BY <1>1 DEF batch
      <3>2. CASE e \in queue /\ f \in queue
        BY <3>2 DEF PlanInv, Spaced
      <3>3. CASE e \in batch /\ f \in batch
        BY <1>8, <3>3
      <3>4. CASE e \in queue /\ f \in batch
        BY <1>8, <1>9, <3>4
      <3>5. CASE e \in batch /\ f \in queue
        BY <1>8, <1>9, <3>5
      <3> QED
        BY <2>1, <3>1, <3>2, <3>3, <3>4, <3>5
    <2> QED
      BY <2>2, <2>3, <2>4
  <1> QED
    BY <1>5, <1>6, <1>7, <1>10 DEF PlannerAhead

LEMMA PlanStarts ==
  ASSUME PlanInv, PlannerHasRoom, DispatcherStart \/ LaunchSession
  PROVE  PlannerAhead'
  <1>1. CASE DispatcherStart
    <2>1. queue' = {} /\ ~seqRunning' /\ tick' = 0
      BY <1>1, PlanTypes, StartIsClean DEF DispatcherStart, plannerVars
    <2> QED
      BY <2>1 DEF PlannerAhead, BoundaryAhead, StartsAtZero, DueLater, Spaced
  <1>2. CASE LaunchSession
    <2>1. /\ Work /\ running /\ ~seqRunning /\ queue' = {} /\ tick' = tick
          /\ seqRunning' /\ nextBoundary' = 0
          /\ agenda # <<>> /\ Head(agenda) = "launch" /\ agenda' = Tail(agenda)
      BY <1>2, PlanTypes, LaunchIsClean
         DEF Work, LaunchSession, Doing, Done, transportVars
    <2>2. tick = 0
      BY <2>1 DEF PlanInv, StartsAtZero, Starting
    <2>3. PlansYet(agenda') /\ HasLaunch(agenda)
      BY <2>1, PlanAgenda, PlansTail, PlanTypes DEF PlanInv
    <2> DEFINE m == TicksAhead(agenda)
               n == TicksAhead(agenda')
    <2>4. m = 0 /\ n \in Nat /\ n <= m
      BY <2>1, <2>3, TicksSpent DEF PlanInv, LaunchesAlone
    <2> HIDE DEF m, n
    <2>5. n = 0
      BY <2>4
    <2>6. tick' + Lookahead + n < nextBoundary' + TicksPerSixteenth
      BY <2>1, <2>2, <2>5, PlanLimits
    <2>7. BoundaryAhead'
      BY <2>3, <2>6 DEF BoundaryAhead, n
    <2> QED
      BY <2>1, <2>7 DEF PlannerAhead, StartsAtZero, Starting, DueLater, Spaced
  <1> QED
    BY <1>1, <1>2

LEMMA PlanEnds ==
  ASSUME Ends \/ Disconnect
  PROVE  PlannerAhead'
  <1>1. queue' = {} /\ ~running' /\ ~seqRunning'
    BY DEF Ends, StopSession, Stop, CapacityStop, RetryWindowStop, EndPreviousSession, Disconnect,
       EndSession
  <1> QED
    BY <1>1 DEF PlannerAhead, BoundaryAhead, StartsAtZero, Starting, DueLater, PlanningDue, Spaced

LEMMA PlanMoves ==
  ASSUME PlanInv, PlannerHasRoom,
         \/ CapacityKept \/ NoOutcome \/ (\E phase \in Phases : ConsumeTick(phase))
         \/ AdvanceRefused \/ DispatchDue \/ NothingDue \/ SendDueDone \/ DropLaunch
         \/ TransferNoteOff \/ TransferNoteOn \/ ClockLost \/ ClockPresent \/ Delivery
  PROVE  PlannerAhead'
  <1> USE DEF transportVars, plannerVars
  <1>1. Work \/ Delivery
    BY DEF Work
  <1>2. CASE Delivery
    <2>1. /\ Head(agenda) = "servicePending" /\ queue' = queue
          /\ UNCHANGED <<tick, running, seqRunning, nextBoundary>>
      BY <1>2 DEF Delivery, ServiceEnded, RetryWindowExceeded, OutboxDrained, SendAccepted,
         SendRetryLater, SendDisconnected, Attempt, CanSend, Doing
    <2> QED
      BY <1>1, <2>1, PlanKept
  <1>3. CASE DropLaunch \/ TransferNoteOff \/ TransferNoteOn
    <2>1. /\ Head(agenda) = "sendDue"
          /\ UNCHANGED <<tick, running, seqRunning, nextBoundary>>
      BY <1>3 DEF DropLaunch, TransferNoteOff, TransferNoteOn, Transferring, Doing
    <2>2. queue' \subseteq queue
      BY <1>3 DEF DropLaunch, TransferNoteOff, TransferNoteOn, WithoutLaunch, WithoutOff
    <2> QED
      BY <1>1, <2>1, <2>2, PlanKept
  <1>4. CASE \/ CapacityKept \/ NoOutcome \/ (\E phase \in Phases : ConsumeTick(phase))
             \/ AdvanceRefused \/ DispatchDue \/ NothingDue \/ SendDueDone
             \/ ClockLost \/ ClockPresent
    <2>1. /\ Head(agenda) # "schedule" /\ queue' = queue
          /\ UNCHANGED <<tick, running, seqRunning, nextBoundary>>
      BY <1>4 DEF CapacityKept, NoOutcome, ConsumeTick, AdvanceRefused, DispatchDue,
         NothingDue, SendDueDone, Transferring, ClockLost, ClockPresent, Doing
    <2> QED
      BY <1>1, <2>1, PlanKept
  <1> QED
    BY <1>2, <1>3, <1>4

(* No batch is refused.                                                    *)
LEMMA NeverRefused ==
  ASSUME PlanInv, PlannerHasRoom, NEW step \in StepChoices, NEW swing \in Swings
  PROVE  ~ScheduleOverflow(step, swing)
  BY BatchHasRoom DEF ScheduleOverflow

LEMMA PlanSteps ==
  ASSUME PlanInv, PlannerHasRoom, GateInv', WindowInv', Work \/ Delivery
  PROVE  PlanInv'
  <1>1. PlansLast(agenda')
    BY PlanAgenda
  <1>2. LaunchesAlone(agenda')
    <2> DEFINE m == TicksAhead(agenda)
               n == TicksAhead(agenda')
    <2> SUFFICES ASSUME HasLaunch(agenda') PROVE n = 0
      BY DEF LaunchesAlone
    <2>1. m = 0 /\ n \in Nat /\ n <= m
      BY PlanAgenda, TicksSpent DEF PlanInv, LaunchesAlone
    <2> HIDE DEF m, n
    <2> QED
      BY <2>1
  <1>3. ~ContinueSession
    <2>1. agenda \in Seq(Labels) /\ NoContinue(agenda)
      BY PlanTypes, GateTypes DEF SoloInv
    <2> QED
      BY <2>1, NoContinueTail DEF ContinueSession, Doing
  <1>4. ScheduleDone => PlannerAhead'
    BY PlanDone DEF WindowInv
  <1>5. (\E step \in StepChoices, swing \in Swings : ScheduleStep(step, swing)) => PlannerAhead'
    BY PlanStep
  <1>6. ~\E step \in StepChoices, swing \in Swings : ScheduleOverflow(step, swing)
    BY NeverRefused
  <1>7. AdvanceTick => PlannerAhead'
    BY PlanTick
  <1>8. DispatcherStart \/ LaunchSession => PlannerAhead'
    BY PlanStarts
  <1>9. Ends \/ Disconnect => PlannerAhead'
    BY PlanEnds
  <1>10. \/ CapacityKept \/ NoOutcome \/ (\E phase \in Phases : ConsumeTick(phase))
         \/ AdvanceRefused \/ DispatchDue \/ NothingDue \/ SendDueDone \/ DropLaunch
         \/ TransferNoteOff \/ TransferNoteOn \/ ClockLost \/ ClockPresent \/ Delivery
         => PlannerAhead'
    BY PlanMoves
  <1> HIDE DEF PlannerAhead
  <1>11. PlannerAhead'
    BY <1>3, <1>4, <1>5, <1>6, <1>7, <1>8, <1>9, <1>10, Zenon DEF Work, Ends
  <1> QED
    BY <1>1, <1>2, <1>11 DEF PlanInv, PlannerAhead

-----------------------------------------------------------------------------
(***************************************************************************)
(* What an operation puts into its pass                                    *)
(***************************************************************************)
LEMMA PassPlans ==
  ASSUME NEW work \in Seq(Labels), PlansLast(work), Pass(work)
  PROVE  /\ PlansLast(agenda')
         /\ HasLaunch(agenda') => HasLaunch(work)
  <1> DEFINE head == <<"servicePending">>
             both == head \o work
  <1>1. head \in Seq(Labels) /\ FinishPass \in Seq(Labels)
    BY WorkTypes DEF Labels
  <1>2. NoPlans(head) /\ NoPlans(FinishPass)
    <2>1. NoPlans(<<"servicePending">>)
      BY DEF NoPlans, TickLabels
    <2>2. NoPlans(FinishPass)
      BY DEF NoPlans, TickLabels, FinishPass
    <2> QED
      BY <2>1, <2>2
  <1>3. /\ PlansLast(head) /\ ~HasLaunch(head)
        /\ PlansLast(FinishPass) /\ ~HasLaunch(FinishPass)
    BY <1>1, <1>2, PlainPlans
  <1>4. agenda' = both \o FinishPass
    BY DEF Pass
  <1> HIDE DEF head
  <1>5. both \in Seq(Labels) /\ PlansLast(both) /\ (HasLaunch(both) => HasLaunch(work))
    BY <1>1, <1>3, PlansConcat
  <1> HIDE DEF both
  <1>6. /\ PlansLast(both \o FinishPass)
        /\ HasLaunch(both \o FinishPass) => HasLaunch(both)
    BY <1>1, <1>3, <1>5, PlansConcat
  <1> QED
    BY <1>4, <1>5, <1>6

LEMMA PlanOperations ==
  ASSUME PlanInv, PlannerHasRoom, GateInv', WindowInv', Operation
  PROVE  PlanInv'
  <1> USE DEF transportVars, plannerVars, sessionVars, noteVars
  <1>1. /\ Idle /\ PassUnchanged
        /\ agenda' \in Seq(StartLabels) \/ agenda' \in Seq(PlayLabels)
    BY PlanTypes, GateTypes, OperationAgenda
  <1>2. UNCHANGED <<queue, tick, running, seqRunning, nextBoundary>>
    BY <1>1 DEF PassUnchanged
  <1>3. agenda = <<>> /\ Len(agenda) = 0
    BY <1>1 DEF Idle
  <1>4. ~HearsExternal
    BY PlanTypes, GateTypes DEF SoloInv, HearsExternal
  <1>5. PlansLast(agenda')
    <2>1. /\ <<"stop">> \in Seq(Labels) /\ StartSession \in Seq(Labels)
      BY WorkTypes DEF Labels
    <2>2. PlansLast(<<"stop">>)
      BY DEF PlansLast, TickLabels
    <2>3. PlansLast(StartSession)
      <3>1. Len(StartSession) = 4 /\ StartSession[1] = "start"
            /\ StartSession[2] = "dispatcherStart"
            /\ StartSession[3] = "launch" /\ StartSession[4] = "schedule"
        BY DEF StartSession
      <3> HIDE DEF StartSession
      <3>2. ASSUME NEW i \in 1 .. 4, StartSession[i] \in TickLabels \cup {"launch"}
            PROVE  i = 3
        BY <3>1, <3>2 DEF TickLabels
      <3> QED
        BY <3>1, <3>2 DEF PlansLast
    <2>4. Toggle \/ OpenStorage \/ (\E m \in Modes : ApplyMode(m)) => PlansLast(agenda')
      <3> SUFFICES ASSUME Toggle \/ OpenStorage \/ \E m \in Modes : ApplyMode(m)
                   PROVE  PlansLast(agenda')
        OBVIOUS
      <3>1. Pass(StartSession) \/ Pass(<<"stop">>)
        BY DEF Toggle, OpenStorage, ApplyMode
      <3> QED
        BY <2>1, <2>2, <2>3, <3>1, PassPlans
    <2>5. CloseStorage => PlansLast(agenda')
      BY <1>3 DEF CloseStorage, PlansLast
    <2>6. ASSUME NEW n \in 0 .. MaxTicksPerPass, Process(n) PROVE PlansLast(agenda')
      <3> DEFINE ticks == [i \in 1 .. 2 * n |->
                             IF i % 2 = 1 THEN "consumeTick" ELSE "capCheck"]
                 due == <<"dispatchDue", "capCheck", "schedule">>
                 loss == IF mode = "External" THEN <<"clockLoss">> ELSE <<>>
      <3>1. Pass(ticks \o due \o loss)
        BY <2>6, Zenon DEF Process
      <3>2. 2 * n \in Nat
        BY ControllerAssumption
      <3>3. ticks \in Seq(Labels) /\ ~HasLaunch(ticks)
        <4>1. ticks \in [1 .. 2 * n -> Labels]
          BY DEF Labels
        <4>2. ticks \in Seq(Labels) /\ Len(ticks) = 2 * n
          <5> HIDE DEF ticks
          <5> QED
            BY <3>2, <4>1
        <4>3. \A i \in 1 .. 2 * n : ticks[i] # "launch"
          OBVIOUS
        <4> HIDE DEF ticks
        <4> QED
          BY <4>2, <4>3 DEF HasLaunch
      <3>4. /\ due \in Seq(Labels) /\ PlansLast(due) /\ PlansYet(due)
        <4>1. /\ due \in Seq(Labels) /\ Len(due) = 3 /\ due[1] = "dispatchDue"
              /\ due[2] = "capCheck" /\ due[3] = "schedule"
          BY DEF Labels
        <4> HIDE DEF due
        <4>2. \A i \in 1 .. 3 : due[i] \notin TickLabels \cup {"launch"}
          BY <4>1 DEF TickLabels
        <4> QED
          BY <4>1, <4>2 DEF PlansLast, PlansYet
      <3>5. loss \in Seq(Labels) /\ PlansLast(loss)
        <4>1. /\ <<"clockLoss">> \in Seq(Labels) /\ <<>> \in Seq(Labels)
          BY DEF Labels
        <4>2. PlansLast(<<"clockLoss">>) /\ PlansLast(<<>>)
          BY DEF PlansLast, TickLabels
        <4>3. loss \in {<<"clockLoss">>, <<>>}
          OBVIOUS
        <4> HIDE DEF loss
        <4> QED
          BY <4>1, <4>2, <4>3
      <3> HIDE DEF ticks, due, loss
      <3>6. ticks \o due \in Seq(Labels) /\ PlansLast(ticks \o due)
        BY <3>3, <3>4, PlansConcat
      <3>7. ticks \o due \o loss \in Seq(Labels) /\ PlansLast(ticks \o due \o loss)
        BY <3>5, <3>6, PlansConcat
      <3> QED
        BY <3>1, <3>7, PassPlans
    <2> QED
      BY <1>4, <2>4, <2>5, <2>6
         DEF Operation, ExternalStart, ExternalContinue, ExternalStop, ExternalClock
  <1>6. LaunchesAlone(agenda')
    <2>1. /\ StartLabels \cap TickLabels = {} /\ "launch" \notin PlayLabels
          /\ StartLabels \subseteq Labels
      BY DEF StartLabels, PlayLabels, TickLabels, Labels
    <2>2. CASE agenda' \in Seq(StartLabels)
      <3>1. \A i \in 1 .. Len(agenda') : agenda'[i] \in StartLabels
        BY <2>2, NoneOf
      <3>2. TickPlaces(agenda') = {}
        BY <2>1, <3>1 DEF TickPlaces
      <3>3. TicksAhead(agenda') = 0
        BY <3>2, FS_EmptySet DEF TicksAhead
      <3> QED
        BY <3>3 DEF LaunchesAlone
    <2>3. CASE agenda' \in Seq(PlayLabels)
      <3>1. \A i \in 1 .. Len(agenda') : agenda'[i] \in PlayLabels
        BY <2>3, NoneOf
      <3> QED
        BY <2>1, <3>1 DEF LaunchesAlone, HasLaunch
    <2> QED
      BY <1>1, <2>2, <2>3
  <1>7. BoundaryAhead'
    <2> DEFINE n == TicksAhead(agenda')
    <2>1. ~PlansYet(agenda)
      BY <1>3 DEF PlansYet
    <2>2. tick \in Nat /\ nextBoundary \in Nat
      BY PlanTypes
    <2>3. n <= MaxTicksPerPass /\ n \in Nat
      <3>1. agenda' \in Seq(Labels)
        <4>1. \A S : S \subseteq Labels => Seq(S) \subseteq Seq(Labels)
          OBVIOUS
        <4>2. StartLabels \subseteq Labels /\ PlayLabels \subseteq Labels
          BY DEF StartLabels, PlayLabels, Labels
        <4> QED
          BY <1>1, <4>1, <4>2
      <3>2. CASE agenda' = <<>>
        BY <3>2, TicksAheadEmpty DEF WindowInv
      <3>3. CASE agenda' # <<>>
        BY <3>1, <3>3, TicksAheadTail DEF WindowInv
      <3> QED
        BY <3>2, <3>3
    <2> HIDE DEF n
    <2> SUFFICES ASSUME seqRunning
                 PROVE  IF PlansYet(agenda')
                        THEN tick + Lookahead + n < nextBoundary + TicksPerSixteenth
                        ELSE tick + Lookahead < nextBoundary
      BY <1>2 DEF BoundaryAhead, n
    <2>4. tick + Lookahead < nextBoundary
      BY <2>1 DEF PlanInv, BoundaryAhead
    <2> QED
      BY <2>2, <2>3, <2>4, PlanLimits
  <1>8. StartsAtZero' /\ DueLater' /\ Spaced'
    BY <1>2 DEF PlanInv, StartsAtZero, Starting, DueLater, PlanningDue, Horizon, Spaced
  <1> QED
    BY <1>5, <1>6, <1>7, <1>8 DEF PlanInv

(* The planner keeps ahead of the clock: a pass may close as many ticks as *)
(* a sixteenth has before it plans again, and then at most the Off of the  *)
(* launch before it is left.                                               *)
THEOREM PlanInvariance ==
  ASSUME "External" \notin Modes, PlannerHasRoom
  PROVE  Spec => []PlanInv
  <1>1. Init /\ GateInv /\ WindowInv => PlanInv
    <2> SUFFICES ASSUME Init, GateInv, WindowInv PROVE PlanInv
      OBVIOUS
    <2>1. queue = {} /\ agenda = <<>> /\ ~running /\ ~seqRunning
      BY DEF Init
    <2>2. Len(agenda) = 0
      BY <2>1
    <2> QED
      BY <2>1, <2>2 DEF PlanInv, PlansLast, LaunchesAlone, HasLaunch, BoundaryAhead,
         StartsAtZero, Starting, DueLater, PlanningDue, Spaced
  <1>2. PlanInv /\ GateInv' /\ WindowInv' /\ [Next]_vars => PlanInv'
    <2> SUFFICES ASSUME PlanInv, GateInv', WindowInv', [Next]_vars PROVE PlanInv'
      OBVIOUS
    <2>1. CASE UNCHANGED vars
      BY <2>1 DEF vars, transportVars, plannerVars, PlanInv, BoundaryAhead, StartsAtZero,
         Starting, DueLater, PlanningDue, Horizon, Spaced
    <2> QED
      BY <2>1, PlanOperations, PlanSteps DEF Next
  <1> QED
    BY <1>1, <1>2, GateInvariance, WindowInvariance, PTL DEF Spec

(* PlannerFits: what one lookahead schedules always fits the queue, so no  *)
(* session of a transport with a clock of its own is stopped for it.       *)
THEOREM PlannerIsNeverRefused ==
  ASSUME "External" \notin Modes, PlannerHasRoom
  PROVE  Spec => PlannerFits
  <1>1. PlanInv => [\A step \in StepChoices, swing \in Swings :
                      ~ScheduleOverflow(step, swing)]_vars
    BY NeverRefused
  <1> QED
    BY <1>1, PlanInvariance, PTL DEF PlannerFits
=============================================================================
