----------------------------- MODULE InternalTicks -----------------------------
(***************************************************************************)
(* The internal clock: InternalTickSource and its ring of tick records,    *)
(* the one-shot hardware alarm that drives it (PicoInternalTickAlarm), and *)
(* the part of Application::loop that consumes ticks and keeps the alarm   *)
(* in step with the transport.                                             *)
(*                                                                         *)
(* The alarm interrupt may come between any two steps of the loop, and     *)
(* within TransportTickStore::pop between its load and its release; the    *)
(* critical section keeps it out of start, stop and setBpm.  Times are     *)
(* microseconds that never wrap here: the code compares them modulo 2^32,  *)
(* which differs only for an alarm 35 minutes late.                        *)
(*                                                                         *)
(* origin, target and gridSession are history: the time and the number of  *)
(* targets the current tempo counts from, and the session a grid was       *)
(* started for.                                                            *)
(***************************************************************************)
EXTENDS Integers

CONSTANTS
  Minute,           \* MICROSECONDS_PER_MINUTE
  Ppqn,             \* PPQN: 24 in the code
  Tempos,           \* the tempos the user may set, clamped to MIN_BPM .. MAX_BPM
  RingCapacity,     \* Capacity: 16 in the code
  MaxTicksPerPass,  \* MAX_INTERNAL_TICKS_PER_PASS: 4 in the code
  MaxTime,          \* bound of the model: time stops there
  MaxSession,       \* bound of the model: starts of the transport
  None

Requests == [gen : Nat, at : Nat]
Records == [at : Nat, session : Nat]

ASSUME TicksAssumption ==
  /\ Minute \in Nat \ {0}
  /\ Ppqn \in Nat \ {0}
  /\ Tempos \subseteq Nat \ {0}
  /\ Tempos # {}
  /\ RingCapacity \in Nat \ {0, 1}
  /\ MaxTicksPerPass \in Nat \ {0}
  /\ MaxTime \in Nat
  /\ MaxSession \in Nat
  /\ None \notin Requests \cup Records

VARIABLES
  now,            \* time_us_32()
  slots,          \* TransportTickStore::_records
  readAt,         \* _read
  writeAt,        \* _write
  loaded,         \* the record pop() has copied and not yet released
  active,         \* InternalTickSource::_active
  generation,     \* InternalTickSource::_generation
  bpm,            \* InternalTickSource::_bpm
  fraction,       \* _fractionalUs
  deadline,       \* _nextDeadlineUs
  armed,          \* PicoInternalTickAlarm::_alarmArmed
  request,        \* PicoInternalTickAlarm::_request, and with it _alarmId
  alarmActive,    \* PicoInternalTickAlarm::_active
  timers,         \* alarms the Pico SDK may still fire
  phase,          \* where Application::loop is
  popped,         \* ticks taken by the process pass
  running,        \* TransportController::usesInternalTiming()
  session,        \* the session of the transport
  tempo,          \* Sequencer::getBpm()
  loopActive,     \* Application::internalAlarmActive_
  loopBpm,        \* Application::internalAlarmBpm_
  origin, target, gridSession

ringVars == <<slots, readAt, writeAt>>
gridVars == <<bpm, fraction, deadline, origin, target>>
sourceVars == <<active, generation, gridVars>>
alarmVars == <<armed, request, alarmActive, timers>>
passVars == <<phase, popped, loaded>>
transportVars == <<running, session, tempo>>
loopVars == <<loopActive, loopBpm>>

vars == <<now, ringVars, sourceVars, alarmVars, passVars, transportVars,
          loopVars, gridSession>>

Cells == 0 .. RingCapacity - 1

(* The calls of one iteration, in their order.                             *)
Phases == {"command", "process", "button", "encoder", "sync"}

Init ==
  /\ now = 0
  /\ slots = [c \in Cells |-> None]
  /\ readAt = 0
  /\ writeAt = 0
  /\ loaded = None
  /\ active = FALSE
  /\ generation = 0
  /\ bpm \in Tempos
  /\ fraction = 0
  /\ deadline = 0
  /\ armed = FALSE
  /\ request = None
  /\ alarmActive = FALSE
  /\ timers = {}
  /\ phase = "command"
  /\ popped = 0
  /\ running = FALSE
  /\ session = 0
  /\ tempo = bpm
  /\ loopActive = FALSE
  /\ loopBpm = bpm
  /\ origin = 0
  /\ target = 0
  /\ gridSession = 0

(* Every variable has its type.                                            *)
TypeOK ==
  /\ now \in Nat
  /\ slots \in [Cells -> Records \cup {None}]
  /\ readAt \in Cells
  /\ writeAt \in Cells
  /\ loaded \in Records \cup {None}
  /\ active \in BOOLEAN
  /\ generation \in Nat
  /\ bpm \in Tempos
  /\ fraction \in Nat
  /\ deadline \in Nat
  /\ armed \in BOOLEAN
  /\ request \in Requests \cup {None}
  /\ alarmActive \in BOOLEAN
  /\ timers \subseteq Requests
  /\ phase \in Phases
  /\ popped \in 0 .. MaxTicksPerPass
  /\ running \in BOOLEAN
  /\ session \in Nat
  /\ tempo \in Tempos
  /\ loopActive \in BOOLEAN
  /\ loopBpm \in Tempos
  /\ origin \in Nat
  /\ target \in Nat
  /\ gridSession \in Nat

-----------------------------------------------------------------------------
(***************************************************************************)
(* The ring (TransportTickStore).  One slot stays free; a record that      *)
(* finds no room is lost.                                                  *)
(***************************************************************************)
After(cell) == (cell + 1) % RingCapacity

(* Fault: the last free slot is used.                                      *)
RingFullNever == FALSE

RingFull == After(writeAt) = readAt

RingEmpty == readAt = writeAt

(* Fault: discard() leaves the ring as it is.                              *)
NotDiscarded == readAt

Discarded == writeAt

Record(at, owner) == [at |-> at, session |-> owner]

Publish(at) ==
  /\ slots' = IF RingFull THEN slots
              ELSE [slots EXCEPT ![writeAt] = Record(at, gridSession)]
  /\ writeAt' = IF RingFull THEN writeAt ELSE After(writeAt)
  /\ UNCHANGED readAt

-----------------------------------------------------------------------------
(***************************************************************************)
(* The grid (nextPeriodUs, duePeriods, advancePeriods): targets a whole    *)
(* number of microseconds apart whose remainders are carried along.        *)
(***************************************************************************)
Denominator(b) == b * Ppqn

(* Fault: the remainder of the old tempo is carried into the new one.      *)
OldFraction == fraction

FreshFraction == 0

Carries(b, f) == f + (Minute % Denominator(b)) >= Denominator(b)

NextPeriod(b, f) == (Minute \div Denominator(b)) + (IF Carries(b, f) THEN 1 ELSE 0)

NextFraction(b, f) == (f + (Minute % Denominator(b))) % Denominator(b)

DuePeriods(b, f, elapsed) ==
  ((((elapsed + 1) * Denominator(b)) - 1 - f) \div Minute) + 1

AdvanceBy(b, f, count) == (count * Minute + f) \div Denominator(b)

AdvanceFraction(b, f, count) == (count * Minute + f) % Denominator(b)

-----------------------------------------------------------------------------
(***************************************************************************)
(* The alarm.  The SDK may refuse to arm it (no timer free, or the target  *)
(* passed meanwhile), and an alarm that is cancelled may fire none the     *)
(* less.                                                                   *)
(***************************************************************************)
Alarm(gen, at) == [gen |-> gen, at |-> at]

Timers(stillFires) ==
  IF armed /\ ~stillFires THEN timers \ {request} ELSE timers

(* Fault: the source is not told of a refusal.                             *)
ArmWithoutReport(gen, at, left, accepted) ==
  /\ armed' = accepted
  /\ active' = TRUE
  /\ alarmActive' = TRUE
  /\ generation' = gen
  /\ request' = IF accepted THEN Alarm(gen, at) ELSE request
  /\ timers' = IF accepted THEN left \cup {Alarm(gen, at)} ELSE left

(* arm(): after a refusal the source is no longer active.                  *)
Arm(gen, at, left, accepted) ==
  /\ armed' = accepted
  /\ active' = accepted
  /\ alarmActive' = accepted
  /\ generation' = IF accepted THEN gen ELSE gen + 1
  /\ request' = IF accepted THEN Alarm(gen, at) ELSE request
  /\ timers' = IF accepted THEN left \cup {Alarm(gen, at)} ELSE left

Armed(alarm) == alarmActive /\ armed /\ alarm = request

(* Fault: the alarm is set for the next target, due or not.                *)
SkipNone(elapsed) == 0

(* How many more targets are due once the next one is `elapsed' ago.       *)
Skip(elapsed) ==
  IF elapsed >= 0
  THEN DuePeriods(bpm, NextFraction(bpm, fraction), elapsed)
  ELSE 0

(* alarmCallback and onAlarm for the alarm that is armed: it publishes its *)
(* own target and moves on to the first target that is not due.  onAlarm's *)
(* own check of the request never fails, see ArmedIsCurrent.               *)
AlarmFires(alarm, accepted) ==
  /\ alarm \in timers
  /\ alarm.at <= now
  /\ Armed(alarm)
  /\ active /\ alarm = Alarm(generation, deadline)
  /\ Publish(deadline)
  /\ LET next == deadline + NextPeriod(bpm, fraction)
         carried == NextFraction(bpm, fraction)
         skip == Skip(now - next)
     IN /\ deadline' = IF skip = 0 THEN next ELSE next + AdvanceBy(bpm, carried, skip)
        /\ fraction' = IF skip = 0 THEN carried ELSE AdvanceFraction(bpm, carried, skip)
        /\ target' = target + 1 + skip
  /\ Arm(generation, deadline', timers \ {alarm}, accepted)
  /\ UNCHANGED <<now, bpm, origin, passVars, transportVars, loopVars, gridSession>>

StaleAlarm(alarm) ==
  /\ alarm \in timers
  /\ alarm.at <= now
  /\ ~Armed(alarm)
  /\ timers' = timers \ {alarm}
  /\ UNCHANGED <<now, ringVars, sourceVars, armed, request, alarmActive, passVars,
                 transportVars, loopVars, gridSession>>

TimePasses ==
  /\ now < MaxTime
  /\ now' = now + 1
  /\ UNCHANGED <<ringVars, sourceVars, alarmVars, passVars, transportVars,
                 loopVars, gridSession>>

-----------------------------------------------------------------------------
(***************************************************************************)
(* The loop takes ticks (TransportController::process).  A transport that  *)
(* does not run on internal ticks discards them all, one pop at a time.    *)
(***************************************************************************)
(* Fault: a pass takes every tick it finds.                                *)
PopUnbounded == phase = "process"

PopAllowed == phase = "process" /\ (running => popped < MaxTicksPerPass)

PopLoad ==
  /\ PopAllowed
  /\ loaded = None
  /\ ~RingEmpty
  /\ loaded' = slots[readAt]
  /\ UNCHANGED <<now, ringVars, sourceVars, alarmVars, phase, popped,
                 transportVars, loopVars, gridSession>>

PopRelease ==
  /\ loaded # None
  /\ readAt' = After(readAt)
  /\ loaded' = None
  /\ popped' = IF running THEN popped + 1 ELSE popped
  /\ UNCHANGED <<now, slots, writeAt, sourceVars, alarmVars, phase,
                 transportVars, loopVars, gridSession>>

(* The pass stops the transport itself: a full outbox, a clock refused for *)
(* too long, or the cable gone.                                            *)
SafetyStop ==
  /\ phase = "process"
  /\ loaded = None
  /\ running
  /\ running' = FALSE
  /\ phase' = "button"
  /\ UNCHANGED <<now, ringVars, sourceVars, alarmVars, popped, loaded, session,
                 tempo, loopVars, gridSession>>

EndProcess ==
  /\ phase = "process"
  /\ loaded = None
  /\ RingEmpty \/ ~PopAllowed
  /\ phase' = "button"
  /\ UNCHANGED <<now, ringVars, sourceVars, alarmVars, popped, loaded,
                 transportVars, loopVars, gridSession>>

-----------------------------------------------------------------------------
(***************************************************************************)
(* What the user does: a serial command before the pass, then one toggle   *)
(* by the encoder's button and any turns of the encoder (they commute),    *)
(* and the end of a serial run.                                            *)
(***************************************************************************)
Undisturbed ==
  UNCHANGED <<now, ringVars, sourceVars, alarmVars, popped, loaded, loopVars,
              gridSession>>

Started(b) ==
  /\ ~running
  /\ session < MaxSession
  /\ running' = TRUE
  /\ session' = session + 1
  /\ tempo' = b

StartByCommand(b) ==
  /\ phase = "command"
  /\ Started(b)
  /\ phase' = "process"
  /\ Undisturbed

StartByButton ==
  /\ phase = "button"
  /\ Started(tempo)
  /\ phase' = "encoder"
  /\ Undisturbed

StopTransport ==
  /\ \/ phase = "button" /\ phase' = "encoder"
     \/ phase = "encoder" /\ phase' = "sync"
  /\ running
  /\ running' = FALSE
  /\ UNCHANGED <<session, tempo>>
  /\ Undisturbed

SetTempo(b) ==
  /\ phase = "encoder"
  /\ b # tempo
  /\ tempo' = b
  /\ UNCHANGED <<phase, running, session>>
  /\ Undisturbed

NoInput ==
  /\ \/ phase = "command" /\ phase' = "process"
     \/ phase = "button" /\ phase' = "encoder"
     \/ phase = "encoder" /\ phase' = "sync"
  /\ UNCHANGED transportVars
  /\ Undisturbed

-----------------------------------------------------------------------------
(***************************************************************************)
(* syncInternalAlarm.                                                      *)
(***************************************************************************)
NextIteration ==
  /\ phase = "sync"
  /\ phase' = "command"
  /\ popped' = 0
  /\ UNCHANGED <<now, loaded, transportVars>>

(* start(): the ring is emptied, the first tick is published at once.      *)
SyncStart(stillFires, accepted) ==
  /\ NextIteration
  /\ running /\ ~loopActive
  /\ readAt' = Discarded
  /\ slots' = [slots EXCEPT ![writeAt] = Record(now, session)]
  /\ writeAt' = After(writeAt)
  /\ bpm' = tempo
  /\ deadline' = now + NextPeriod(tempo, 0)
  /\ fraction' = NextFraction(tempo, 0)
  /\ origin' = now
  /\ target' = 1
  /\ Arm(generation + 1, deadline', Timers(stillFires), accepted)
  /\ loopActive' = TRUE
  /\ loopBpm' = tempo
  /\ gridSession' = session

SyncStop(stillFires) ==
  /\ NextIteration
  /\ ~running /\ loopActive
  /\ active' = FALSE
  /\ alarmActive' = FALSE
  /\ generation' = generation + 1
  /\ armed' = FALSE
  /\ timers' = Timers(stillFires)
  /\ readAt' = Discarded
  /\ loopActive' = FALSE
  /\ UNCHANGED <<slots, writeAt, gridVars, request, loopBpm, gridSession>>

(* setBpm: the pending target stays, the next period counts from it.       *)
SyncTempo ==
  /\ NextIteration
  /\ running /\ loopActive
  /\ loopBpm # tempo
  /\ bpm' = tempo
  /\ fraction' = FreshFraction
  /\ origin' = deadline
  /\ target' = 0
  /\ loopBpm' = tempo
  /\ UNCHANGED <<ringVars, active, generation, deadline, alarmVars, loopActive,
                 gridSession>>

SyncNothing ==
  /\ NextIteration
  /\ running = loopActive
  /\ running => loopBpm = tempo
  /\ UNCHANGED <<ringVars, sourceVars, alarmVars, loopVars, gridSession>>

Interrupt ==
  \/ \E alarm \in timers, accepted \in BOOLEAN : AlarmFires(alarm, accepted)
  \/ \E alarm \in timers : StaleAlarm(alarm)

Loop ==
  \/ PopLoad
  \/ PopRelease
  \/ SafetyStop
  \/ EndProcess
  \/ \E b \in Tempos : StartByCommand(b)
  \/ StartByButton
  \/ StopTransport
  \/ \E b \in Tempos : SetTempo(b)
  \/ NoInput
  \/ \E stillFires, accepted \in BOOLEAN : SyncStart(stillFires, accepted)
  \/ \E stillFires \in BOOLEAN : SyncStop(stillFires)
  \/ SyncTempo
  \/ SyncNothing

Next == Interrupt \/ TimePasses \/ Loop

Spec == Init /\ [][Next]_vars

-----------------------------------------------------------------------------
(***************************************************************************)
(* Properties                                                              *)
(***************************************************************************)
(* While pop() copies a record the interrupt never reuses its slot         *)
(* (transport_tick.h:20-43).                                               *)
ReaderProtected == loaded # None => ~RingEmpty /\ slots[readAt] = loaded

(* The alarm is never lost and never doubled: the source is active exactly *)
(* while the alarm is armed for its generation and next target and the SDK *)
(* holds it, whatever was stopped, restarted, refused or fired stale       *)
(* (pico_internal_tick_alarm.cpp:5-83).                                    *)
ArmedIsCurrent ==
  /\ armed = active
  /\ alarmActive = active
  /\ armed => request = Alarm(generation, deadline) /\ request \in timers
  /\ armed => loopActive

(* No drift: the next target lies exactly target periods of the tempo      *)
(* behind its origin, the remainder below a microsecond being carried      *)
(* (nextPeriodUs and advancePeriods, internal_tick_source.h:307-343).      *)
GridExact ==
  /\ fraction < Denominator(bpm)
  /\ Denominator(bpm) * (deadline - origin) + fraction = target * Minute

(* A transport that is stopped when an iteration begins leaves nothing     *)
(* behind: no tick, no active source, no alarm (Application::loop).        *)
QuietWhenStopped ==
  phase = "command" /\ ~running => RingEmpty /\ ~active /\ ~armed

(* The grid's target of a given number, by its definition.                 *)
TargetTime(n) == origin + ((n * Minute) \div Denominator(bpm))

(* An alarm that comes late publishes its own target only and is set for   *)
(* the first target that is not due yet (internal_tick_source.h:131-141).  *)
NextTargetIsFirst ==
  [][\A alarm \in timers : AlarmFires(alarm, TRUE) =>
       /\ deadline' > now
       /\ deadline' = TargetTime(target')
       /\ target' = target + 1 \/ TargetTime(target' - 1) <= now]_vars

(* The ticks a session consumes were made for it: every start makes a grid *)
(* of its own and none of the old ticks is left (start and discard).       *)
OwnTicks == [][PopRelease /\ running => loaded.session = session]_vars
=============================================================================
