---------------------------- MODULE InputDevices ----------------------------
(***************************************************************************)
(* From contacts to gestures: the scheduler that decides in which pass of  *)
(* the loop a device is sampled (input/periodic_scheduler.h), the debounce *)
(* of its contact (InputTiming, ButtonMatrix), the gestures of a button    *)
(* (ButtonInputAdapter) and the quadrature decoder of a knob (Encoder).    *)
(* Times are unsigned and wrap at WordSize; the history variables keep the *)
(* real ones.  A time nobody will read again is kept as 0.                 *)
(***************************************************************************)
EXTENDS Integers, Sequences

CONSTANTS
  WordSize,    \* 2^32
  Period,      \* of the scheduler
  Debounce,    \* MATRIX_DEBOUNCE_DURATION_MS, ENCODER_SWITCH_DEBOUNCE_DURATION_US
  LongPress,   \* longPressThreshold of the adapters
  MaxGap,      \* bound: the longest pass of the loop
  MaxTurn      \* bound: quarter steps of the knob between two samples

HalfRange == WordSize \div 2

(* Consecutive polls less than half the range apart, as poll() asks, and   *)
(* samples fast enough for the knob: three quarter steps look like one     *)
(* the other way.                                                          *)
ASSUME DevicesAssumption ==
  /\ WordSize \in Nat
  /\ Period \in 1 .. HalfRange - 1
  /\ MaxGap \in 1 .. HalfRange - 1
  /\ Debounce \in Nat \ {0}
  /\ LongPress \in Nat \ {0}
  /\ Debounce + Period + MaxGap < WordSize
  /\ LongPress + Period + MaxGap < WordSize
  /\ MaxTurn \in 1 .. 2

VARIABLES
  touched,      \* bound: the device a behaviour moves, its state shares nothing with the other's
  now,          \* millis() or micros()
  deadline,     \* _nextDeadline
  contact,      \* the contact is closed
  stable,       \* _stableState of the debouncer
  candidate,    \* _candidatePending; the candidate is the other state
  since,        \* _candidateSince
  pressed,      \* _pressed of the adapter
  pressedAt,    \* _pressedAt
  longSent,     \* _longPressSent
  gesture,      \* the phases sent since the last Pressed
  knob,         \* quarter steps of the knob's axis, from idle, mod 4
  seen,         \* _currentState of the encoder
  direction,    \* _lastDirection: 1 right, -1 left, 0 undefined
  steps,        \* _accumulatedSteps
  report,       \* the direction handed on in this pass, 0 for none
  sampled,      \* history: the contact at the last sample
  steady,       \* history: how long the samples have read the same
  held,         \* history: how long the button is or was held, from its Pressed
  phase,        \* history: the time since the start of the scheduler, mod Period
  moved,        \* history: quarter steps since the last sample
  run           \* history: quarter steps in a row, one per sample, since a report

buttonVars == <<contact, stable, candidate, since, pressed, pressedAt, longSent, gesture>>
knobVars == <<knob, seen, direction, steps, report>>
historyVars == <<sampled, steady, held, phase, moved, run>>
vars == <<touched, now, deadline, buttonVars, knobVars, historyVars>>

(* The debouncer of an encoder's switch starts with the contact as it is,  *)
(* the one of a matrix button starts open.                                 *)
Init ==
  /\ touched \in {"button", "knob"}
  /\ now = 0
  /\ deadline = Period
  /\ contact \in IF touched = "button" THEN BOOLEAN ELSE {FALSE}
  /\ stable \in {FALSE, contact}
  /\ candidate = FALSE
  /\ since = 0
  /\ pressed = FALSE
  /\ pressedAt = 0
  /\ longSent = FALSE
  /\ gesture = <<>>
  /\ knob \in 0 .. 3
  /\ seen = knob
  /\ direction = 0
  /\ steps = 0
  /\ report = 0
  /\ sampled = stable
  /\ steady = 0
  /\ held = 0
  /\ phase = 0
  /\ moved = 0
  /\ run = 0

Elapsed(from, to) == (to - from) % WordSize

AtMost(time, limit) == IF time > limit THEN limit ELSE time

-----------------------------------------------------------------------------
(* PeriodicScheduler::poll: late polls skip the periods they missed.       *)
Due(time) == Elapsed(deadline, time) < HalfRange

NextDeadlineSingle(time) == (deadline + Period) % WordSize    \* mutant: one at a time

NextDeadline(time) ==
  (deadline + (Elapsed(deadline, time) \div Period + 1) * Period) % WordSize

-----------------------------------------------------------------------------
(* TimeDebouncer::observe.                                                 *)
CandidateSince(time) == IF candidate THEN since ELSE time

Confirmed(time) ==
  contact # stable /\ Elapsed(CandidateSince(time), time) >= Debounce

(* Mutant: a bounce back does not end the candidate.                       *)
ObserveSticky(time) ==
  /\ stable' = IF Confirmed(time) THEN contact ELSE stable
  /\ candidate' = ((contact # stable \/ candidate) /\ ~Confirmed(time))
  /\ since' = IF candidate' THEN CandidateSince(time) ELSE 0

Observe(time) ==
  /\ stable' = IF Confirmed(time) THEN contact ELSE stable
  /\ candidate' = (contact # stable /\ ~Confirmed(time))
  /\ since' = IF candidate' THEN CandidateSince(time) ELSE 0

-----------------------------------------------------------------------------
(* ButtonInputAdapter: onPressed, update, onReleased, as pollMatrixInputs  *)
(* and the handlers of the encoder switches call them.                     *)
HeldLong(time) == Elapsed(pressedAt, time) >= LongPress

OnPressed(time) ==
  /\ pressed' = TRUE
  /\ pressedAt' = time
  /\ longSent' = FALSE
  /\ gesture' = <<"Pressed">>

OnHeld(time) ==
  /\ longSent' = (longSent \/ HeldLong(time))
  /\ gesture' = IF HeldLong(time) /\ ~longSent THEN Append(gesture, "LongPressed") ELSE gesture
  /\ UNCHANGED <<pressed, pressedAt>>

(* Mutant: what no update() called long is a click.                        *)
EndingByUpdate(time) == IF longSent THEN <<"Released">> ELSE <<"Clicked", "Released">>

Ending(time) ==
  IF longSent THEN <<"Released">>
  ELSE IF HeldLong(time) THEN <<"LongPressed", "Released">>
  ELSE <<"Clicked", "Released">>

OnReleased(time) ==
  /\ pressed' = FALSE
  /\ pressedAt' = 0
  /\ longSent' = FALSE
  /\ gesture' = gesture \o Ending(time)

Adapt(time) ==
  \/ Confirmed(time) /\ contact /\ OnPressed(time)
  \/ Confirmed(time) /\ ~contact /\ pressed /\ OnReleased(time)
  \/ ~Confirmed(time) /\ pressed /\ OnHeld(time)
  \/ /\ ~pressed
     /\ ~(Confirmed(time) /\ contact)
     /\ UNCHANGED <<pressed, pressedAt, longSent, gesture>>

-----------------------------------------------------------------------------
(* getDirectionFromStates and Encoder::update: idle, right steps 1, 2 and  *)
(* 3 are 0, 1, 2 and 3; left steps 1, 2 and 3 are 3, 2 and 1.              *)
TargetSteps == 4

DirectionOf(previous, current) ==
  CASE (current - previous) % 4 = 1 -> 1
    [] (current - previous) % 4 = 3 -> -1
    [] OTHER -> 0

CountedOn(way) == IF way = 0 \/ way # direction THEN steps ELSE steps + 1    \* mutant

Counted(way) == IF way = 0 THEN 0 ELSE IF way = direction THEN steps + 1 ELSE 1

Turns ==
  LET way == DirectionOf(seen, knob)
  IN  /\ seen' = knob
      /\ direction' = way
      /\ report' = IF Counted(way) >= TargetSteps THEN way ELSE 0
      /\ steps' = IF Counted(way) >= TargetSteps THEN 0 ELSE Counted(way)

Encoder ==
  IF knob = seen THEN report' = 0 /\ UNCHANGED <<seen, direction, steps>> ELSE Turns

-----------------------------------------------------------------------------
(* What really happened, told from the contact and the knob alone.         *)
InARow ==
  LET before == IF run \in {-4, 4} THEN 0 ELSE run
  IN  IF moved = 0 THEN before
      ELSE IF moved \notin {-1, 1} THEN 0
      ELSE IF before * moved > 0 THEN before + moved
      ELSE moved

Witness(gap) ==
  /\ sampled' = contact
  /\ steady' = IF contact = sampled THEN AtMost(steady + gap, Debounce) ELSE 0
  /\ run' = InARow
  /\ moved' = 0

(* A pass of the loop, "gap" after the one before, that samples or not.    *)
Clock(gap) ==
  /\ now' = (now + gap) % WordSize
  /\ phase' = (phase + gap) % Period

Held(gap) ==
  held' = IF gesture' = <<"Pressed">> /\ gesture # gesture' THEN 0
          ELSE IF pressed THEN AtMost(held + gap, LongPress) ELSE held

Sample(gap) ==
  /\ Clock(gap)
  /\ Due(now')
  /\ deadline' = NextDeadline(now')
  /\ Observe(now')
  /\ Adapt(now')
  /\ Encoder
  /\ Witness(gap)
  /\ Held(gap)
  /\ UNCHANGED <<touched, contact, knob>>

NoSample(gap) ==
  /\ Clock(gap)
  /\ ~Due(now')
  /\ steady' = AtMost(steady + gap, Debounce)
  /\ held' = IF pressed THEN AtMost(held + gap, LongPress) ELSE held
  /\ report' = 0
  /\ run' = IF run \in {-4, 4} THEN 0 ELSE run
  /\ UNCHANGED <<touched, deadline, buttonVars, knob, seen, direction, steps, sampled, moved>>

(* A finger, or a contact that bounces.                                    *)
Contact ==
  /\ touched = "button"
  /\ contact' = ~contact
  /\ UNCHANGED <<touched, now, deadline, stable, candidate, since, pressed, pressedAt, longSent, gesture,
                 knobVars, historyVars>>

Turn(way) ==
  /\ touched = "knob"
  /\ moved + way \in -MaxTurn .. MaxTurn
  /\ moved' = moved + way
  /\ knob' = (knob + way) % 4
  /\ UNCHANGED <<touched, now, deadline, buttonVars, seen, direction, steps, report, sampled, steady, held,
                 phase, run>>

Next ==
  \/ \E gap \in 1 .. MaxGap : Sample(gap) \/ NoSample(gap)
  \/ Contact
  \/ \E way \in {-1, 1} : Turn(way)

Spec == Init /\ [][Next]_vars

-----------------------------------------------------------------------------
(* The next sample is due at the first multiple of the period after now,   *)
(* however late the polls are and wherever the clock wraps: no burst, no   *)
(* sample left out, no drift.                                              *)
ScansKeepTheGrid == Elapsed(now, deadline) = Period - phase

(* A contact changes for the program when all samples have read it for the *)
(* debounce time, and at the first sample after that; a bounce starts it   *)
(* again, and the wrap of the clock does not count.                        *)
SteadyBeforeReported ==
  [][/\ stable' # stable => sampled = contact /\ steady' = Debounce
     /\ deadline' # deadline /\ steady' = Debounce => stable' = contact]_vars

(* A gesture is a click or a long press, told once and by its real length, *)
(* and ends with its release.                                              *)
ClickOrLongPress ==
  /\ gesture \in {<<>>, <<"Pressed">>, <<"Pressed", "LongPressed">>,
                  <<"Pressed", "LongPressed", "Released">>,
                  <<"Pressed", "Clicked", "Released">>}
  /\ gesture = <<"Pressed", "Clicked", "Released">> => held < LongPress
  /\ Len(gesture) > 1 /\ gesture[2] = "LongPressed" => held = LongPress

(* A knob reports four quarter steps one way that were seen one by one,    *)
(* never a bounce, a missed sample or a step counted twice.                *)
KnobReportsTurns ==
  /\ report = 1 <=> run = 4
  /\ report = -1 <=> run = -4
=============================================================================
