---------------------------- MODULE TransportTime ----------------------------
(***************************************************************************)
(* Musical positions (engine/transport.h).  A position is a tick of the    *)
(* 24-per-quarter grid and a phase inside that tick.  Every operator here  *)
(* works on absolute phase units, tick * PhaseCount + phase, which order   *)
(* positions exactly as TransportPosition's comparison operators do.       *)
(* The 64-bit tick never wraps in a device's lifetime; saturation at the   *)
(* last tick is left out.                                                  *)
(***************************************************************************)
EXTENDS Integers

CONSTANTS
  TicksPerSixteenth,  \* TICKS_PER_SIXTEENTH: 6 in the code
  PhaseCount          \* PHASE_COUNT: 65536 in the code

ASSUME TimeAssumption ==
  /\ TicksPerSixteenth \in Nat \ {0}
  /\ PhaseCount \in Nat \ {0}

Phases == 0 .. PhaseCount - 1

PhaseMax == PhaseCount - 1

At(tick, phase) == tick * PhaseCount + phase

TickOf(position) == position \div PhaseCount

(* The Off of a launch lies a gate's length of phase units after its On;   *)
(* a full gate (100 %) is exactly one sixteenth.                           *)
FullGate == TicksPerSixteenth * PhaseCount

GateDurationUnits(percent) == (FullGate * percent) \div 100

GateDeadline(onPosition, percent) == onPosition + GateDurationUnits(percent)

(* Only odd sixteenths are swung, and only past the neutral 50 %.          *)
SwingMin == 50
SwingMax == 90

ClampSwing(swing) ==
  IF swing < SwingMin THEN SwingMin
  ELSE IF swing > SwingMax THEN SwingMax ELSE swing

PhaseFromPercent(percent) ==
  IF percent >= 100 THEN PhaseMax ELSE (percent * PhaseCount) \div 100

SwingPhase(sixteenth, swing) ==
  IF sixteenth % 2 = 0 \/ ClampSwing(swing) = SwingMin
  THEN 0
  ELSE PhaseFromPercent(ClampSwing(swing))
=============================================================================
