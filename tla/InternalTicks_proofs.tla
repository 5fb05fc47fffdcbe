------------------------- MODULE InternalTicks_proofs -------------------------
(***************************************************************************)
(* Proofs about InternalTicks, for every minute length, resolution, set of *)
(* tempos and ring: the grid never drifts and recovers from a late alarm   *)
(* at the right target, the one armed alarm is the source's own, the ring  *)
(* is safe to read under the interrupt, and a stopped transport is quiet.  *)
(***************************************************************************)
EXTENDS InternalTicks, TLAPS

-----------------------------------------------------------------------------
(***************************************************************************)
(* Division                                                                *)
(***************************************************************************)
(* Quotient and remainder by a positive number.                            *)
LEMMA Division ==
  ASSUME NEW x \in Int, NEW d \in Nat \ {0}
  PROVE  /\ x \div d \in Int
         /\ x % d \in 0 .. d - 1
         /\ x = d * (x \div d) + (x % d)
  OBVIOUS

(* They are the only such numbers.                                         *)
LEMMA DivisionUnique ==
  ASSUME NEW x \in Int, NEW d \in Nat \ {0}, NEW q \in Int, NEW r \in 0 .. d - 1,
         x = d * q + r
  PROVE  x \div d = q /\ x % d = r
  OBVIOUS

(* The quotient of naturals is a natural.                                  *)
LEMMA QuotientNat ==
  ASSUME NEW x \in Nat, NEW d \in Nat \ {0}
  PROVE  x \div d \in Nat
  OBVIOUS

(* A multiple bounds a quotient from below.                                *)
LEMMA QuotientAtLeast ==
  ASSUME NEW x \in Int, NEW d \in Nat \ {0}, NEW n \in Int, n * d <= x
  PROVE  n <= x \div d
  <1> DEFINE q == x \div d
             r == x % d
  <1>1. q \in Int /\ r \in 0 .. d - 1 /\ x = d * q + r
    BY Division
  <1>2. n * d < d * (q + 1)
    BY <1>1
  <1>3. n < q + 1
    BY <1>1, <1>2
  <1> QED
    BY <1>1, <1>3

(* The next multiple bounds it from above.                                 *)
LEMMA QuotientBelow ==
  ASSUME NEW x \in Int, NEW d \in Nat \ {0}, NEW n \in Int, x < n * d
  PROVE  x \div d < n
  <1> DEFINE q == x \div d
             r == x % d
  <1>1. q \in Int /\ r \in 0 .. d - 1 /\ x = d * q + r
    BY Division
  <1>2. d * q < n * d
    BY <1>1
  <1> QED
    BY <1>1, <1>2

-----------------------------------------------------------------------------
(***************************************************************************)
(* The grid operators                                                      *)
(***************************************************************************)
LEMMA DenominatorPositive ==
  ASSUME NEW b \in Tempos
  PROVE  Denominator(b) \in Nat \ {0}
  <1>1. b \in Nat \ {0} /\ Ppqn \in Nat \ {0}
    BY TicksAssumption DEF TicksAssumption
  <1>2. b * Ppqn \in Nat /\ b * Ppqn > 0
    BY <1>1
  <1> QED
    BY <1>2 DEF Denominator

(* One period: what is not in the whole microseconds stays in the carried  *)
(* remainder (nextPeriodUs).                                               *)
LEMMA PeriodExact ==
  ASSUME NEW b \in Tempos, NEW f \in Nat, f < Denominator(b)
  PROVE  /\ NextPeriod(b, f) \in Nat
         /\ NextFraction(b, f) \in Nat
         /\ NextFraction(b, f) < Denominator(b)
         /\ Denominator(b) * NextPeriod(b, f) + NextFraction(b, f) = Minute + f
  <1> DEFINE d == Denominator(b)
             q == Minute \div d
             r == Minute % d
  <1>1. d \in Nat \ {0} /\ Minute \in Nat
    BY DenominatorPositive, TicksAssumption DEF TicksAssumption
  <1> HIDE DEF d
  <1>2. q \in Nat /\ r \in 0 .. d - 1 /\ Minute = d * q + r
    BY <1>1
  <1>0. f \in Nat /\ f < d
    BY DEF d
  <1> HIDE DEF q, r
  <1>3. /\ NextPeriod(b, f) = q + (IF f + r >= d THEN 1 ELSE 0)
        /\ NextFraction(b, f) = (f + r) % d
    BY DEF NextPeriod, Carries, NextFraction, d, q, r
  <1>4. CASE f + r >= d
    <2> DEFINE s == f + r - d
    <2>1. s \in 0 .. d - 1
      BY <1>0, <1>1, <1>2, <1>4
    <2>2. f + r = d + s /\ d * 1 = d
      BY <1>0, <1>1, <1>2
    <2> HIDE DEF s
    <2>3. (f + r) % d = s
      BY <1>0, <1>1, <1>2, <2>1, <2>2
    <2>4. NextPeriod(b, f) = q + 1 /\ NextFraction(b, f) = s
      BY <1>3, <1>4, <2>3
    <2>5. d * (q + 1) = d * q + d
      BY <1>1, <1>2
    <2>6. d * (q + 1) + s = Minute + f
      BY <1>0, <1>1, <1>2, <2>1, <2>2, <2>5
    <2> QED
      BY <1>1, <1>2, <2>1, <2>4, <2>6 DEF d
  <1>5. CASE ~(f + r >= d)
    <2>1. f + r \in 0 .. d - 1
      BY <1>0, <1>1, <1>2, <1>5
    <2>2. (f + r) % d = f + r
      BY <1>1, <2>1
    <2>3. NextPeriod(b, f) = q /\ NextFraction(b, f) = f + r
      BY <1>2, <1>3, <1>5, <2>2
    <2>4. d * q + (f + r) = Minute + f
      BY <1>0, <1>1, <1>2
    <2> QED
      BY <1>1, <1>2, <2>1, <2>3, <2>4 DEF d
  <1> QED
    BY <1>4, <1>5

(* Many periods at once: the same accounting (advancePeriods).             *)
LEMMA AdvanceExact ==
  ASSUME NEW b \in Tempos, NEW f \in Nat, NEW count \in Nat
  PROVE  /\ AdvanceBy(b, f, count) \in Nat
         /\ AdvanceFraction(b, f, count) \in Nat
         /\ AdvanceFraction(b, f, count) < Denominator(b)
         /\ Denominator(b) * AdvanceBy(b, f, count) + AdvanceFraction(b, f, count)
              = count * Minute + f
  <1> DEFINE d == Denominator(b)
             x == count * Minute + f
  <1>1. x \in Nat /\ d \in Nat \ {0}
    BY DenominatorPositive, TicksAssumption DEF TicksAssumption
  <1>2. AdvanceBy(b, f, count) = x \div d /\ AdvanceFraction(b, f, count) = x % d
    BY DEF AdvanceBy, AdvanceFraction
  <1> HIDE DEF d, x
  <1>3. x \div d \in Nat /\ x % d \in 0 .. d - 1 /\ x = d * (x \div d) + (x % d)
    BY <1>1
  <1> QED
    BY <1>1, <1>2, <1>3 DEF d, x

(* duePeriods counts the targets that are due: with it the grid passes the *)
(* present, and without the last of them it does not.                      *)
LEMMA DueExact ==
  ASSUME NEW b \in Tempos, NEW f \in Nat, f < Denominator(b), NEW elapsed \in Nat
  PROVE  /\ DuePeriods(b, f, elapsed) \in Nat \ {0}
         /\ (elapsed + 1) * Denominator(b) <= DuePeriods(b, f, elapsed) * Minute + f
         /\ (DuePeriods(b, f, elapsed) - 1) * Minute + f
              < (elapsed + 1) * Denominator(b)
  <1> DEFINE d == Denominator(b)
             x == ((elapsed + 1) * d - 1) - f
             q == x \div Minute
             r == x % Minute
  <1>1. d \in Nat \ {0} /\ Minute \in Nat \ {0}
    BY DenominatorPositive, TicksAssumption DEF TicksAssumption
  <1>2. (elapsed + 1) * d \in Nat /\ (elapsed + 1) * d = elapsed * d + d /\ elapsed * d \in Nat
    BY <1>1
  <1>3. x \in Nat
    BY <1>1, <1>2
  <1>4. DuePeriods(b, f, elapsed) = q + 1
    BY DEF DuePeriods
  <1> HIDE DEF x
  <1>5. q \in Nat /\ r \in 0 .. Minute - 1 /\ x = Minute * q + r
    BY <1>1, <1>3
  <1> HIDE DEF q, r
  <1>6. Minute * q = q * Minute /\ (q + 1) * Minute = q * Minute + Minute
    BY <1>1, <1>5
  <1>7. q * Minute \in Nat
    BY <1>1, <1>5
  <1>8. (elapsed + 1) * d = x + 1 + f
    BY <1>2 DEF x
  <1>9. (q + 1) - 1 = q
    BY <1>5
  <1> HIDE DEF d
  <1>10. (elapsed + 1) * d <= (q + 1) * Minute + f /\ q * Minute + f < (elapsed + 1) * d
    BY <1>1, <1>3, <1>5, <1>6, <1>7, <1>8
  <1> QED
    BY <1>4, <1>5, <1>9, <1>10 DEF d

-----------------------------------------------------------------------------
(***************************************************************************)
(* The inductive invariant.  To the properties it adds that pop() is never *)
(* interrupted by another call of the loop, and that a loop that has not   *)
(* started the alarm left the ring empty.                                  *)
(***************************************************************************)
PopIsOneCall == loaded # None => PopAllowed

LoopAgrees ==
  /\ ~loopActive => RingEmpty
  /\ phase = "command" => running = loopActive

Inv ==
  /\ TypeOK
  /\ PopIsOneCall
  /\ LoopAgrees
  /\ ReaderProtected
  /\ ArmedIsCurrent
  /\ GridExact

LEMMA InitInv == Init => Inv
  <1> SUFFICES ASSUME Init PROVE Inv
    OBVIOUS
  <1> USE TicksAssumption DEF TicksAssumption
  <1>1. bpm \in Tempos /\ Denominator(bpm) \in Nat \ {0}
    BY DenominatorPositive DEF Init
  <1>2. fraction \in BOOLEAN \cup Nat /\ active \in BOOLEAN /\ armed \in BOOLEAN
        /\ alarmActive \in BOOLEAN /\ running \in BOOLEAN /\ loopActive \in BOOLEAN
    BY Zenon DEF Init
  <1>3. TypeOK
    BY <1>1, <1>2 DEF Init, TypeOK, Cells, Phases
  <1>4. GridExact
    <2>1. fraction = 0 /\ deadline = 0 /\ origin = 0 /\ target = 0
      BY DEF Init
    <2> QED
      BY <1>1, <2>1 DEF GridExact
  <1>5. PopIsOneCall /\ LoopAgrees /\ ReaderProtected /\ ArmedIsCurrent
    BY Zenon DEF Init, PopIsOneCall, LoopAgrees, RingEmpty, ReaderProtected,
                 ArmedIsCurrent
  <1> QED
    BY <1>3, <1>4, <1>5 DEF Inv

-----------------------------------------------------------------------------
(***************************************************************************)
(* The grid                                                                *)
(***************************************************************************)
(* What a firing alarm does to the grid, in terms of the old state.        *)
LEMMA AlarmMovesGrid ==
  ASSUME TypeOK, GridExact, NEW alarm, NEW accepted, AlarmFires(alarm, accepted)
  PROVE  /\ fraction' \in Nat /\ deadline' \in Nat /\ target' \in Nat
         /\ bpm' = bpm /\ origin' = origin
         /\ fraction' < Denominator(bpm)
         /\ Denominator(bpm) * (deadline' - origin) + fraction' = target' * Minute
  <1> DEFINE d == Denominator(bpm)
             period == NextPeriod(bpm, fraction)
             carried == NextFraction(bpm, fraction)
             next == deadline + period
             skip == Skip(now - next)
  <1>1. bpm \in Tempos /\ fraction \in Nat /\ deadline \in Nat /\ origin \in Nat
        /\ target \in Nat /\ now \in Nat
    BY DEF TypeOK
  <1>2. d \in Nat \ {0} /\ Minute \in Nat /\ fraction < d
    BY <1>1, DenominatorPositive, TicksAssumption DEF TicksAssumption, GridExact
  <1>3. /\ period \in Nat /\ carried \in Nat /\ carried < d
        /\ d * period + carried = Minute + fraction
    BY <1>1, <1>2, PeriodExact
  <1>4. /\ bpm' = bpm /\ origin' = origin
        /\ deadline' = IF skip = 0 THEN next ELSE next + AdvanceBy(bpm, carried, skip)
        /\ fraction' = IF skip = 0 THEN carried ELSE AdvanceFraction(bpm, carried, skip)
        /\ target' = target + 1 + skip
    BY DEF AlarmFires
  <1>5. d * (deadline - origin) + fraction = target * Minute
    BY DEF GridExact
  <1> HIDE DEF d, period, carried
  <1>6. skip \in Nat
    <2>1. now - next \in Int
      BY <1>1, <1>3
    <2>2. CASE now - next >= 0
      <3>1. DuePeriods(bpm, carried, now - next) \in Nat
        BY <1>1, <1>3, <2>1, <2>2, DueExact DEF d
      <3> QED
        BY <2>2, <3>1 DEF Skip, carried
    <2>3. CASE ~(now - next >= 0)
      BY <2>3 DEF Skip
    <2> QED
      BY <2>2, <2>3
  <1> HIDE DEF skip
  <1>7. d * (next - origin) + carried = (target + 1) * Minute
    <2>1. d * (next - origin) = d * (deadline - origin) + d * period
      BY <1>1, <1>2, <1>3
    <2>2. (target + 1) * Minute = target * Minute + Minute
      BY <1>1, <1>2
    <2> QED
      BY <1>1, <1>2, <1>3, <1>5, <2>1, <2>2
  <1>8. CASE skip = 0
    <2>1. deadline' = next /\ fraction' = carried /\ target' = target + 1
      BY <1>1, <1>4, <1>8
    <2> QED
      BY <1>1, <1>2, <1>3, <1>4, <1>7, <2>1 DEF d
  <1>9. CASE skip # 0
    <2> DEFINE by == AdvanceBy(bpm, carried, skip)
               left == AdvanceFraction(bpm, carried, skip)
    <2>1. by \in Nat /\ left \in Nat /\ left < d /\ d * by + left = skip * Minute + carried
      BY <1>1, <1>3, <1>6, AdvanceExact DEF d
    <2>2. deadline' = next + by /\ fraction' = left /\ target' = target + 1 + skip
      BY <1>4, <1>9
    <2> HIDE DEF by, left
    <2>3. d * (next + by - origin) = d * (next - origin) + d * by
      BY <1>1, <1>2, <1>3, <2>1
    <2>4. (target + 1 + skip) * Minute = (target + 1) * Minute + skip * Minute
      BY <1>1, <1>2, <1>6
    <2>5. d * (next + by - origin) + left = (target + 1 + skip) * Minute
      BY <1>1, <1>2, <1>3, <1>6, <1>7, <2>1, <2>3, <2>4
    <2> QED
      BY <1>1, <1>2, <1>3, <1>4, <1>6, <2>1, <2>2, <2>5 DEF d
  <1> QED
    BY <1>8, <1>9

LEMMA GridStep ==
  ASSUME TypeOK, GridExact, [Next]_vars
  PROVE  GridExact'
  <1> USE DEF GridExact
  <1>1. CASE UNCHANGED gridVars
    BY <1>1 DEF gridVars, Denominator
  <1>2. CASE \E alarm, accepted : AlarmFires(alarm, accepted)
    <2> PICK alarm, accepted : AlarmFires(alarm, accepted)
      BY <1>2
    <2> QED
      BY AlarmMovesGrid DEF Denominator
  <1>3. CASE \E stillFires, accepted \in BOOLEAN : SyncStart(stillFires, accepted)
    <2> PICK stillFires \in BOOLEAN, accepted \in BOOLEAN : SyncStart(stillFires, accepted)
      BY <1>3
    <2> DEFINE d == Denominator(tempo)
    <2>1. tempo \in Tempos /\ now \in Nat
      BY DEF TypeOK
    <2>2. d \in Nat \ {0} /\ Minute \in Nat
      BY <2>1, DenominatorPositive, TicksAssumption DEF TicksAssumption
    <2>3. /\ NextPeriod(tempo, 0) \in Nat /\ NextFraction(tempo, 0) \in Nat
          /\ NextFraction(tempo, 0) < d
          /\ d * NextPeriod(tempo, 0) + NextFraction(tempo, 0) = Minute + 0
      BY <2>1, <2>2, PeriodExact
    <2>4. /\ bpm' = tempo /\ origin' = now /\ target' = 1
          /\ deadline' = now + NextPeriod(tempo, 0) /\ fraction' = NextFraction(tempo, 0)
      BY DEF SyncStart
    <2>5. deadline' - origin' = NextPeriod(tempo, 0)
      BY <2>1, <2>3, <2>4
    <2>6. Denominator(bpm)' = d
      BY <2>4 DEF Denominator
    <2> HIDE DEF d
    <2> QED
      BY <2>2, <2>3, <2>4, <2>5, <2>6 DEF d
  <1>4. CASE SyncTempo
    <2>1. tempo \in Tempos /\ deadline \in Nat
      BY DEF TypeOK
    <2>2. /\ bpm' = tempo /\ fraction' = 0 /\ origin' = deadline /\ target' = 0
          /\ deadline' = deadline
      BY <1>4 DEF SyncTempo, FreshFraction
    <2>3. Denominator(bpm)' = Denominator(tempo) /\ Denominator(tempo) \in Nat \ {0}
      BY <2>1, <2>2, DenominatorPositive DEF Denominator
    <2>4. Minute \in Nat
      BY TicksAssumption DEF TicksAssumption
    <2> QED
      BY <2>1, <2>2, <2>3, <2>4
  <1> QED
    BY <1>1, <1>2, <1>3, <1>4
       DEF Next, Interrupt, Loop, vars, gridVars, sourceVars, StaleAlarm, TimePasses,
           PopLoad, PopRelease, SafetyStop, EndProcess, Undisturbed, StartByCommand,
           StartByButton, StopTransport, SetTempo, NoInput, SyncStop, SyncNothing

-----------------------------------------------------------------------------
(***************************************************************************)
(* Types                                                                   *)
(***************************************************************************)
LEMMA CellAfter ==
  ASSUME NEW c \in Cells
  PROVE  After(c) \in Cells /\ After(c) # c
  <1>1. RingCapacity \in Nat \ {0, 1} /\ c \in Nat /\ c <= RingCapacity - 1
    BY TicksAssumption DEF TicksAssumption, Cells
  <1>2. CASE c + 1 = RingCapacity
    <2>1. (c + 1) % RingCapacity = 0
      BY <1>1, <1>2
    <2> QED
      BY <1>1, <1>2, <2>1 DEF After, Cells
  <1>3. CASE c + 1 # RingCapacity
    <2>1. (c + 1) % RingCapacity = c + 1
      BY <1>1, <1>3
    <2> QED
      BY <1>1, <1>3, <2>1 DEF After, Cells
  <1> QED
    BY <1>2, <1>3

LEMMA PublishType ==
  ASSUME TypeOK, NEW at \in Nat, Publish(at)
  PROVE  slots' \in [Cells -> Records \cup {None}] /\ readAt' \in Cells /\ writeAt' \in Cells
  <1>1. Record(at, gridSession) \in Records
    BY DEF TypeOK, Record, Records
  <1>2. After(writeAt) \in Cells
    BY CellAfter DEF TypeOK
  <1> QED
    BY <1>1, <1>2 DEF TypeOK, Publish

LEMMA ArmType ==
  ASSUME TypeOK, NEW gen \in Nat, NEW at \in Nat, NEW left \in SUBSET Requests,
         NEW accepted \in BOOLEAN, Arm(gen, at, left, accepted)
  PROVE  /\ armed' \in BOOLEAN /\ active' \in BOOLEAN /\ alarmActive' \in BOOLEAN
         /\ generation' \in Nat /\ request' \in Requests \cup {None}
         /\ timers' \subseteq Requests
  <1>1. Alarm(gen, at) \in Requests
    BY DEF Alarm, Requests
  <1>2. armed' \in BOOLEAN /\ active' \in BOOLEAN /\ alarmActive' \in BOOLEAN
    BY Zenon DEF Arm
  <1> QED
    BY <1>1, <1>2 DEF Arm, TypeOK

LEMMA TimersType ==
  ASSUME TypeOK, NEW stillFires
  PROVE  Timers(stillFires) \in SUBSET Requests
  BY DEF TypeOK, Timers

LEMMA TypeStep ==
  ASSUME TypeOK, PopIsOneCall, GridExact, [Next]_vars
  PROVE  TypeOK'
  <1>1. CASE UNCHANGED vars
    BY <1>1 DEF TypeOK, vars, ringVars, gridVars, sourceVars, alarmVars, passVars,
                transportVars, loopVars
  <1>2. ASSUME NEW alarm \in timers, NEW accepted \in BOOLEAN, AlarmFires(alarm, accepted)
        PROVE  TypeOK'
    <2>1. fraction' \in Nat /\ deadline' \in Nat /\ target' \in Nat
      BY <1>2, AlarmMovesGrid
    <2>2. slots' \in [Cells -> Records \cup {None}] /\ readAt' \in Cells /\ writeAt' \in Cells
      <3>1. deadline \in Nat /\ Publish(deadline)
        BY <1>2 DEF AlarmFires, TypeOK
      <3> QED
        BY <3>1, PublishType
    <2>3. /\ armed' \in BOOLEAN /\ active' \in BOOLEAN /\ alarmActive' \in BOOLEAN
          /\ generation' \in Nat /\ request' \in Requests \cup {None}
          /\ timers' \subseteq Requests
      <3>1. generation \in Nat /\ timers \ {alarm} \in SUBSET Requests
        BY DEF TypeOK
      <3>2. Arm(generation, deadline', timers \ {alarm}, accepted)
        BY <1>2 DEF AlarmFires
      <3> QED
        BY <2>1, <3>1, <3>2, ArmType
    <2>4. UNCHANGED <<now, bpm, origin, passVars, transportVars, loopVars, gridSession>>
      BY <1>2 DEF AlarmFires
    <2> QED
      BY <2>1, <2>2, <2>3, <2>4 DEF TypeOK, passVars, transportVars, loopVars
  <1>3. CASE \E alarm \in timers : StaleAlarm(alarm)
    BY <1>3 DEF StaleAlarm, TypeOK, ringVars, gridVars, sourceVars, passVars,
                transportVars, loopVars
  <1>4. CASE TimePasses
    BY <1>4 DEF TimePasses, TypeOK, ringVars, gridVars, sourceVars, alarmVars, passVars,
                transportVars, loopVars
  <1>5. CASE PopLoad
    BY <1>5 DEF PopLoad, TypeOK, ringVars, gridVars, sourceVars, alarmVars,
                transportVars, loopVars
  <1>6. CASE PopRelease
    <2>1. readAt' \in Cells /\ loaded' \in Records \cup {None}
      BY <1>6, CellAfter DEF PopRelease, TypeOK
    <2>2. popped' \in 0 .. MaxTicksPerPass
      <3>1. running => popped < MaxTicksPerPass
        BY <1>6 DEF PopRelease, PopIsOneCall, PopAllowed
      <3>2. MaxTicksPerPass \in Nat
        BY TicksAssumption DEF TicksAssumption
      <3> QED
        BY <1>6, <3>1, <3>2 DEF PopRelease, TypeOK
    <2> QED
      BY <1>6, <2>1, <2>2 DEF PopRelease, TypeOK, gridVars, sourceVars, alarmVars,
                              transportVars, loopVars
  <1>7. CASE SafetyStop \/ EndProcess
    <2>1. running' \in BOOLEAN /\ phase' \in Phases
      BY <1>7, Zenon DEF SafetyStop, EndProcess, TypeOK, Phases, transportVars
    <2> QED
      BY <1>7, <2>1 DEF SafetyStop, EndProcess, TypeOK, ringVars, gridVars, sourceVars,
                        alarmVars, transportVars, loopVars
  <1>8. CASE \/ \E b \in Tempos : StartByCommand(b) \/ SetTempo(b)
             \/ StartByButton \/ StopTransport \/ NoInput
    <2>1. /\ running' \in BOOLEAN /\ phase' \in Phases /\ session' \in Nat /\ tempo' \in Tempos
      <3>1. session \in Nat /\ session + 1 \in Nat
        BY DEF TypeOK
      <3> QED
        BY <1>8, <3>1, Zenon DEF StartByCommand, SetTempo, StartByButton, Started,
             StopTransport, NoInput, TypeOK, Phases, transportVars
    <2>2. UNCHANGED <<now, ringVars, sourceVars, alarmVars, popped, loaded, loopVars,
                      gridSession>>
      BY <1>8, Zenon DEF StartByCommand, SetTempo, StartByButton, StopTransport,
                         NoInput, Undisturbed
    <2> QED
      BY <2>1, <2>2 DEF TypeOK, ringVars, gridVars, sourceVars, alarmVars, loopVars
  <1>9. ASSUME NEW stillFires \in BOOLEAN, NEW accepted \in BOOLEAN,
               SyncStart(stillFires, accepted)
        PROVE  TypeOK'
    <2>1. tempo \in Tempos /\ 0 \in Nat /\ 0 < Denominator(tempo)
      BY DenominatorPositive DEF TypeOK
    <2>2. NextPeriod(tempo, 0) \in Nat /\ NextFraction(tempo, 0) \in Nat
      BY <2>1, PeriodExact
    <2>3. deadline' \in Nat /\ fraction' \in Nat /\ generation + 1 \in Nat
      BY <1>9, <2>2 DEF SyncStart, TypeOK
    <2>4. slots' \in [Cells -> Records \cup {None}] /\ readAt' \in Cells /\ writeAt' \in Cells
      BY <1>9, CellAfter DEF SyncStart, TypeOK, Record, Records, Discarded
    <2>5. /\ armed' \in BOOLEAN /\ active' \in BOOLEAN /\ alarmActive' \in BOOLEAN
          /\ generation' \in Nat /\ request' \in Requests \cup {None}
          /\ timers' \subseteq Requests
      <3>1. Arm(generation + 1, deadline', Timers(stillFires), accepted)
        BY <1>9 DEF SyncStart
      <3> QED
        BY <2>3, <3>1, TimersType, ArmType
    <2>6. /\ bpm' = tempo /\ loopBpm' = tempo /\ origin' = now /\ target' = 1
          /\ loopActive' = TRUE /\ gridSession' = session /\ phase' = "command"
          /\ popped' = 0 /\ UNCHANGED <<now, loaded, transportVars>>
      BY <1>9 DEF SyncStart, NextIteration
    <2>7. loopActive' \in BOOLEAN
      BY <2>6, Zenon
    <2>8. MaxTicksPerPass \in Nat
      BY TicksAssumption DEF TicksAssumption
    <2> QED
      BY <2>3, <2>4, <2>5, <2>6, <2>7, <2>8 DEF TypeOK, transportVars, Phases
  <1>10. ASSUME NEW stillFires \in BOOLEAN, SyncStop(stillFires)
         PROVE  TypeOK'
    <2>1. active' \in BOOLEAN /\ alarmActive' \in BOOLEAN /\ armed' \in BOOLEAN
          /\ loopActive' \in BOOLEAN
      BY <1>10, Zenon DEF SyncStop
    <2>2. timers' \subseteq Requests
      BY <1>10, TimersType DEF SyncStop
    <2>3. MaxTicksPerPass \in Nat
      BY TicksAssumption DEF TicksAssumption
    <2> QED
      BY <1>10, <2>1, <2>2, <2>3 DEF SyncStop, NextIteration, TypeOK, Phases, gridVars,
                                     transportVars, Discarded
  <1>11. CASE SyncTempo \/ SyncNothing
    <2>1. MaxTicksPerPass \in Nat
      BY TicksAssumption DEF TicksAssumption
    <2> QED
      BY <1>11, <2>1 DEF SyncTempo, SyncNothing, FreshFraction, NextIteration, TypeOK, Phases,
                         ringVars, gridVars, sourceVars, alarmVars, transportVars, loopVars
  <1> QED
    BY <1>1, <1>2, <1>3, <1>4, <1>5, <1>6, <1>7, <1>8, <1>9, <1>10, <1>11, Zenon
       DEF Next, Interrupt, Loop

-----------------------------------------------------------------------------
(***************************************************************************)
(* The ring under the interrupt                                            *)
(***************************************************************************)
LEMMA ReaderStep ==
  ASSUME TypeOK, ReaderProtected, PopIsOneCall, [Next]_vars
  PROVE  ReaderProtected' /\ PopIsOneCall'
  <1> USE DEF ReaderProtected, PopIsOneCall, PopAllowed, RingEmpty
  <1>1. CASE UNCHANGED <<ringVars, passVars, running>>
    BY <1>1, Zenon DEF ringVars, passVars
  <1>2. ASSUME NEW alarm, NEW accepted, AlarmFires(alarm, accepted)
        PROVE  ReaderProtected' /\ PopIsOneCall'
    <2>1. Publish(deadline) /\ UNCHANGED <<passVars, running>>
      BY <1>2 DEF AlarmFires, transportVars
    <2>2. PopIsOneCall'
      BY <2>1, Zenon DEF passVars
    <2>3. ASSUME loaded # None, ~RingFull
          PROVE  readAt # After(writeAt) /\ slots'[readAt] = slots[readAt]
      <3>1. readAt \in Cells /\ readAt # writeAt /\ slots \in [Cells -> Records \cup {None}]
        BY <2>3 DEF TypeOK
      <3>2. slots' = [slots EXCEPT ![writeAt] = Record(deadline, gridSession)]
        BY <2>1, <2>3 DEF Publish
      <3> QED
        BY <2>3, <3>1, <3>2 DEF RingFull
    <2> QED
      BY <2>1, <2>2, <2>3 DEF passVars, Publish
  <1>3. CASE PopLoad
    BY <1>3 DEF PopLoad, ringVars, transportVars
  <1>4. CASE PopRelease
    BY <1>4 DEF PopRelease
  <1>5. CASE loaded = None /\ loaded' = None
    BY <1>5
  <1>6. CASE SafetyStop \/ EndProcess
    BY <1>5, <1>6 DEF SafetyStop, EndProcess
  <1>7. CASE \/ \E b \in Tempos : StartByCommand(b) \/ SetTempo(b)
             \/ StartByButton \/ StopTransport \/ NoInput
    <2>1. phase # "process" /\ loaded' = loaded
      BY <1>7 DEF StartByCommand, SetTempo, StartByButton, StopTransport, NoInput,
                  Undisturbed
    <2> QED
      BY <1>5, <2>1
  <1>8. CASE \/ \E stillFires, accepted \in BOOLEAN : SyncStart(stillFires, accepted)
             \/ \E stillFires \in BOOLEAN : SyncStop(stillFires)
             \/ SyncTempo \/ SyncNothing
    <2>1. phase # "process" /\ loaded' = loaded
      BY <1>8 DEF SyncStart, SyncStop, SyncTempo, SyncNothing, NextIteration
    <2> QED
      BY <1>5, <2>1
  <1>9. CASE \/ \E alarm \in timers : StaleAlarm(alarm)
             \/ TimePasses
    BY <1>1, <1>9 DEF StaleAlarm, TimePasses, transportVars
  <1> QED
    BY <1>1, <1>2, <1>3, <1>4, <1>6, <1>7, <1>8, <1>9, Zenon
       DEF Next, Interrupt, Loop, vars, transportVars

-----------------------------------------------------------------------------
(***************************************************************************)
(* The one alarm                                                           *)
(***************************************************************************)
LEMMA ArmIsCurrent ==
  ASSUME NEW gen, NEW left, NEW accepted \in BOOLEAN,
         Arm(gen, deadline', left, accepted), accepted => loopActive'
  PROVE  ArmedIsCurrent'
  BY Zenon DEF Arm, ArmedIsCurrent, Alarm

LEMMA ArmedStep ==
  ASSUME TypeOK, ArmedIsCurrent, [Next]_vars
  PROVE  ArmedIsCurrent'
  <1>1. CASE UNCHANGED <<active, generation, deadline, alarmVars, loopActive>>
    BY <1>1, Zenon DEF ArmedIsCurrent, alarmVars, Alarm
  <1>2. ASSUME NEW alarm \in timers, NEW accepted \in BOOLEAN, AlarmFires(alarm, accepted)
        PROVE  ArmedIsCurrent'
    <2>1. Arm(generation, deadline', timers \ {alarm}, accepted) /\ loopActive' = loopActive
          /\ armed
      BY <1>2 DEF AlarmFires, loopVars, Armed
    <2> QED
      BY <2>1, ArmIsCurrent, Zenon DEF ArmedIsCurrent
  <1>3. ASSUME NEW alarm \in timers, StaleAlarm(alarm)
        PROVE  ArmedIsCurrent'
    <2>1. /\ timers' = timers \ {alarm}
          /\ ~(alarmActive /\ armed /\ alarm = request)
          /\ UNCHANGED <<active, generation, deadline, armed, request, alarmActive, loopActive>>
      BY <1>3 DEF StaleAlarm, sourceVars, gridVars, loopVars, Armed
    <2> QED
      BY <2>1, Zenon DEF ArmedIsCurrent, Alarm
  <1>4. ASSUME NEW stillFires \in BOOLEAN, NEW accepted \in BOOLEAN,
               SyncStart(stillFires, accepted)
        PROVE  ArmedIsCurrent'
    <2>1. Arm(generation + 1, deadline', Timers(stillFires), accepted) /\ loopActive'
      BY <1>4 DEF SyncStart
    <2> QED
      BY <2>1, ArmIsCurrent, Zenon
  <1>5. ASSUME NEW stillFires \in BOOLEAN, SyncStop(stillFires)
        PROVE  ArmedIsCurrent'
    BY <1>5, Zenon DEF SyncStop, ArmedIsCurrent
  <1>6. CASE \/ TimePasses \/ PopLoad \/ PopRelease \/ SafetyStop \/ EndProcess
             \/ \E b \in Tempos : StartByCommand(b) \/ SetTempo(b)
             \/ StartByButton \/ StopTransport \/ NoInput \/ SyncTempo \/ SyncNothing
    BY <1>1, <1>6 DEF TimePasses, PopLoad, PopRelease, SafetyStop, EndProcess,
       StartByCommand, SetTempo, StartByButton, StopTransport, NoInput, Undisturbed,
       SyncTempo, SyncNothing, sourceVars, gridVars, loopVars
  <1> QED
    BY <1>1, <1>2, <1>3, <1>4, <1>5, <1>6, Zenon
       DEF Next, Interrupt, Loop, vars, sourceVars, gridVars, loopVars

-----------------------------------------------------------------------------
(***************************************************************************)
(* The loop                                                                *)
(***************************************************************************)
LEMMA LoopStep ==
  ASSUME TypeOK, ReaderProtected, ArmedIsCurrent, LoopAgrees, PopIsOneCall, [Next]_vars
  PROVE  LoopAgrees'
  <1> USE DEF LoopAgrees, RingEmpty
  <1>1. CASE UNCHANGED <<readAt, writeAt, phase, running, loopActive>>
    BY <1>1, Zenon
  <1>2. ASSUME NEW alarm, NEW accepted, AlarmFires(alarm, accepted)
        PROVE  LoopAgrees'
    <2>1. loopActive /\ UNCHANGED <<phase, running, loopActive>>
      BY <1>2 DEF AlarmFires, Armed, ArmedIsCurrent, passVars, transportVars, loopVars
    <2> QED
      BY <2>1, Zenon
  <1>3. CASE PopRelease
    <2>1. phase = "process"
      BY <1>3 DEF PopRelease, PopIsOneCall, PopAllowed
    <2>2. loopActive
      BY <1>3, Zenon DEF PopRelease, ReaderProtected
    <2>3. UNCHANGED <<phase, loopActive>>
      BY <1>3, Zenon DEF PopRelease, loopVars
    <2> QED
      BY <2>1, <2>2, <2>3
  <1>4. CASE SafetyStop \/ EndProcess
    BY <1>4, Zenon DEF SafetyStop, EndProcess, ringVars, loopVars
  <1>5. CASE \/ \E b \in Tempos : StartByCommand(b) \/ SetTempo(b)
             \/ StartByButton \/ StopTransport \/ NoInput
    <2>1. phase' # "command" /\ UNCHANGED <<readAt, writeAt, loopActive>>
      BY <1>5 DEF StartByCommand, SetTempo, StartByButton, StopTransport, NoInput,
                  Undisturbed, ringVars, loopVars
    <2> QED
      BY <2>1, Zenon
  <1>6. CASE \/ \E stillFires, accepted \in BOOLEAN : SyncStart(stillFires, accepted)
             \/ SyncTempo
    <2>1. running /\ running' = running
      BY <1>6, Zenon DEF SyncStart, SyncTempo, NextIteration, transportVars
    <2>2. loopActive' = TRUE \/ (loopActive /\ loopActive' = loopActive)
      BY <1>6, Zenon DEF SyncStart, SyncTempo
    <2>3. running' /\ loopActive'
      BY <2>1, <2>2
    <2>4. running \in BOOLEAN /\ loopActive \in BOOLEAN
      BY DEF TypeOK
    <2> QED
      BY <2>1, <2>2, <2>3, <2>4
  <1>8. CASE \E stillFires \in BOOLEAN : SyncStop(stillFires)
    <2>1. /\ running \in BOOLEAN /\ ~running /\ running' = running
          /\ loopActive' = FALSE /\ readAt' = writeAt'
      BY <1>8, Zenon DEF SyncStop, NextIteration, transportVars, TypeOK, Discarded
    <2>2. running = FALSE
      BY <2>1
    <2> QED
      BY <2>1, <2>2
  <1>9. CASE SyncNothing
    BY <1>9 DEF SyncNothing, NextIteration, transportVars, ringVars, loopVars
  <1>7. CASE \/ \E alarm \in timers : StaleAlarm(alarm)
             \/ TimePasses \/ PopLoad
    BY <1>1, <1>7 DEF StaleAlarm, TimePasses, PopLoad, ringVars, passVars, transportVars,
                      loopVars
  <1> QED
    BY <1>1, <1>2, <1>3, <1>4, <1>5, <1>6, <1>7, <1>8, <1>9, Zenon
       DEF Next, Interrupt, Loop, vars, ringVars, passVars, transportVars, loopVars

-----------------------------------------------------------------------------
(***************************************************************************)
(* Theorems                                                                *)
(***************************************************************************)
THEOREM Invariance == Spec => []Inv
  <1>1. Inv /\ [Next]_vars => Inv'
    BY TypeStep, GridStep, ReaderStep, ArmedStep, LoopStep DEF Inv
  <1> QED
    BY InitInv, <1>1, PTL DEF Spec

(* Every variable keeps its type, and a pass its limit of ticks.           *)
THEOREM TypeCorrect == Spec => []TypeOK
  <1>1. Inv => TypeOK
    BY DEF Inv
  <1> QED
    BY <1>1, Invariance, PTL

(* The grid of a tempo never drifts, however late, refused or stale the    *)
(* alarms were (InternalTickSource::nextPeriodUs, advancePeriods).         *)
THEOREM GridNeverDrifts == Spec => []GridExact
  <1>1. Inv => GridExact
    BY DEF Inv
  <1> QED
    BY <1>1, Invariance, PTL

(* The armed alarm is the source's own next target, and the source is      *)
(* active only while it is armed (PicoInternalTickAlarm).                  *)
THEOREM OneAlarm == Spec => []ArmedIsCurrent
  <1>1. Inv => ArmedIsCurrent
    BY DEF Inv
  <1> QED
    BY <1>1, Invariance, PTL

(* The interrupt never overwrites the record the loop is copying           *)
(* (TransportTickStore::publish and pop).                                  *)
THEOREM RingIsSafe == Spec => []ReaderProtected
  <1>1. Inv => ReaderProtected
    BY DEF Inv
  <1> QED
    BY <1>1, Invariance, PTL

(* An iteration that begins with the transport stopped finds no tick, no   *)
(* active source and no armed alarm (Application::syncInternalAlarm).      *)
THEOREM StoppedIsQuiet == Spec => []QuietWhenStopped
  <1>1. Inv => QuietWhenStopped
    <2> SUFFICES ASSUME Inv, phase = "command", ~running
                 PROVE  RingEmpty /\ ~active /\ ~armed
      BY Zenon DEF QuietWhenStopped
    <2>1. ~loopActive
      BY Zenon DEF Inv, LoopAgrees
    <2> QED
      BY <2>1, Zenon DEF Inv, LoopAgrees, ArmedIsCurrent
  <1> QED
    BY <1>1, Invariance, PTL

(* The multiplications by which the grid accounts for a late alarm.        *)
LEMMA AlarmFindsFirst ==
  ASSUME TypeOK, GridExact, NEW alarm, NEW accepted, AlarmFires(alarm, accepted)
  PROVE  /\ deadline' > now
         /\ deadline' = TargetTime(target')
         /\ target' = target + 1 \/ TargetTime(target' - 1) <= now
  <1> DEFINE d == Denominator(bpm)
             period == NextPeriod(bpm, fraction)
             carried == NextFraction(bpm, fraction)
             next == deadline + period
             skip == Skip(now - next)
  <1>1. bpm \in Tempos /\ fraction \in Nat /\ deadline \in Nat /\ origin \in Nat
        /\ target \in Nat /\ now \in Nat
    BY DEF TypeOK
  <1>2. d \in Nat \ {0} /\ Minute \in Nat \ {0} /\ fraction < d
    BY <1>1, DenominatorPositive, TicksAssumption DEF TicksAssumption, GridExact
  <1>3. /\ period \in Nat /\ carried \in Nat /\ carried < d
        /\ d * period + carried = Minute + fraction
    BY <1>1, <1>2, PeriodExact
  <1>4. /\ deadline' = IF skip = 0 THEN next ELSE next + AdvanceBy(bpm, carried, skip)
        /\ target' = target + 1 + skip
    BY DEF AlarmFires
  <1>5. d * (deadline - origin) + fraction = target * Minute
    BY DEF GridExact
  <1>6. /\ fraction' \in Nat /\ fraction' < d /\ deadline' \in Nat /\ target' \in Nat
        /\ d * (deadline' - origin) + fraction' = target' * Minute
    BY AlarmMovesGrid
  <1>7. deadline' = TargetTime(target')
    <2> DEFINE q == deadline' - origin
               r == fraction'
               x == target' * Minute
    <2>1. q \in Int /\ r \in 0 .. d - 1 /\ x \in Int /\ x = d * q + r
      BY <1>1, <1>2, <1>6
    <2>2. TargetTime(target') = origin + (x \div d)
      BY DEF TargetTime
    <2> HIDE DEF q, r, x, d
    <2>3. deadline' = origin + q
      <3>1. deadline' \in Int /\ origin \in Int
        BY <1>1, <1>6
      <3>2. \A a, b \in Int : a = b + (a - b)
        OBVIOUS
      <3> QED
        BY <3>1, <3>2, Zenon DEF q
    <2>4. x \div d = q
      BY <1>2, <2>1
    <2> QED
      BY <2>2, <2>3, <2>4
  <1>8. CASE ~(now - next >= 0)
    <2>1. skip = 0
      BY <1>8 DEF Skip
    <2>2. deadline' = next /\ target' = target + 1
      BY <1>1, <1>4, <2>1
    <2>3. next > now
      BY <1>1, <1>3, <1>8
    <2> QED
      BY <1>7, <2>2, <2>3
  <1>9. CASE now - next >= 0
    <2> DEFINE e == now - next
               by == AdvanceBy(bpm, carried, skip)
    <2>0. e \in Nat
      BY <1>1, <1>3, <1>9
    <2>1. /\ skip = DuePeriods(bpm, carried, e)
          /\ skip \in Nat \ {0}
          /\ (e + 1) * d <= skip * Minute + carried
          /\ (skip - 1) * Minute + carried < (e + 1) * d
      BY <1>1, <1>3, <1>9, <2>0, DueExact DEF Skip
    <2>2. by = (skip * Minute + carried) \div d
      BY DEF AdvanceBy
    <2> HIDE DEF skip, carried, period, d, e, by
    <2>3. skip * Minute + carried \in Int
      BY <1>2, <1>3, <2>1
    <2>4. by \in Int /\ e + 1 <= by
      <3> DEFINE x == skip * Minute + carried
      <3>1. x \in Int /\ d \in Nat \ {0} /\ e + 1 \in Int /\ (e + 1) * d <= x
        BY <1>2, <2>0, <2>1, <2>3
      <3>2. by = x \div d
        BY <2>2
      <3> HIDE DEF x
      <3>3. x \div d \in Int
        BY <3>1
      <3>4. e + 1 <= x \div d
        BY <3>1, QuotientAtLeast
      <3> QED
        BY <3>2, <3>3, <3>4
    <2>5. deadline' = next + by
      BY <1>4, <2>1 DEF by
    <2>6. next = now - e
      BY <1>1, <1>3, <2>0 DEF e
    <2>7. deadline' > now
      BY <1>1, <1>3, <2>0, <2>4, <2>5, <2>6
    <2>8. TargetTime(target' - 1) <= now
      <3> DEFINE x == (target + skip) * Minute
                 m == now - origin + 1
      <3>1. target' - 1 = target + skip
        BY <1>1, <1>4, <2>1
      <3>2. x = target * Minute + Minute + (skip - 1) * Minute
        BY <1>1, <1>2, <2>1
      <3>3. x = d * (deadline - origin) + d * period + carried + (skip - 1) * Minute
        <4>1. /\ Minute \in Int /\ target * Minute \in Int /\ (skip - 1) * Minute \in Int
              /\ d * (deadline - origin) \in Int /\ d * period \in Int
              /\ fraction \in Int /\ carried \in Int
          BY <1>1, <1>2, <1>3, <2>1
        <4>2. Minute = d * period + carried - fraction
          BY <1>3, <4>1
        <4>3. target * Minute = d * (deadline - origin) + fraction
          BY <1>5
        <4> QED
          BY <3>2, <4>1, <4>2, <4>3
      <3>4. x < d * (deadline - origin) + d * period + (e + 1) * d
        BY <1>1, <1>2, <1>3, <2>0, <2>1, <3>3
      <3>5. d * (deadline - origin) + d * period + (e + 1) * d
              = (deadline - origin + period + e + 1) * d
        BY <1>1, <1>2, <1>3, <2>0
      <3>6. deadline - origin + period + e + 1 = m
        BY <1>1, <1>3, <2>0, <2>6
      <3>7. x < m * d /\ x \in Int /\ m \in Int
        BY <1>1, <1>2, <2>1, <3>4, <3>5, <3>6
      <3> HIDE DEF x, m
      <3>8. x \div d < m /\ x \div d \in Int
        BY <1>2, <3>7, QuotientBelow
      <3>9. TargetTime(target' - 1) = origin + (x \div d)
        BY <3>1 DEF TargetTime, x, d
      <3>10. m = now - origin + 1
        BY DEF m
      <3> QED
        BY <1>1, <3>8, <3>9, <3>10
    <2> QED
      BY <1>7, <2>7, <2>8
  <1> QED
    BY <1>8, <1>9

(* A late alarm skips exactly the targets that are due: the alarm is set   *)
(* for the first one after the present (InternalTickSource::duePeriods).   *)
THEOREM CatchUpIsExact == Spec => NextTargetIsFirst
  <1>1. Inv /\ [Next]_vars =>
          [\A alarm \in timers : AlarmFires(alarm, TRUE) =>
             /\ deadline' > now
             /\ deadline' = TargetTime(target')
             /\ target' = target + 1 \/ TargetTime(target' - 1) <= now]_vars
    BY AlarmFindsFirst, Zenon DEF Inv
  <1> QED
    BY <1>1, Invariance, PTL DEF Spec, NextTargetIsFirst
=============================================================================
