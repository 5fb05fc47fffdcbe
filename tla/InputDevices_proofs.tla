------------------------ MODULE InputDevices_proofs ------------------------
(***************************************************************************)
(* Proofs about InputDevices, for every word size, period, debounce time,  *)
(* long press and pass of the loop that the assumptions of poll() allow.   *)
(* Four invariants, one per part of a device:                              *)
(*                                                                         *)
(*   GridInv: the deadline is the next multiple of the period;             *)
(*                                                                         *)
(*   ContactInv: a candidate is pending exactly while the samples differ   *)
(*   from what the program knows, and its age is how long they have;       *)
(*                                                                         *)
(*   ButtonInv: what is left to tell of a press, and its age;              *)
(*                                                                         *)
(*   KnobInv: the counted steps are the quarter steps seen in a row.       *)
(*                                                                         *)
(* An age is compared through a clock that wraps, so each invariant that   *)
(* has one also says that it is far from a whole turn of the clock.  That  *)
(* rests on the grid: since the last sample no more than the phase passed. *)
(***************************************************************************)
EXTENDS InputDevices, SequenceTheorems, TLAPS

Word == 0 .. WordSize - 1

GridInv ==
  /\ now \in Word
  /\ deadline \in Word
  /\ phase \in 0 .. Period - 1
  /\ ScansKeepTheGrid

ContactInv ==
  /\ contact \in BOOLEAN /\ stable \in BOOLEAN /\ candidate \in BOOLEAN /\ sampled \in BOOLEAN
  /\ steady \in 0 .. Debounce
  /\ candidate <=> (sampled # stable)
  /\ candidate =>
       /\ since \in Word
       /\ Elapsed(since, now) < Debounce + phase
       /\ steady = AtMost(Elapsed(since, now), Debounce)

Click == <<"Pressed", "Clicked", "Released">>
Long == <<"Pressed", "LongPressed", "Released">>

ButtonInv ==
  /\ pressed \in BOOLEAN /\ longSent \in BOOLEAN
  /\ held \in 0 .. LongPress
  /\ pressed => stable
  /\ pressed /\ ~longSent =>
       /\ gesture = <<"Pressed">>
       /\ pressedAt \in Word
       /\ Elapsed(pressedAt, now) < LongPress + phase
       /\ held = AtMost(Elapsed(pressedAt, now), LongPress)
  /\ pressed /\ longSent => gesture = <<"Pressed", "LongPressed">> /\ held = LongPress
  /\ ~pressed =>
       \/ gesture = <<>>
       \/ gesture = Click /\ held < LongPress
       \/ gesture = Long /\ held = LongPress

(* Quarter steps in a row before the next sample.                          *)
Before == IF run \in {-4, 4} THEN 0 ELSE run

KnobInv ==
  /\ seen \in 0 .. 3
  /\ moved \in -2 .. 2
  /\ knob = (seen + moved) % 4
  /\ run \in -4 .. 4
  /\ direction \in {-1, 0, 1}
  /\ steps = IF Before < 0 THEN -Before ELSE Before
  /\ Before > 0 => direction = 1
  /\ Before < 0 => direction = -1
  /\ report \in {-1, 0, 1}
  /\ KnobReportsTurns

DeviceInv == GridInv /\ ContactInv /\ ButtonInv /\ KnobInv

-----------------------------------------------------------------------------
(***************************************************************************)
(* Arithmetic of the wrapping clock                                        *)
(***************************************************************************)
(* Quotient and remainder are the only numbers of their kind.              *)
LEMMA DivisionUnique ==
  ASSUME NEW x \in Int, NEW d \in Nat \ {0}, NEW q \in Int, NEW r \in 0 .. d - 1,
         x = d * q + r
  PROVE  x \div d = q /\ x % d = r
  OBVIOUS

LEMMA Division ==
  ASSUME NEW x \in Nat, NEW d \in Nat \ {0}
  PROVE  /\ x \div d \in Nat
         /\ x % d \in 0 .. d - 1
         /\ x = d * (x \div d) + (x % d)
  OBVIOUS

(* What is less than a turn away from 0 .. d - 1.                          *)
LEMMA Wrapped ==
  ASSUME NEW d \in Nat \ {0}, NEW x \in Int, -d <= x, x < 2 * d
  PROVE  x % d = IF x < 0 THEN x + d ELSE IF x < d THEN x ELSE x - d
  <1>1. CASE x < 0
    <2>1. x + d \in 0 .. d - 1 /\ x = d * (-1) + (x + d)
      BY <1>1
    <2> QED
      BY <1>1, <2>1, DivisionUnique
  <1>2. CASE x >= 0 /\ x < d
    <2>1. x \in 0 .. d - 1 /\ x = d * 0 + x
      BY <1>2
    <2> QED
      BY <1>2, <2>1, DivisionUnique
  <1>3. CASE x >= d
    <2>1. x - d \in 0 .. d - 1 /\ x = d * 1 + (x - d)
      BY <1>3
    <2> QED
      BY <1>3, <2>1, DivisionUnique
  <1> QED
    BY <1>1, <1>2, <1>3

(* The constants, as the provers want them.                                *)
LEMMA Sizes ==
  /\ WordSize \in Nat \ {0} /\ Period \in Nat \ {0} /\ MaxGap \in Nat \ {0} /\ HalfRange \in Nat
  /\ Debounce \in Nat \ {0} /\ LongPress \in Nat \ {0}
  /\ 2 * HalfRange <= WordSize
  /\ Period < HalfRange /\ MaxGap < HalfRange
  /\ Debounce + Period + MaxGap < WordSize
  /\ LongPress + Period + MaxGap < WordSize
  /\ MaxTurn \in 1 .. 2
  <1>1. WordSize \in Nat /\ 2 \in Nat \ {0}
    BY DevicesAssumption DEF DevicesAssumption
  <1>2. HalfRange \in Nat /\ 2 * HalfRange <= WordSize
    BY <1>1, Division DEF HalfRange
  <1> QED
    BY <1>1, <1>2, DevicesAssumption DEF DevicesAssumption

(* An age is a word, and 0 at its start.                                   *)
LEMMA ElapsedIsWord ==
  ASSUME NEW from \in Word, NEW to \in Word
  PROVE  /\ Elapsed(from, to) \in Word
         /\ Elapsed(from, to) = IF to < from THEN to - from + WordSize ELSE to - from
  <1>1. to - from \in Int /\ -WordSize <= to - from /\ to - from < WordSize
    BY Sizes DEF Word
  <1>2. (to - from) % WordSize = IF to - from < 0 THEN to - from + WordSize ELSE to - from
    BY <1>1, Wrapped, Sizes
  <1> QED
    BY <1>1, <1>2, Sizes DEF Word, Elapsed

(* The clock of the next pass is a word.                                   *)
LEMMA LaterIsWord ==
  ASSUME NEW time \in Word, NEW gap \in Nat, gap < WordSize
  PROVE  /\ (time + gap) % WordSize \in Word
         /\ (time + gap) % WordSize = IF time + gap < WordSize THEN time + gap ELSE time + gap - WordSize
  <1>1. time + gap \in Int /\ 0 <= time + gap /\ -WordSize <= time + gap /\ time + gap < 2 * WordSize
    BY Sizes DEF Word
  <1>2. ~(time + gap < 0)
    BY <1>1
  <1>3. (time + gap) % WordSize = IF time + gap < WordSize THEN time + gap ELSE (time + gap) - WordSize
    <2> DEFINE sum == time + gap
    <2>1. sum \in Int /\ -WordSize <= sum /\ sum < 2 * WordSize /\ ~(sum < 0)
      BY <1>1, <1>2
    <2> HIDE DEF sum
    <2>2. sum % WordSize = IF sum < 0 THEN sum + WordSize
                           ELSE IF sum < WordSize THEN sum ELSE sum - WordSize
      BY <2>1, Wrapped, Sizes
    <2>3. sum % WordSize = IF sum < WordSize THEN sum ELSE sum - WordSize
      BY <2>1, <2>2
    <2> QED
      BY <2>3, Zenon DEF sum
  <1> QED
    BY <1>1, <1>3, Sizes DEF Word

(* An age grows by the gap as long as it stays below a turn of the clock.  *)
LEMMA ElapsedGrows ==
  ASSUME NEW from \in Word, NEW to \in Word, NEW gap \in Nat,
         Elapsed(from, to) + gap < WordSize
  PROVE  Elapsed(from, (to + gap) % WordSize) = Elapsed(from, to) + gap
  <1> DEFINE later == (to + gap) % WordSize
  <1>1. /\ Elapsed(from, to) \in Word
        /\ Elapsed(from, to) = IF to < from THEN to - from + WordSize ELSE to - from
    BY ElapsedIsWord
  <1>2. gap < WordSize
    BY <1>1, Sizes DEF Word
  <1>3. later \in Word /\ later = IF to + gap < WordSize THEN to + gap ELSE to + gap - WordSize
    BY <1>2, LaterIsWord
  <1> HIDE DEF later
  <1>4. Elapsed(from, later) = IF later < from THEN later - from + WordSize ELSE later - from
    BY <1>3, ElapsedIsWord
  <1>5. Elapsed(from, later) = Elapsed(from, to) + gap
    BY <1>1, <1>3, <1>4, Sizes DEF Word
  <1> QED
    BY <1>5 DEF later

-----------------------------------------------------------------------------
(***************************************************************************)
(* The scheduler                                                           *)
(***************************************************************************)
(* A poll before the deadline brings it nearer and is not due; from the    *)
(* deadline on a poll is due, as late as it is.                            *)
LEMMA PollOnGrid ==
  ASSUME GridInv, NEW gap \in 1 .. MaxGap
  PROVE  LET later == (now + gap) % WordSize
         IN  /\ later \in Word
             /\ Due(later) <=> phase + gap >= Period
             /\ Due(later) => Elapsed(deadline, later) = phase + gap - Period
             /\ ~Due(later) => Elapsed(later, deadline) = Period - (phase + gap)
  <1> DEFINE later == (now + gap) % WordSize
  <1>0. gap \in Nat \ {0} /\ gap <= MaxGap /\ gap < WordSize /\ now \in Word /\ deadline \in Word
    BY Sizes DEF GridInv
  <1>1. later \in Word /\ later = IF now + gap < WordSize THEN now + gap ELSE now + gap - WordSize
    BY <1>0, LaterIsWord
  <1> HIDE DEF later
  <1>2. Elapsed(now, deadline) = IF deadline < now THEN deadline - now + WordSize ELSE deadline - now
    BY <1>0, ElapsedIsWord
  <1>3. Elapsed(now, deadline) = Period - phase /\ phase \in 0 .. Period - 1
    BY DEF GridInv, ScansKeepTheGrid
  <1>4. Elapsed(deadline, later) = IF later < deadline THEN later - deadline + WordSize ELSE later - deadline
    BY <1>0, <1>1, ElapsedIsWord
  <1>5. Elapsed(later, deadline) = IF deadline < later THEN deadline - later + WordSize ELSE deadline - later
    BY <1>0, <1>1, ElapsedIsWord
  <1>6. CASE phase + gap >= Period
    <2>1. Elapsed(deadline, later) = phase + gap - Period
      BY <1>0, <1>1, <1>2, <1>3, <1>4, <1>6, Sizes DEF Word
    <2>2. Due(later)
      BY <1>0, <1>3, <2>1, Sizes DEF Due
    <2> QED
      BY <1>1, <1>6, <2>1, <2>2 DEF later
  <1>7. CASE phase + gap < Period
    <2>1. Elapsed(deadline, later) = WordSize - (Period - (phase + gap))
      BY <1>0, <1>1, <1>2, <1>3, <1>4, <1>7, Sizes DEF Word
    <2>2. ~Due(later)
      BY <1>0, <1>3, <1>7, <2>1, Sizes DEF Due
    <2>3. Elapsed(later, deadline) = Period - (phase + gap)
      BY <1>0, <1>1, <1>2, <1>3, <1>5, <1>7, Sizes DEF Word
    <2> QED
      BY <1>0, <1>1, <1>3, <1>7, <2>2, <2>3, Sizes DEF later
  <1> QED
    BY <1>0, <1>3, <1>6, <1>7, Sizes

(* The deadline after a due poll is the first multiple of the period that  *)
(* lies ahead, however many were missed.                                   *)
LEMMA NextOnGrid ==
  ASSUME GridInv, NEW gap \in 1 .. MaxGap, Due((now + gap) % WordSize)
  PROVE  LET later == (now + gap) % WordSize
         IN  /\ NextDeadline(later) \in Word
             /\ (phase + gap) % Period \in 0 .. Period - 1
             /\ Elapsed(later, NextDeadline(later)) = Period - ((phase + gap) % Period)
  <1> DEFINE later == (now + gap) % WordSize
             late == phase + gap - Period
             missed == late \div Period
             past == late % Period
             ahead == Period - past
  <1>0. /\ gap \in Nat \ {0} /\ gap <= MaxGap /\ phase \in 0 .. Period - 1
        /\ now \in Word /\ deadline \in Word
    BY Sizes DEF GridInv
  <1>1. later \in Word /\ Elapsed(deadline, later) = late /\ late \in Nat
    BY <1>0, PollOnGrid, Sizes
  <1>2. late < HalfRange
    BY <1>0, Sizes
  <1>3. missed \in Nat /\ past \in 0 .. Period - 1 /\ late = Period * missed + past
    BY <1>1, Division, Sizes
  <1>4. (phase + gap) % Period = past
    <2>1. phase + gap = late + Period /\ phase + gap \in Int
      BY <1>0, Sizes
    <2>2. phase + gap = Period * (missed + 1) + past /\ missed + 1 \in Int
      BY <1>3, <2>1, Sizes
    <2> QED
      BY <1>3, <2>1, <2>2, DivisionUnique, Sizes
  <1>5. (Elapsed(deadline, later) \div Period + 1) * Period = late + ahead
    <2>1. (missed + 1) * Period = Period * missed + Period
      BY <1>3, Sizes
    <2> QED
      BY <1>1, <1>3, <2>1, Sizes
  <1>6. NextDeadline(later) = (deadline + (late + ahead)) % WordSize
    BY <1>5 DEF NextDeadline
  <1>7. ahead \in 1 .. Period
    BY <1>3, Sizes
  <1>8. Elapsed(deadline, later) = IF later < deadline THEN later - deadline + WordSize ELSE later - deadline
    BY <1>0, <1>1, ElapsedIsWord
  <1> HIDE DEF later, late, missed, past, ahead
  <1>9. late + ahead \in Nat /\ late + ahead < WordSize
    BY <1>1, <1>2, <1>7, Sizes
  <1>10. /\ NextDeadline(later) \in Word
         /\ NextDeadline(later) = IF deadline + (late + ahead) < WordSize THEN deadline + (late + ahead)
                                  ELSE deadline + (late + ahead) - WordSize
    BY <1>0, <1>6, <1>9, LaterIsWord
  <1>11. Elapsed(later, NextDeadline(later))
           = IF NextDeadline(later) < later THEN NextDeadline(later) - later + WordSize
             ELSE NextDeadline(later) - later
    BY <1>1, <1>10, ElapsedIsWord
  <1>12. Elapsed(later, NextDeadline(later)) = ahead
    <2> DEFINE next == NextDeadline(later)
               age == Elapsed(later, next)
    <2>1. /\ later \in Int /\ 0 <= later /\ later < WordSize
          /\ deadline \in Int /\ 0 <= deadline /\ deadline < WordSize
          /\ next \in Int /\ 0 <= next /\ next < WordSize
          /\ late \in Nat /\ ahead \in Nat /\ 0 < ahead /\ late + ahead < WordSize
      BY <1>0, <1>1, <1>7, <1>9, <1>10, Sizes DEF Word
    <2>2. late = IF later < deadline THEN later - deadline + WordSize ELSE later - deadline
      BY <1>1, <1>8
    <2>3. next = IF deadline + (late + ahead) < WordSize THEN deadline + (late + ahead)
                 ELSE deadline + (late + ahead) - WordSize
      BY <1>10
    <2>4. age = IF next < later THEN next - later + WordSize ELSE next - later
      BY <1>11
    <2> HIDE DEF next, age
    <2>5. age = ahead
      BY <2>1, <2>2, <2>3, <2>4, Sizes
    <2> QED
      BY <2>5 DEF next, age
  <1> QED
    BY <1>3, <1>4, <1>10, <1>12 DEF later, ahead

LEMMA GridSample ==
  ASSUME GridInv, NEW gap \in 1 .. MaxGap, Sample(gap)
  PROVE  GridInv' /\ phase + gap >= Period
  <1>1. /\ now' = (now + gap) % WordSize
        /\ phase' = (phase + gap) % Period
        /\ Due(now') /\ deadline' = NextDeadline(now')
    BY DEF Sample, Clock
  <1>2. now' \in Word /\ phase + gap >= Period
    BY <1>1, PollOnGrid
  <1>3. deadline' \in Word /\ phase' \in 0 .. Period - 1 /\ Elapsed(now', deadline') = Period - phase'
    BY <1>1, NextOnGrid
  <1>4. ScansKeepTheGrid'
    BY <1>3 DEF ScansKeepTheGrid, Elapsed
  <1> QED
    BY <1>2, <1>3, <1>4 DEF GridInv, Word

LEMMA GridNoSample ==
  ASSUME GridInv, NEW gap \in 1 .. MaxGap, NoSample(gap)
  PROVE  GridInv' /\ phase' = phase + gap
  <1>1. /\ now' = (now + gap) % WordSize
        /\ phase' = (phase + gap) % Period
        /\ ~Due(now') /\ deadline' = deadline
    BY DEF NoSample, Clock
  <1>2. now' \in Word /\ phase + gap < Period /\ Elapsed(now', deadline) = Period - (phase + gap)
    <2>1. now' \in Word /\ ~(phase + gap >= Period) /\ Elapsed(now', deadline) = Period - (phase + gap)
      BY <1>1, PollOnGrid
    <2> QED
      BY <2>1, Sizes DEF GridInv
  <1>3. phase' = phase + gap
    <2>1. phase + gap \in Int /\ 0 <= phase + gap
      BY Sizes DEF GridInv
    <2>2. (phase + gap) % Period = phase + gap
      BY <1>2, <2>1, Wrapped, Sizes
    <2> QED
      BY <1>1, <2>2
  <1>4. ScansKeepTheGrid'
    BY <1>1, <1>2, <1>3 DEF ScansKeepTheGrid, Elapsed
  <1> QED
    BY <1>1, <1>2, <1>3, <1>4, Sizes DEF GridInv, Word

-----------------------------------------------------------------------------
(***************************************************************************)
(* The contact                                                             *)
(***************************************************************************)
(* A pass that ages a time by its gap: the age has not come round, and     *)
(* capped at "limit" it grows like a counter capped there.                 *)
LEMMA AgeOfPass ==
  ASSUME GridInv, NEW gap \in 1 .. MaxGap, NEW from \in Word, NEW limit \in Nat \ {0},
         limit + Period + MaxGap < WordSize,
         Elapsed(from, now) < limit + phase,
         now' = (now + gap) % WordSize
  PROVE  /\ Elapsed(from, now') = Elapsed(from, now) + gap
         /\ Elapsed(from, now) \in Nat
         /\ AtMost(AtMost(Elapsed(from, now), limit) + gap, limit) = AtMost(Elapsed(from, now'), limit)
  <1>1. Elapsed(from, now) \in Nat
    BY ElapsedIsWord DEF GridInv, Word
  <1>2. gap \in Nat \ {0} /\ Elapsed(from, now) + gap < WordSize
    BY <1>1, Sizes DEF GridInv
  <1>3. Elapsed(from, now') = Elapsed(from, now) + gap
    BY <1>2, ElapsedGrows DEF GridInv
  <1> QED
    BY <1>1, <1>2, <1>3 DEF AtMost

LEMMA SumPositive ==
  ASSUME NEW a \in Nat \ {0}, NEW b \in Nat
  PROVE  0 < a + b
  OBVIOUS

(* The age of the candidate at this pass's sample, when there is one.      *)
LEMMA CandidateAge ==
  ASSUME GridInv, ContactInv, candidate, NEW gap \in 1 .. MaxGap, now' = (now + gap) % WordSize
  PROVE  /\ Elapsed(since, now') \in Nat
         /\ Elapsed(since, now') = Elapsed(since, now) + gap
         /\ AtMost(steady + gap, Debounce) = AtMost(Elapsed(since, now'), Debounce)
  <1>1. /\ since \in Word /\ Elapsed(since, now) < Debounce + phase
        /\ steady = AtMost(Elapsed(since, now), Debounce)
    BY DEF ContactInv
  <1> QED
    BY <1>1, AgeOfPass, Sizes

(* A change is confirmed exactly when the samples, this one included, have *)
(* read it for the debounce time.                                          *)
LEMMA ConfirmedIsSteady ==
  ASSUME GridInv, ContactInv, NEW gap \in 1 .. MaxGap, now' = (now + gap) % WordSize
  PROVE  Confirmed(now') <=> /\ contact # stable
                             /\ contact = sampled
                             /\ AtMost(steady + gap, Debounce) = Debounce
  <1>1. CASE candidate
    <2>1. Confirmed(now') <=> contact # stable /\ Elapsed(since, now') >= Debounce
      BY <1>1 DEF Confirmed, CandidateSince
    <2>2. Elapsed(since, now') >= Debounce <=> AtMost(steady + gap, Debounce) = Debounce
      BY <1>1, CandidateAge, Sizes DEF AtMost
    <2>3. contact # stable => contact = sampled
      BY <1>1 DEF ContactInv
    <2> QED
      BY <2>1, <2>2, <2>3
  <1>2. CASE ~candidate
    <2>1. Confirmed(now') <=> contact # stable /\ Elapsed(now', now') >= Debounce
      BY <1>2 DEF Confirmed, CandidateSince
    <2>2. now' \in Word
      BY PollOnGrid
    <2>3. Elapsed(now', now') = 0
      BY <2>2, ElapsedIsWord, Sizes DEF Word
    <2>4. ~Confirmed(now')
      BY <2>1, <2>3, Sizes
    <2>5. contact # stable => contact # sampled
      BY <1>2 DEF ContactInv
    <2> QED
      BY <2>4, <2>5
  <1> QED
    BY <1>1, <1>2

LEMMA ContactSample ==
  ASSUME GridInv, ContactInv, NEW gap \in 1 .. MaxGap, Sample(gap)
  PROVE  ContactInv'
  <1>1. now' = (now + gap) % WordSize /\ contact' = contact /\ sampled' = contact
    BY DEF Sample, Clock, Witness
  <1>2. steady' = IF contact = sampled THEN AtMost(steady + gap, Debounce) ELSE 0
    BY DEF Sample, Witness
  <1>3. /\ stable' = IF Confirmed(now') THEN contact ELSE stable
        /\ candidate' = (contact # stable /\ ~Confirmed(now'))
        /\ since' = IF candidate' THEN CandidateSince(now') ELSE 0
    BY DEF Sample, Observe
  <1>4. gap \in Nat /\ now' \in Word /\ phase' \in 0 .. Period - 1
    BY GridSample, Sizes DEF GridInv, Word
  <1>5. Confirmed(now') => contact # stable
    BY DEF Confirmed
  <1>6. /\ contact' \in BOOLEAN /\ stable' \in BOOLEAN /\ candidate' \in BOOLEAN /\ sampled' \in BOOLEAN
        /\ steady' \in 0 .. Debounce
        /\ candidate' <=> (sampled' # stable')
    <2>1. steady' \in 0 .. Debounce
      BY <1>2, <1>4, Sizes DEF ContactInv, AtMost
    <2>2. contact \in BOOLEAN /\ stable \in BOOLEAN
      BY DEF ContactInv
    <2>3. stable' \in BOOLEAN /\ candidate' \in BOOLEAN
      BY <1>3, <2>2
    <2>4. candidate' <=> (sampled' # stable')
      BY <1>1, <1>3, <1>5
    <2> QED
      BY <1>1, <2>1, <2>2, <2>3, <2>4
  <1>7. ASSUME candidate'
        PROVE  /\ since' \in Word
               /\ Elapsed(since', now') < Debounce + phase'
               /\ steady' = AtMost(Elapsed(since', now'), Debounce)
    <2>1. contact # stable /\ ~Confirmed(now') /\ since' = CandidateSince(now')
      BY <1>3, <1>7
    <2>2. CASE candidate
      <3>1. since' = since /\ since \in Word
        BY <2>1, <2>2 DEF CandidateSince, ContactInv
      <3>2. Elapsed(since, now') < Debounce
        BY <1>1, <2>1, <2>2, CandidateAge, Sizes DEF Confirmed, CandidateSince
      <3>3. contact = sampled
        BY <2>1, <2>2 DEF ContactInv
      <3>4. steady' = AtMost(Elapsed(since, now'), Debounce)
        BY <1>1, <1>2, <2>2, <3>3, CandidateAge
      <3>5. Elapsed(since, now') < Debounce + phase'
        BY <1>1, <1>4, <2>2, <3>2, CandidateAge, Sizes
      <3> QED
        BY <3>1, <3>4, <3>5
    <2>3. CASE ~candidate
      <3>1. since' = now'
        BY <2>1, <2>3 DEF CandidateSince
      <3>2. Elapsed(now', now') = 0
        BY <1>4, ElapsedIsWord, Sizes DEF Word
      <3>3. contact # sampled
        BY <2>1, <2>3 DEF ContactInv
      <3>4. steady' = 0
        BY <1>2, <3>3
      <3>5. 0 < Debounce + phase'
        <4>1. phase' \in Nat /\ Debounce \in Nat \ {0}
          BY <1>4, Sizes
        <4> QED
          BY <4>1, SumPositive
      <3>7. AtMost(0, Debounce) = 0
        BY Sizes DEF AtMost
      <3>6. Elapsed(since', now') = 0
        BY <3>1, <3>2
      <3> QED
        BY <1>4, <3>1, <3>4, <3>5, <3>6, <3>7
    <2> QED
      BY <2>2, <2>3
  <1> QED
    BY <1>6, <1>7 DEF ContactInv, Word, Elapsed, AtMost

LEMMA ContactNoSample ==
  ASSUME GridInv, ContactInv, NEW gap \in 1 .. MaxGap, NoSample(gap)
  PROVE  ContactInv'
  <1>1. /\ now' = (now + gap) % WordSize
        /\ steady' = AtMost(steady + gap, Debounce)
        /\ UNCHANGED <<contact, stable, candidate, since, sampled>>
    BY DEF NoSample, Clock, buttonVars
  <1>2. phase' = phase + gap /\ gap \in Nat /\ phase \in Nat
    BY GridNoSample, Sizes DEF GridInv
  <1>3. steady' \in 0 .. Debounce
    BY <1>1, <1>2, Sizes DEF ContactInv, AtMost
  <1>4. ASSUME candidate
        PROVE  /\ since \in Word
               /\ Elapsed(since, now') < Debounce + phase'
               /\ steady' = AtMost(Elapsed(since, now'), Debounce)
    <2>1. since \in Word /\ Elapsed(since, now) < Debounce + phase
      BY <1>4 DEF ContactInv
    <2>2. /\ Elapsed(since, now') = Elapsed(since, now) + gap
          /\ Elapsed(since, now') \in Nat
          /\ steady' = AtMost(Elapsed(since, now'), Debounce)
      BY <1>1, <1>4, CandidateAge
    <2>3. Elapsed(since, now) \in Nat
      BY <2>1, ElapsedIsWord DEF GridInv, Word
    <2> QED
      BY <1>2, <2>1, <2>2, <2>3, Sizes
  <1> QED
    BY <1>1, <1>3, <1>4 DEF ContactInv, Word, Elapsed, AtMost

-----------------------------------------------------------------------------
(***************************************************************************)
(* The button                                                              *)
(***************************************************************************)
LEMMA Gestures ==
  /\ Append(<<"Pressed">>, "LongPressed") = <<"Pressed", "LongPressed">>
  /\ <<"Pressed">> \o <<"LongPressed", "Released">> = Long
  /\ <<"Pressed">> \o <<"Clicked", "Released">> = Click
  /\ <<"Pressed", "LongPressed">> \o <<"Released">> = Long
  /\ <<"Pressed">> # <<>> /\ <<"Pressed">> # Click /\ <<"Pressed">> # Long
  /\ <<"Pressed">> # <<"Pressed", "LongPressed">>
  <1> DEFINE Phases == {"Pressed", "LongPressed", "Clicked", "Released"}
  <1>0. /\ <<"Pressed">> \in Seq(Phases) /\ <<"LongPressed", "Released">> \in Seq(Phases)
        /\ <<"Clicked", "Released">> \in Seq(Phases) /\ <<"Pressed", "LongPressed">> \in Seq(Phases)
        /\ <<"Released">> \in Seq(Phases) /\ Long \in Seq(Phases) /\ Click \in Seq(Phases)
    BY DEF Long, Click
  <1> HIDE DEF Phases
  <1>1. Append(<<"Pressed">>, "LongPressed") = <<"Pressed", "LongPressed">>
    <2> DEFINE made == Append(<<"Pressed">>, "LongPressed")
    <2>1. "LongPressed" \in Phases
      BY DEF Phases
    <2>2. made \in Seq(Phases) /\ Len(made) = 2 /\ made[1] = "Pressed" /\ made[2] = "LongPressed"
      BY <1>0, <2>1, AppendProperties
    <2> HIDE DEF made
    <2>3. \A i \in 1 .. Len(made) : made[i] = <<"Pressed", "LongPressed">>[i]
      BY <2>2
    <2> QED
      BY <1>0, <2>2, <2>3, SeqEqual DEF made
  <1>2. <<"Pressed">> \o <<"LongPressed", "Released">> = Long
    <2> DEFINE made == <<"Pressed">> \o <<"LongPressed", "Released">>
    <2>1. made \in Seq(Phases) /\ Len(made) = 3
          /\ made[1] = "Pressed" /\ made[2] = "LongPressed" /\ made[3] = "Released"
      BY <1>0, ConcatProperties
    <2> HIDE DEF made
    <2>2. \A i \in 1 .. Len(made) : made[i] = Long[i]
      BY <2>1 DEF Long
    <2> QED
      BY <1>0, <2>1, <2>2, SeqEqual DEF made, Long
  <1>3. <<"Pressed">> \o <<"Clicked", "Released">> = Click
    <2> DEFINE made == <<"Pressed">> \o <<"Clicked", "Released">>
    <2>1. made \in Seq(Phases) /\ Len(made) = 3
          /\ made[1] = "Pressed" /\ made[2] = "Clicked" /\ made[3] = "Released"
      BY <1>0, ConcatProperties
    <2> HIDE DEF made
    <2>2. \A i \in 1 .. Len(made) : made[i] = Click[i]
      BY <2>1 DEF Click
    <2> QED
      BY <1>0, <2>1, <2>2, SeqEqual DEF made, Click
  <1>4. <<"Pressed", "LongPressed">> \o <<"Released">> = Long
    <2> DEFINE made == <<"Pressed", "LongPressed">> \o <<"Released">>
    <2>1. made \in Seq(Phases) /\ Len(made) = 3
          /\ made[1] = "Pressed" /\ made[2] = "LongPressed" /\ made[3] = "Released"
      BY <1>0, ConcatProperties
    <2> HIDE DEF made
    <2>2. \A i \in 1 .. Len(made) : made[i] = Long[i]
      BY <2>1 DEF Long
    <2> QED
      BY <1>0, <2>1, <2>2, SeqEqual DEF made, Long
  <1>5. Len(<<"Pressed">>) = 1 /\ Len(<<>>) = 0 /\ Len(Click) = 3 /\ Len(Long) = 3
    BY DEF Long, Click
  <1>6. Len(<<"Pressed", "LongPressed">>) = 2
    OBVIOUS
  <1> QED
    BY <1>1, <1>2, <1>3, <1>4, <1>5, <1>6

(* The age of the press at this pass's sample, before it was long.         *)
LEMMA PressAge ==
  ASSUME GridInv, ButtonInv, pressed, ~longSent, NEW gap \in 1 .. MaxGap, now' = (now + gap) % WordSize
  PROVE  /\ Elapsed(pressedAt, now') \in Nat
         /\ Elapsed(pressedAt, now') = Elapsed(pressedAt, now) + gap
         /\ Elapsed(pressedAt, now) \in Nat
         /\ AtMost(held + gap, LongPress) = AtMost(Elapsed(pressedAt, now'), LongPress)
  <1>1. /\ pressedAt \in Word /\ Elapsed(pressedAt, now) < LongPress + phase
        /\ held = AtMost(Elapsed(pressedAt, now), LongPress)
    BY DEF ButtonInv
  <1> QED
    BY <1>1, AgeOfPass, Sizes

(* A press that was told long stays as long as it can be told to be.       *)
LEMMA StaysLong ==
  ASSUME NEW gap \in Nat
  PROVE  AtMost(LongPress + gap, LongPress) = LongPress
  BY Sizes DEF AtMost

LEMMA ButtonNoSample ==
  ASSUME GridInv, ButtonInv, NEW gap \in 1 .. MaxGap, NoSample(gap)
  PROVE  ButtonInv'
  <1>1. /\ now' = (now + gap) % WordSize
        /\ held' = IF pressed THEN AtMost(held + gap, LongPress) ELSE held
        /\ UNCHANGED <<stable, pressed, pressedAt, longSent, gesture>>
    BY DEF NoSample, Clock, buttonVars
  <1>2. phase' = phase + gap /\ gap \in Nat /\ phase \in Nat
    BY GridNoSample, Sizes DEF GridInv
  <1>3. held' \in 0 .. LongPress
    BY <1>1, <1>2, Sizes DEF ButtonInv, AtMost
  <1>4. ASSUME pressed, ~longSent
        PROVE  /\ Elapsed(pressedAt, now') < LongPress + phase'
               /\ held' = AtMost(Elapsed(pressedAt, now'), LongPress)
    <2>1. Elapsed(pressedAt, now) < LongPress + phase
      BY <1>4 DEF ButtonInv
    <2>2. /\ Elapsed(pressedAt, now') = Elapsed(pressedAt, now) + gap
          /\ Elapsed(pressedAt, now) \in Nat
          /\ held' = AtMost(Elapsed(pressedAt, now'), LongPress)
      BY <1>1, <1>4, PressAge
    <2> QED
      BY <1>2, <2>1, <2>2, Sizes
  <1>5. pressed /\ longSent => held' = LongPress
    BY <1>1, <1>2, StaysLong DEF ButtonInv
  <1> QED
    BY <1>1, <1>3, <1>4, <1>5 DEF ButtonInv, Word, Elapsed, AtMost

(* A sample that confirms the press.                                       *)
LEMMA ButtonPressed ==
  ASSUME GridInv, ContactInv, ButtonInv, NEW gap \in 1 .. MaxGap, Sample(gap),
         Confirmed(now'), contact, OnPressed(now')
  PROVE  ButtonInv'
  <1>1. ~pressed
    BY DEF Confirmed, ButtonInv, ContactInv
  <1>2. stable' = contact /\ Held(gap)
    BY DEF Sample, Observe
  <1>3. pressed' = TRUE /\ pressedAt' = now' /\ longSent' = FALSE /\ gesture' = <<"Pressed">>
    BY DEF OnPressed
  <1>4. gesture # gesture'
    BY <1>1, <1>3, Gestures DEF ButtonInv
  <1>5. held' = 0
    BY <1>2, <1>3, <1>4 DEF Held
  <1>6. now' \in Word /\ phase' \in 0 .. Period - 1
    BY GridSample DEF GridInv, Word
  <1>7. Elapsed(now', now') = 0
    BY <1>6, ElapsedIsWord, Sizes DEF Word
  <1>8. 0 < LongPress + phase'
    <2>1. phase' \in Nat /\ LongPress \in Nat \ {0}
      BY <1>6, Sizes
    <2> QED
      BY <2>1, SumPositive
  <1>9. AtMost(0, LongPress) = 0 /\ 0 \in 0 .. LongPress
    BY Sizes DEF AtMost
  <1>10. Elapsed(pressedAt', now') = 0
    BY <1>3, <1>7
  <1>11. /\ pressedAt' \in Word
         /\ Elapsed(pressedAt', now') < LongPress + phase'
         /\ held' = AtMost(Elapsed(pressedAt', now'), LongPress)
    BY <1>3, <1>5, <1>6, <1>8, <1>9, <1>10
  <1>12. stable'
    BY <1>2
  <1> QED
    BY <1>3, <1>5, <1>9, <1>11, <1>12 DEF ButtonInv, Word, Elapsed, AtMost

(* A sample that finds the button held.                                    *)
LEMMA ButtonHeld ==
  ASSUME GridInv, ContactInv, ButtonInv, NEW gap \in 1 .. MaxGap, Sample(gap),
         ~Confirmed(now'), pressed, OnHeld(now')
  PROVE  ButtonInv'
  <1>1. now' = (now + gap) % WordSize /\ stable' = stable /\ Held(gap)
    BY DEF Sample, Clock, Observe
  <1>2. /\ longSent' = (longSent \/ HeldLong(now'))
        /\ gesture' = IF HeldLong(now') /\ ~longSent THEN Append(gesture, "LongPressed") ELSE gesture
        /\ pressed' = pressed /\ pressedAt' = pressedAt
    BY DEF OnHeld
  <1>3. gap \in Nat /\ phase' \in 0 .. Period - 1
    BY GridSample, Sizes DEF GridInv
  <1>4. ~(gesture' = <<"Pressed">> /\ gesture # gesture')
    <2>1. HeldLong(now') /\ ~longSent => gesture' = <<"Pressed", "LongPressed">>
      BY <1>2, Gestures DEF ButtonInv
    <2> QED
      BY <1>2, <2>1, Gestures
  <1>5. held' = AtMost(held + gap, LongPress)
    BY <1>1, <1>4 DEF Held
  <1>6. held' \in 0 .. LongPress
    BY <1>3, <1>5, Sizes DEF ButtonInv, AtMost
  <1>7. CASE longSent
    <2>1. held = LongPress /\ gesture = <<"Pressed", "LongPressed">> /\ longSent'
      BY <1>2, <1>7 DEF ButtonInv
    <2>2. held' = LongPress
      BY <1>3, <1>5, <2>1, StaysLong
    <2>3. gesture' = gesture /\ longSent' \in BOOLEAN
      BY <1>2, <1>7 DEF ButtonInv
    <2> QED
      BY <1>1, <1>2, <1>6, <2>1, <2>2, <2>3 DEF ButtonInv
  <1>8. CASE ~longSent
    <2>1. /\ gesture = <<"Pressed">> /\ pressedAt \in Word
          /\ Elapsed(pressedAt, now') \in Nat
          /\ held' = AtMost(Elapsed(pressedAt, now'), LongPress)
      BY <1>1, <1>5, <1>8, PressAge DEF ButtonInv
    <2>2. CASE HeldLong(now')
      <3>1. held' = LongPress
        BY <2>1, <2>2, Sizes DEF HeldLong, AtMost
      <3>2. gesture' = <<"Pressed", "LongPressed">> /\ longSent' = TRUE
        BY <1>2, <1>8, <2>1, <2>2, Gestures
      <3> QED
        BY <1>1, <1>2, <1>6, <3>1, <3>2 DEF ButtonInv
    <2>3. CASE ~HeldLong(now')
      <3>1. Elapsed(pressedAt, now') < LongPress
        BY <2>1, <2>3, Sizes DEF HeldLong
      <3>2. Elapsed(pressedAt, now') < LongPress + phase'
        BY <1>3, <2>1, <3>1, Sizes
      <3>3. gesture' = <<"Pressed">> /\ longSent' = FALSE
        BY <1>2, <1>8, <2>1, <2>3
      <3> QED
        BY <1>1, <1>2, <1>6, <2>1, <3>2, <3>3 DEF ButtonInv, Word, Elapsed, AtMost
    <2> QED
      BY <2>2, <2>3
  <1> QED
    BY <1>7, <1>8

(* A sample that confirms the release.                                     *)
LEMMA ButtonReleased ==
  ASSUME GridInv, ContactInv, ButtonInv, NEW gap \in 1 .. MaxGap, Sample(gap),
         Confirmed(now'), ~contact, pressed, OnReleased(now')
  PROVE  ButtonInv'
  <1>1. now' = (now + gap) % WordSize /\ Held(gap)
    BY DEF Sample, Clock
  <1>2. pressed' = FALSE /\ longSent' = FALSE /\ gesture' = gesture \o Ending(now')
    BY DEF OnReleased
  <1>3. gap \in Nat
    BY Sizes
  <1>4. ASSUME gesture' \in {Click, Long}
        PROVE  held' = AtMost(held + gap, LongPress) /\ held' \in 0 .. LongPress
    <2>1. held' = AtMost(held + gap, LongPress)
      BY <1>1, <1>4, Gestures DEF Held
    <2> QED
      BY <1>3, <2>1, Sizes DEF ButtonInv, AtMost
  <1>5. CASE longSent
    <2>1. gesture' = Long
      BY <1>2, <1>5, Gestures DEF ButtonInv, Ending
    <2>2. held' = LongPress
      BY <1>3, <1>4, <1>5, <2>1, StaysLong DEF ButtonInv
    <2> QED
      BY <1>2, <1>4, <2>1, <2>2 DEF ButtonInv, Long, Click
  <1>6. CASE ~longSent
    <2>1. /\ gesture = <<"Pressed">>
          /\ Elapsed(pressedAt, now') \in Nat
          /\ AtMost(held + gap, LongPress) = AtMost(Elapsed(pressedAt, now'), LongPress)
      BY <1>1, <1>6, PressAge DEF ButtonInv
    <2>2. CASE HeldLong(now')
      <3>1. gesture' = Long
        BY <1>2, <1>6, <2>1, <2>2, Gestures DEF Ending
      <3>2. held' = LongPress
        BY <1>4, <2>1, <2>2, <3>1, Sizes DEF HeldLong, AtMost
      <3> QED
        BY <1>2, <1>4, <3>1, <3>2 DEF ButtonInv, Long, Click
    <2>3. CASE ~HeldLong(now')
      <3>1. gesture' = Click
        BY <1>2, <1>6, <2>1, <2>3, Gestures DEF Ending
      <3>2. held' < LongPress
        BY <1>4, <2>1, <2>3, <3>1, Sizes DEF HeldLong, AtMost
      <3> QED
        BY <1>2, <1>4, <3>1, <3>2 DEF ButtonInv, Long, Click
    <2> QED
      BY <2>2, <2>3
  <1> QED
    BY <1>5, <1>6

(* A sample that has nothing to tell.                                      *)
LEMMA ButtonIdle ==
  ASSUME ButtonInv, NEW gap \in 1 .. MaxGap, Sample(gap),
         ~pressed, UNCHANGED <<pressed, pressedAt, longSent, gesture>>
  PROVE  ButtonInv'
  <1>1. Held(gap)
    BY DEF Sample
  <1>2. held' = held
    BY <1>1 DEF Held
  <1> QED
    BY <1>2 DEF ButtonInv

LEMMA ButtonSample ==
  ASSUME GridInv, ContactInv, ButtonInv, NEW gap \in 1 .. MaxGap, Sample(gap)
  PROVE  ButtonInv'
  <1>1. Adapt(now')
    BY DEF Sample
  <1> QED
    BY <1>1, ButtonPressed, ButtonHeld, ButtonReleased, ButtonIdle DEF Adapt

-----------------------------------------------------------------------------
(***************************************************************************)
(* The knob                                                                *)
(***************************************************************************)
(* The positions of a knob, by how far it turned since the last sample.    *)
LEMMA Quarters ==
  ASSUME NEW s \in 0 .. 3, NEW m \in -2 .. 2
  PROVE  /\ (s + m) % 4 \in 0 .. 3
         /\ (s + m) % 4 = s <=> m = 0
         /\ (((s + m) % 4) - s) % 4 = 1 <=> m = 1
         /\ (((s + m) % 4) - s) % 4 = 3 <=> m = -1
  <1>1. s + m \in -2 .. 5
    OBVIOUS
  <1>2. (s + m) % 4 = IF s + m < 0 THEN s + m + 4 ELSE IF s + m < 4 THEN s + m ELSE s + m - 4
    BY <1>1
  <1> DEFINE k == (s + m) % 4
  <1>3. k \in 0 .. 3 /\ (k - s = m \/ k - s = m + 4 \/ k - s = m - 4)
    BY <1>2
  <1> HIDE DEF k
  <1>4. (k - s) % 4 = IF k - s < 0 THEN k - s + 4 ELSE k - s
    BY <1>3
  <1> QED
    BY <1>3, <1>4 DEF k

LEMMA QuarterStep ==
  ASSUME NEW s \in 0 .. 3, NEW m \in -2 .. 2, NEW way \in {-1, 1}
  PROVE  (((s + m) % 4) + way) % 4 = (s + (m + way)) % 4
  OBVIOUS

LEMMA KnobSample ==
  ASSUME KnobInv, NEW gap \in 1 .. MaxGap, Sample(gap)
  PROVE  KnobInv'
  <1>1. Encoder /\ run' = InARow /\ moved' = 0 /\ knob' = knob
    BY DEF Sample, Witness
  <1>2. /\ seen \in 0 .. 3 /\ moved \in -2 .. 2 /\ knob = (seen + moved) % 4
        /\ run \in -4 .. 4 /\ direction \in {-1, 0, 1}
        /\ steps = IF Before < 0 THEN -Before ELSE Before
        /\ (Before > 0 => direction = 1) /\ (Before < 0 => direction = -1)
    BY DEF KnobInv
  <1>3. Before \in -3 .. 3
    BY <1>2 DEF Before
  <1>4. /\ knob \in 0 .. 3
        /\ knob = seen <=> moved = 0
        /\ DirectionOf(seen, knob) = IF moved \in {-1, 1} THEN moved ELSE 0
    BY <1>2, Quarters DEF DirectionOf
  <1>5. run' = IF moved = 0 THEN Before
               ELSE IF moved \notin {-1, 1} THEN 0
               ELSE IF Before * moved > 0 THEN Before + moved
               ELSE moved
    BY <1>1 DEF InARow, Before
  <1>6. seen' = knob /\ knob' = (seen' + moved') % 4
    <2>1. seen' = knob
      BY <1>1, <1>4 DEF Encoder, Turns
    <2> QED
      BY <1>1, <1>4, <2>1
  <1>7. CASE moved = 0
    <2>1. report' = 0 /\ direction' = direction /\ steps' = steps /\ run' = Before
      BY <1>1, <1>4, <1>5, <1>7 DEF Encoder
    <2>2. Before' = Before
      BY <1>3, <2>1 DEF Before
    <2> QED
      BY <1>1, <1>2, <1>3, <1>4, <1>6, <2>1, <2>2 DEF KnobInv, KnobReportsTurns
  <1>8. CASE moved \in {-2, 2}
    <2>1. report' = 0 /\ direction' = 0 /\ steps' = 0 /\ run' = 0
      BY <1>1, <1>4, <1>5, <1>8 DEF Encoder, Turns, Counted, TargetSteps
    <2>2. Before' = 0
      BY <2>1 DEF Before
    <2> QED
      BY <1>1, <1>4, <1>6, <2>1, <2>2 DEF KnobInv, KnobReportsTurns
  <1>9. CASE moved = 1
    <2>1. direction' = 1 /\ run' = IF Before > 0 THEN Before + 1 ELSE 1
      BY <1>1, <1>3, <1>4, <1>5, <1>9 DEF Encoder, Turns
    <2>2. Counted(1) = run'
      BY <1>2, <1>3, <2>1 DEF Counted
    <2>3. /\ report' = IF run' >= 4 THEN 1 ELSE 0
          /\ steps' = IF run' >= 4 THEN 0 ELSE run'
      BY <1>1, <1>4, <1>9, <2>2 DEF Encoder, Turns, TargetSteps
    <2>4. run' \in 1 .. 4
      BY <1>3, <2>1
    <2> QED
      BY <1>1, <1>4, <1>6, <2>1, <2>3, <2>4 DEF KnobInv, KnobReportsTurns, Before
  <1>10. CASE moved = -1
    <2>1. direction' = -1 /\ run' = IF Before < 0 THEN Before - 1 ELSE -1
      BY <1>1, <1>3, <1>4, <1>5, <1>10 DEF Encoder, Turns
    <2>2. Counted(-1) = -run'
      BY <1>2, <1>3, <2>1 DEF Counted
    <2>3. /\ report' = IF -run' >= 4 THEN -1 ELSE 0
          /\ steps' = IF -run' >= 4 THEN 0 ELSE -run'
      BY <1>1, <1>4, <1>10, <2>2 DEF Encoder, Turns, TargetSteps
    <2>4. run' \in -4 .. -1
      BY <1>3, <2>1
    <2> QED
      BY <1>1, <1>4, <1>6, <2>1, <2>3, <2>4 DEF KnobInv, KnobReportsTurns, Before
  <1> QED
    BY <1>2, <1>7, <1>8, <1>9, <1>10

LEMMA KnobNoSample ==
  ASSUME KnobInv, NEW gap \in 1 .. MaxGap, NoSample(gap)
  PROVE  KnobInv'
  <1>1. /\ report' = 0 /\ run' = Before
        /\ UNCHANGED <<knob, seen, direction, steps, moved>>
    BY DEF NoSample, Before
  <1>2. Before \in -3 .. 3
    BY DEF KnobInv, Before
  <1>3. Before' = Before
    BY <1>1, <1>2 DEF Before
  <1> QED
    BY <1>1, <1>2, <1>3 DEF KnobInv, KnobReportsTurns

LEMMA KnobTurn ==
  ASSUME KnobInv, NEW way \in {-1, 1}, Turn(way)
  PROVE  KnobInv'
  <1>1. /\ moved + way \in -MaxTurn .. MaxTurn /\ moved' = moved + way
        /\ knob' = (knob + way) % 4
        /\ UNCHANGED <<seen, direction, steps, report, run>>
    BY DEF Turn
  <1>2. moved' \in -2 .. 2
    BY <1>1, Sizes DEF KnobInv
  <1>3. knob' = (seen' + moved') % 4
    BY <1>1, QuarterStep DEF KnobInv
  <1> QED
    BY <1>1, <1>2, <1>3 DEF KnobInv, KnobReportsTurns, Before

-----------------------------------------------------------------------------
(***************************************************************************)
(* The devices                                                             *)
(***************************************************************************)
LEMMA DeviceInit == Init => DeviceInv
  <1> SUFFICES ASSUME Init PROVE DeviceInv
    OBVIOUS
  <1>1. GridInv
    <2>1. 0 \in Word /\ Period \in Word /\ 0 \in 0 .. Period - 1
      BY Sizes DEF Word
    <2>2. Elapsed(0, Period) = Period
      BY <2>1, ElapsedIsWord, Sizes DEF Word
    <2> QED
      BY <2>1, <2>2, Sizes DEF Init, GridInv, ScansKeepTheGrid
  <1>2. ContactInv
    <2>1. /\ contact \in BOOLEAN /\ stable \in BOOLEAN
          /\ candidate = FALSE /\ sampled = stable /\ steady = 0
      BY DEF Init
    <2>2. 0 \in 0 .. Debounce
      BY Sizes
    <2> QED
      BY <2>1, <2>2 DEF ContactInv
  <1>3. ButtonInv
    <2>1. pressed = FALSE /\ longSent = FALSE /\ held = 0 /\ gesture = <<>>
      BY DEF Init
    <2>2. 0 \in 0 .. LongPress
      BY Sizes
    <2> QED
      BY <2>1, <2>2 DEF ButtonInv
  <1>4. KnobInv
    <2>1. seen \in 0 .. 3 /\ knob = seen /\ moved = 0 /\ run = 0 /\ steps = 0 /\ direction = 0 /\ report = 0
      BY DEF Init
    <2>2. knob = (seen + moved) % 4 /\ Before = 0
      BY <2>1, Quarters DEF Before
    <2> QED
      BY <2>1, <2>2 DEF KnobInv, KnobReportsTurns
  <1> QED
    BY <1>1, <1>2, <1>3, <1>4 DEF DeviceInv

LEMMA DeviceStep == DeviceInv /\ [Next]_vars => DeviceInv'
  <1> SUFFICES ASSUME DeviceInv, [Next]_vars PROVE DeviceInv'
    OBVIOUS
  <1> USE DEF DeviceInv
  <1>1. ASSUME NEW gap \in 1 .. MaxGap, Sample(gap) PROVE DeviceInv'
    BY <1>1, GridSample, ContactSample, ButtonSample, KnobSample
  <1>2. ASSUME NEW gap \in 1 .. MaxGap, NoSample(gap) PROVE DeviceInv'
    BY <1>2, GridNoSample, ContactNoSample, ButtonNoSample, KnobNoSample
  <1>3. CASE Contact
    <2>1. UNCHANGED <<touched, now, deadline, stable, candidate, since, pressed, pressedAt, longSent, gesture,
                      knobVars, historyVars>> /\ contact' = ~contact
      BY <1>3 DEF Contact
    <2>2. GridInv'
      BY <2>1 DEF GridInv, ScansKeepTheGrid, Elapsed, Word, historyVars
    <2>3. ContactInv'
      BY <2>1 DEF ContactInv, Elapsed, AtMost, Word, historyVars
    <2>4. ButtonInv'
      BY <2>1 DEF ButtonInv, Elapsed, AtMost, Word, historyVars
    <2>5. KnobInv'
      BY <2>1 DEF KnobInv, KnobReportsTurns, Before, knobVars, historyVars
    <2> QED
      BY <2>2, <2>3, <2>4, <2>5
  <1>4. ASSUME NEW way \in {-1, 1}, Turn(way) PROVE DeviceInv'
    <2>1. UNCHANGED <<now, deadline, buttonVars, sampled, steady, held, phase>>
      BY <1>4 DEF Turn
    <2>2. GridInv'
      BY <2>1 DEF GridInv, ScansKeepTheGrid, Elapsed, Word
    <2>3. ContactInv'
      BY <2>1 DEF ContactInv, Elapsed, AtMost, Word, buttonVars
    <2>4. ButtonInv'
      BY <2>1 DEF ButtonInv, Elapsed, AtMost, Word, buttonVars
    <2> QED
      BY <1>4, <2>2, <2>3, <2>4, KnobTurn
  <1>5. CASE UNCHANGED vars
    <2> USE <1>5 DEF vars, buttonVars, knobVars, historyVars
    <2>2. GridInv'
      BY DEF GridInv, ScansKeepTheGrid, Elapsed, Word
    <2>3. ContactInv'
      BY DEF ContactInv, Elapsed, AtMost, Word
    <2>4. ButtonInv'
      BY DEF ButtonInv, Elapsed, AtMost, Word
    <2>5. KnobInv'
      BY DEF KnobInv, KnobReportsTurns, Before
    <2> QED
      BY <2>2, <2>3, <2>4, <2>5
  <1> QED
    BY <1>1, <1>2, <1>3, <1>4, <1>5 DEF Next

(* Deadline, candidate, gesture and steps are what the real times and the  *)
(* contacts make them, in every pass and across every wrap of the clock.   *)
THEOREM DeviceInvariance == Spec => []DeviceInv
  <1>1. Init => DeviceInv
    BY DeviceInit
  <1>2. DeviceInv /\ [Next]_vars => DeviceInv'
    BY DeviceStep
  <1> QED
    BY <1>1, <1>2, PTL DEF Spec

(* Polls however late keep to the scheduler's grid (PeriodicScheduler::    *)
(* poll): the next sample is due at the first multiple of the period.      *)
THEOREM GridKept == Spec => []ScansKeepTheGrid
  <1>1. DeviceInv => ScansKeepTheGrid
    BY DEF DeviceInv, GridInv
  <1> QED
    BY <1>1, DeviceInvariance, PTL

(* The adapter tells a press as one click or one long press, by its real   *)
(* length, and once (ButtonInputAdapter).                                  *)
THEOREM GestureCorrect == Spec => []ClickOrLongPress
  <1>1. DeviceInv => ClickOrLongPress
    <2> SUFFICES ASSUME ButtonInv PROVE ClickOrLongPress
      BY DEF DeviceInv
    <2>1. pressed \in BOOLEAN /\ longSent \in BOOLEAN
      BY DEF ButtonInv
    <2>2. CASE pressed /\ ~longSent
      <3>1. gesture = <<"Pressed">>
        BY <2>2 DEF ButtonInv
      <3> QED
        BY <3>1 DEF ClickOrLongPress
    <2>3. CASE pressed /\ longSent
      <3>1. gesture = <<"Pressed", "LongPressed">> /\ held = LongPress
        BY <2>3 DEF ButtonInv
      <3> QED
        BY <3>1 DEF ClickOrLongPress
    <2>4. CASE ~pressed
      <3>1. \/ gesture = <<>>
            \/ gesture = Click /\ held < LongPress
            \/ gesture = Long /\ held = LongPress
        BY <2>4 DEF ButtonInv
      <3> QED
        BY <3>1 DEF ClickOrLongPress, Click, Long
    <2> QED
      BY <2>1, <2>2, <2>3, <2>4
  <1> QED
    BY <1>1, DeviceInvariance, PTL

(* The decoder reports a turn exactly for four quarter steps one way that  *)
(* it saw one by one (Encoder::update).                                    *)
THEOREM KnobCorrect == Spec => []KnobReportsTurns
  <1>1. DeviceInv => KnobReportsTurns
    BY DEF DeviceInv, KnobInv
  <1> QED
    BY <1>1, DeviceInvariance, PTL

(* A contact counts when and as soon as its samples were steady for the    *)
(* debounce time (TimeDebouncer::observe).                                 *)
THEOREM SteadyCorrect == Spec => SteadyBeforeReported
  <1> DEFINE Reported == /\ stable' # stable => sampled = contact /\ steady' = Debounce
                         /\ deadline' # deadline /\ steady' = Debounce => stable' = contact
  <1>1. ASSUME DeviceInv, Next PROVE Reported
    <2>1. ASSUME NEW gap \in 1 .. MaxGap, Sample(gap) PROVE Reported
      <3>1. now' = (now + gap) % WordSize
        BY <2>1 DEF Sample, Clock
      <3>2. stable' = IF Confirmed(now') THEN contact ELSE stable
        BY <2>1 DEF Sample, Observe
      <3>3. steady' = IF contact = sampled THEN AtMost(steady + gap, Debounce) ELSE 0
        BY <2>1 DEF Sample, Witness
      <3>4. Confirmed(now') <=> /\ contact # stable
                                /\ contact = sampled
                                /\ AtMost(steady + gap, Debounce) = Debounce
        BY <1>1, <2>1, <3>1, ConfirmedIsSteady DEF DeviceInv
      <3>5. steady' = Debounce => contact = sampled /\ AtMost(steady + gap, Debounce) = Debounce
        BY <3>3, Sizes
      <3> QED
        BY <3>2, <3>3, <3>4, <3>5
    <2>2. ASSUME NEW gap \in 1 .. MaxGap, NoSample(gap) PROVE Reported
      BY <2>2 DEF NoSample, buttonVars
    <2>3. CASE Contact
      BY <2>3 DEF Contact
    <2>4. ASSUME NEW way \in {-1, 1}, Turn(way) PROVE Reported
      BY <2>4 DEF Turn, buttonVars
    <2> QED
      BY <1>1, <2>1, <2>2, <2>3, <2>4 DEF Next
  <1>2. DeviceInv /\ [Next]_vars => [Reported]_vars
    BY <1>1
  <1> HIDE DEF Reported
  <1>3. Spec => [][Reported]_vars
    BY <1>2, DeviceInvariance, PTL DEF Spec
  <1> QED
    BY <1>3 DEF SteadyBeforeReported, Reported

=============================================================================
