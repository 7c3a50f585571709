---------------------- MODULE FixedRateScheduleProofs ----------------------
(***************************************************************************)
(* Proofs about FixedRateSchedule for every interval, every range of the   *)
(* clock and every limit of the counter.                                   *)
(***************************************************************************)
EXTENDS FixedRateSchedule, TLAPS

\* Division with remainder: the bounds that complete_cycle relies on.
LEMMA DivBounds ==
    ASSUME NEW x \in Nat, NEW y \in Nat \ {0}
    PROVE  /\ x \div y \in Nat
           /\ (x \div y) * y <= x
           /\ x < (x \div y) * y + y
  OBVIOUS

\* The saturated count of missed deadlines never leads beyond the first
\* deadline after now, and reaches it as long as it does not saturate.
LEMMA MissedBounds ==
    ASSUME TypeOK, NEW now \in Nat, next_deadline < now
    PROVE  /\ Missed(now) \in Nat
           /\ next_deadline + Missed(now) * Interval <= now + Interval
           /\ now < MaxMissed * Interval => now < next_deadline + Missed(now) * Interval
<1> USE ScheduleAssumption
<1> DEFINE late == now - next_deadline
           q == late \div Interval
<1>1. late \in Nat /\ next_deadline \in Nat
  BY DEF TypeOK
<1> HIDE DEF late
<1>2. q \in Nat /\ q * Interval <= late /\ late < q * Interval + Interval
  BY <1>1, DivBounds
<1>3. Missed(now) = IF q + 1 <= MaxMissed THEN q + 1 ELSE MaxMissed
  BY DEF Missed, late
<1> HIDE DEF q
<1>4. (q + 1) * Interval = q * Interval + Interval
  BY <1>2
<1>5. late = now - next_deadline
  BY DEF late
<1>6. CASE q + 1 <= MaxMissed
  BY <1>1, <1>2, <1>3, <1>4, <1>5, <1>6
<1>7. CASE ~(q + 1 <= MaxMissed)
  <2>1. MaxMissed <= q
    BY <1>2, <1>7
  <2>2. MaxMissed * Interval <= q * Interval
    BY <1>2, <2>1
  <2> QED BY <1>1, <1>2, <1>3, <1>5, <1>7, <2>2
<1> QED BY <1>6, <1>7

\* A deadline advanced by whole intervals stays on the lattice.
LEMMA LatticeAdvance ==
    ASSUME NEW d, OnLattice(d), NEW m \in Nat, d + m * Interval <= MaxInstant
    PROVE  OnLattice(d + m * Interval)
<1> USE ScheduleAssumption
<1>1. PICK k \in 0..MaxInstant : d = k * Interval
  BY DEF OnLattice
<1>2. k + m \in Nat /\ (k + m) * Interval = d + m * Interval
  BY <1>1
<1>3. (k + m) <= (k + m) * Interval
  BY <1>2
<1>4. k + m \in 0..MaxInstant
  BY <1>1, <1>2, <1>3
<1> QED BY <1>2, <1>4 DEF OnLattice

Waited == IF clock <= next_deadline THEN next_deadline ELSE clock

\* What complete_cycle does to the deadline.
LEMMA AdvanceBounds ==
    ASSUME TypeOK, next_deadline <= clock + Interval
    PROVE  /\ Advance(clock) \in 0..MaxInstant
           /\ Advance(clock) <= Waited + Interval
           /\ Advance(clock) >= Waited \/ clock + Interval > MaxInstant
           /\ Room => /\ Waited < Advance(clock)
                      /\ OnLattice(next_deadline) => OnLattice(Advance(clock))
<1> USE ScheduleAssumption
<1>1. clock \in 0..MaxInstant /\ next_deadline \in 0..MaxInstant
  BY DEF TypeOK
<1>2. CASE clock <= next_deadline
  <2>1. CASE next_deadline + Interval <= MaxInstant
    <3>1. Advance(clock) = next_deadline + Interval /\ Waited = next_deadline
      BY <1>2, <2>1 DEF Advance, Waited
    <3>2. OnLattice(next_deadline) => OnLattice(next_deadline + Interval)
      <4>1. next_deadline + 1 * Interval <= MaxInstant /\ 1 * Interval = Interval /\ 1 \in Nat
        BY <1>1, <2>1
      <4> QED BY <4>1, LatticeAdvance
    <3> QED BY <1>1, <2>1, <3>1, <3>2
  <2>2. CASE ~(next_deadline + Interval <= MaxInstant)
    <3>1. Advance(clock) = FallBack(clock) /\ Waited = next_deadline
      BY <1>2, <2>2 DEF Advance, Waited
    <3>2. ~Room
      BY <1>1, <2>2 DEF Room
    <3> QED BY <1>1, <1>2, <2>2, <3>1, <3>2 DEF FallBack
  <2> QED BY <2>1, <2>2
<1>3. CASE ~(clock <= next_deadline)
  <2> DEFINE deadline == next_deadline + Missed(clock) * Interval
  <2>1. /\ Missed(clock) \in Nat /\ deadline <= clock + Interval
        /\ clock < MaxMissed * Interval => clock < deadline
    BY <1>1, <1>3, MissedBounds
  <2>2. deadline \in Nat
    BY <1>1, <2>1
  <2>3. OnLattice(next_deadline) /\ deadline <= MaxInstant => OnLattice(deadline)
    BY <2>1, LatticeAdvance
  <2>4. Waited = clock
    BY <1>3 DEF Waited
  <2>5. Advance(clock) = IF deadline <= MaxInstant /\ deadline > clock THEN deadline ELSE FallBack(clock)
    BY <1>3 DEF Advance
  <2>6. Room => deadline <= MaxInstant /\ deadline > clock
    BY <1>1, <2>1, <2>2 DEF Room
  <2> HIDE DEF deadline
  <2>7. CASE deadline <= MaxInstant /\ deadline > clock
    BY <1>1, <2>1, <2>2, <2>3, <2>4, <2>5, <2>7
  <2>8. CASE ~(deadline <= MaxInstant /\ deadline > clock)
    BY <1>1, <2>4, <2>5, <2>6, <2>8 DEF FallBack
  <2> QED BY <2>7, <2>8
<1> QED BY <1>2, <1>3

\* The schedule starts in the inductive invariant.
LEMMA InitScheduleInv == Init => ScheduleInv
<1> SUFFICES ASSUME Init PROVE ScheduleInv
  OBVIOUS
<1> USE ScheduleAssumption
<1>1. TypeOK /\ next_deadline = Interval /\ phase = "work" /\ clock = 0 /\ started = 0
  <2>1. overslept \in BOOLEAN
    BY DEF Init
  <2> QED BY <2>1 DEF Init, TypeOK
<1>2. OnLattice(next_deadline)
  <2>1. 1 \in 0..MaxInstant /\ Interval = 1 * Interval
    BY DEF Init
  <2> QED BY <1>1, <2>1 DEF OnLattice
<1> QED BY <1>1, <1>2 DEF ScheduleInv, ResumesAtFirstDeadline, OneStartPerDeadline, NeverBehind

\* The clock only runs out of room.
LEMMA TickStep == ScheduleInv /\ Tick => ScheduleInv'
<1> SUFFICES ASSUME ScheduleInv, Tick PROVE ScheduleInv'
  OBVIOUS
<1> USE ScheduleAssumption
<1>1. /\ clock' = clock + 1 /\ clock' \in 0..MaxInstant /\ clock \in 0..MaxInstant
      /\ UNCHANGED <<next_deadline, phase, wake, started, overslept>>
  BY DEF Tick, ScheduleInv, TypeOK
<1>2. Room' => Room
  <2>1. MaxMissed * Interval \in Nat
    OBVIOUS
  <2> QED BY <1>1, <2>1 DEF Room
<1>3. TypeOK'
  BY <1>1 DEF ScheduleInv, TypeOK
<1>4. next_deadline \in Nat /\ wake \in Nat
  BY DEF ScheduleInv, TypeOK
<1>5. phase = "work" => next_deadline <= clock' + Interval
  BY <1>1, <1>4 DEF ScheduleInv
<1>6. (Room' => OnLattice(next_deadline)) /\ ResumesAtFirstDeadline' /\ OneStartPerDeadline'
  BY <1>1, <1>2 DEF ScheduleInv, OnLattice, ResumesAtFirstDeadline, FirstAfter, OneStartPerDeadline, DeadlineIn
<1>7. NeverBehind'
  BY <1>1, <1>4 DEF ScheduleInv, NeverBehind
<1> QED BY <1>1, <1>2, <1>3, <1>5, <1>6, <1>7 DEF ScheduleInv, OnLattice

\* complete_cycle keeps the invariant.
LEMMA CompleteStep == ScheduleInv /\ CompleteCycle => ScheduleInv'
<1> SUFFICES ASSUME ScheduleInv, CompleteCycle PROVE ScheduleInv'
  OBVIOUS
<1> USE ScheduleAssumption
<1>1. /\ TypeOK /\ phase = "work" /\ next_deadline <= clock + Interval
      /\ clock \in Nat /\ next_deadline \in Nat /\ started \in Nat
  BY DEF ScheduleInv, CompleteCycle, TypeOK
<1>2. /\ phase' = "wait" /\ wake' = Waited /\ next_deadline' = Advance(clock)
      /\ UNCHANGED <<clock, started, overslept>>
  BY DEF CompleteCycle, Waited
<1>3. /\ next_deadline' \in 0..MaxInstant
      /\ next_deadline' <= wake' + Interval
      /\ next_deadline' >= wake' \/ clock + Interval > MaxInstant
      /\ Room => /\ wake' < next_deadline'
                 /\ OnLattice(next_deadline) => OnLattice(next_deadline')
  BY <1>1, <1>2, AdvanceBounds
<1>4. Room' = Room /\ (Room => OnLattice(next_deadline))
  BY <1>2 DEF Room, ScheduleInv
<1>5. wake' \in 0..MaxInstant /\ next_deadline <= wake'
  BY <1>1, <1>2 DEF Waited, TypeOK
<1>6. TypeOK'
  BY <1>1, <1>2, <1>3, <1>5 DEF TypeOK
<1>7. ResumesAtFirstDeadline'
  BY <1>2, <1>3, <1>4 DEF ResumesAtFirstDeadline, FirstAfter, OnLattice
<1>8. OneStartPerDeadline'
  <2> SUFFICES ASSUME Room, ~overslept PROVE DeadlineIn(started, wake')
    BY <1>2, <1>4 DEF OneStartPerDeadline, DeadlineIn
  <2>1. started < next_deadline
    BY <1>1 DEF ScheduleInv
  <2>2. PICK k \in 0..MaxInstant : next_deadline = k * Interval
    BY <1>4 DEF OnLattice
  <2> QED BY <1>5, <2>1, <2>2 DEF DeadlineIn
<1>9. NeverBehind'
  BY <1>2, <1>3 DEF NeverBehind
<1> QED BY <1>2, <1>3, <1>4, <1>6, <1>7, <1>8, <1>9 DEF ScheduleInv, OnLattice

\* Starting the next cycle keeps the invariant.
LEMMA StartStep == ScheduleInv /\ StartCycle => ScheduleInv'
<1> SUFFICES ASSUME ScheduleInv, StartCycle PROVE ScheduleInv'
  OBVIOUS
<1> USE ScheduleAssumption
<1>1. /\ phase = "wait" /\ clock >= wake /\ phase' = "work" /\ started' = clock
      /\ overslept' = DeadlineIn(wake, clock) /\ UNCHANGED <<clock, next_deadline, wake>>
  BY DEF StartCycle
<1>2. /\ clock \in 0..MaxInstant /\ next_deadline \in 0..MaxInstant /\ wake \in 0..MaxInstant
      /\ next_deadline <= wake + Interval
  BY <1>1 DEF ScheduleInv, TypeOK
<1>3. TypeOK'
  <2>1. overslept' \in BOOLEAN
    BY <1>1 DEF DeadlineIn
  <2> QED BY <1>1, <1>2, <2>1 DEF TypeOK
<1>4. Room' = Room
  BY <1>1 DEF Room
<1>5. Room /\ ~overslept' => clock < next_deadline
  <2> SUFFICES ASSUME Room, ~(clock < next_deadline) PROVE DeadlineIn(wake, clock)
    BY <1>1
  <2>1. OnLattice(next_deadline) /\ wake < next_deadline
    BY <1>1 DEF ScheduleInv, ResumesAtFirstDeadline, FirstAfter
  <2> QED BY <1>2, <2>1 DEF OnLattice, DeadlineIn
<1> QED BY <1>1, <1>2, <1>3, <1>4, <1>5
        DEF ScheduleInv, OnLattice, ResumesAtFirstDeadline, OneStartPerDeadline, NeverBehind

-----------------------------------------------------------------------------

\* The schedule keeps its invariant for any work, sleep and clock.
THEOREM ScheduleIsSound == Spec => []ScheduleInv
<1>1. ScheduleInv /\ UNCHANGED vars => ScheduleInv'
  BY DEF vars, ScheduleInv, TypeOK, Room, OnLattice, ResumesAtFirstDeadline, FirstAfter,
     OneStartPerDeadline, DeadlineIn, NeverBehind
<1>2. ScheduleInv /\ [Next]_vars => ScheduleInv'
  BY <1>1, TickStep, CompleteStep, StartStep DEF Next
<1> QED BY <1>2, InitScheduleInv, PTL DEF Spec

\* Work is not added to the interval and an overrun resumes at the first
\* future deadline, for every interval.
THEOREM NoDrift == Spec => []ResumesAtFirstDeadline
<1>1. ScheduleInv => ResumesAtFirstDeadline
  BY DEF ScheduleInv
<1> QED BY <1>1, ScheduleIsSound, PTL

\* Missed deadlines are never made up for by a burst of cycles.
THEOREM NoBusyLoop == Spec => []OneStartPerDeadline
<1>1. ScheduleInv => OneStartPerDeadline
  BY DEF ScheduleInv
<1> QED BY <1>1, ScheduleIsSound, PTL

\* complete_cycle never hands out a deadline behind the instant it was asked
\* at, except within one interval of the clock's end: the wait cannot spin.
THEOREM NoSpin == Spec => []NeverBehind
<1>1. ScheduleInv => NeverBehind
  BY DEF ScheduleInv
<1> QED BY <1>1, ScheduleIsSound, PTL

=============================================================================
