------------------------- MODULE FixedRateSchedule -------------------------
(***************************************************************************)
(* FixedRateSchedule, the pacing of the quota worker and of the main loop, *)
(* together with its caller: work for a while, complete_cycle, sleep,      *)
(* work again.  Time is counted in ticks from the anchor; a cycle's work   *)
(* takes any time, and a sleeping thread (or a suspended machine) may wake *)
(* up late.                                                                *)
(***************************************************************************)
EXTENDS Integers

CONSTANTS Interval,     \* the configured interval
          MaxInstant,   \* the largest representable Instant
          MaxMissed     \* u64::MAX, where missed_deadlines saturates

ASSUME ScheduleAssumption ==
    /\ Interval \in Nat \ {0}
    /\ MaxInstant \in Nat
    /\ MaxMissed \in Nat \ {0}

VARIABLES
  clock,          \* the monotonic clock
  next_deadline,
  phase,          \* "work" or "wait"
  wake,           \* when the wait of the caller ends
  started,        \* history: when the cycle last worked on was started
  overslept       \* history: a deadline passed between its wake and its start

vars == <<clock, next_deadline, phase, wake, started, overslept>>

-----------------------------------------------------------------------------

\* A deadline of the schedule lies after s and not after t.
DeadlineIn(s, t) == \E k \in 0..MaxInstant : s < k * Interval /\ k * Interval <= t

\* now.checked_add(interval).unwrap_or(now)
FallBack(now) == IF now + Interval <= MaxInstant THEN now + Interval ELSE now

\* Mutant: a late cycle is owed every deadline it missed.
MissedOne(now) == 1

Missed(now) ==
    LET missed == (now - next_deadline) \div Interval + 1
    IN  IF missed <= MaxMissed THEN missed ELSE MaxMissed

\* Mutant: the interval starts when the work is done.
AdvanceDrifts(now) == FallBack(now)

\* Mutant: the advanced deadline is not compared with the clock.
AdvanceUnfiltered(now) ==
    IF now <= next_deadline
      THEN next_deadline + Interval
      ELSE next_deadline + Missed(now) * Interval

\* The deadline after this one, from the time the work was done.
Advance(now) ==
    IF now <= next_deadline
      THEN IF next_deadline + Interval <= MaxInstant THEN next_deadline + Interval ELSE FallBack(now)
      ELSE LET deadline == next_deadline + Missed(now) * Interval
           IN  IF deadline <= MaxInstant /\ deadline > now THEN deadline ELSE FallBack(now)

\* complete_cycle: sleep until the deadline if it is still ahead.
CompleteCycle ==
    /\ phase = "work"
    /\ wake' = IF clock <= next_deadline THEN next_deadline ELSE clock
    /\ next_deadline' = Advance(clock)
    /\ phase' = "wait"
    /\ UNCHANGED <<clock, started, overslept>>

\* The caller's sleep is over; the next cycle starts.
StartCycle ==
    /\ phase = "wait" /\ clock >= wake
    /\ phase' = "work"
    /\ started' = clock
    /\ overslept' = DeadlineIn(wake, clock)
    /\ UNCHANGED <<clock, next_deadline, wake>>

Tick ==
    /\ clock < MaxInstant
    /\ clock' = clock + 1
    /\ UNCHANGED <<next_deadline, phase, wake, started, overslept>>

\* anchored(now, interval): the first cycle starts at once.
Init ==
    /\ Interval <= MaxInstant    \* the `expect' of anchored
    /\ clock = 0
    /\ next_deadline = Interval
    /\ phase = "work" /\ wake = 0
    /\ started = 0 /\ overslept = FALSE

Next == CompleteCycle \/ StartCycle \/ Tick

Spec == Init /\ [][Next]_vars

-----------------------------------------------------------------------------

\* The times are representable.
TypeOK ==
    /\ clock \in 0..MaxInstant /\ next_deadline \in 0..MaxInstant
    /\ phase \in {"work", "wait"}
    /\ wake \in 0..MaxInstant /\ started \in 0..MaxInstant
    /\ overslept \in BOOLEAN

\* Far enough from the end of the clock and of the counter for the checked
\* arithmetic to succeed.
Room ==
    /\ clock + 2 * Interval <= MaxInstant
    /\ clock < MaxMissed * Interval

OnLattice(d) == \E k \in 0..MaxInstant : d = k * Interval

\* d is the first deadline after t.
FirstAfter(d, t) ==
    /\ OnLattice(d)
    /\ t < d /\ d <= t + Interval

\* complete_cycle: the work is "not added to the configured interval", and
\* after an overrun the schedule "resumes at the first future deadline": the
\* deadline kept is the first one of the anchor's lattice after the wait.
ResumesAtFirstDeadline == phase = "wait" /\ Room => FirstAfter(next_deadline, wake)

\* "instead of busy-looping through missed samples": between the starts of
\* two cycles a deadline passes, unless the first one was itself overslept.
OneStartPerDeadline == phase = "wait" /\ Room /\ ~overslept => DeadlineIn(started, wake)

\* filter(deadline > now): also when the count of missed deadlines saturates,
\* the next deadline is not behind the wait, up to the end of the clock.
NeverBehind == phase = "wait" => next_deadline >= wake \/ clock + Interval > MaxInstant

-----------------------------------------------------------------------------
(* The inductive strengthening.                                             *)

ScheduleInv ==
    /\ TypeOK
    /\ phase = "work" => next_deadline <= clock + Interval
    /\ phase = "wait" => next_deadline <= wake + Interval
    /\ Room => OnLattice(next_deadline)
    /\ phase = "work" /\ Room /\ ~overslept => started < next_deadline
    /\ ResumesAtFirstDeadline
    /\ OneStartPerDeadline
    /\ NeverBehind

=============================================================================
