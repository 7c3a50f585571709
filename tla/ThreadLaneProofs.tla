-------------------------- MODULE ThreadLaneProofs --------------------------
(* ThreadLane for any number of Sessions, any interval and any number of    *)
(* disturbances: one probe at a time, one early collection per episode, and *)
(* a stored health that follows the lane.                                   *)
EXTENDS ThreadLane, SequenceTheorems, TLAPS

(* The operations of AdaptiveThreadCadence keep its type. *)
LEMMA CadenceTyped ==
    ASSUME NEW c \in CadenceType
    PROVE  /\ \A t \in Totals : Accepted(c, t) \in CadenceType
           /\ Begun(c) \in CadenceType
           /\ Requested(c) \in CadenceType
           /\ Landed(c) \in CadenceType
           /\ \A b \in BOOLEAN : Submitted(c, b) \in CadenceType
           /\ \A n \in 0 .. Interval + ProbeInterval :
                 [c EXCEPT !.next_probe = n] \in CadenceType
  <1> USE TimesAssumption
  <1>1. ASSUME NEW t \in Totals PROVE Accepted(c, t) \in CadenceType
    <2> DEFINE moved == c.based /\ Moved(c.totals, t)
               calm == ~moved /\ c.last_delta >= StableWindow /\ Unmoved(c.totals, t)
               reset == ~c.based \/ calm
               n == CASE reset -> NotSet
                      [] moved /\ c.last_delta = NotSet -> ProbeInterval
                      [] OTHER -> c.next_probe
               d == CASE reset -> NotSet
                      [] moved -> 0
                      [] OTHER -> c.last_delta
    <2>1. n \in NotSet .. Interval + ProbeInterval
      BY DEF CadenceType, NotSet
    <2>2. d \in NotSet .. StableWindow
      BY DEF CadenceType, NotSet
    <2>3. Accepted(c, t) = [in_flight |-> FALSE, next_probe |-> n, last_delta |-> d,
                            totals |-> t, based |-> TRUE,
                            attempted |-> FALSE, pending |-> FALSE]
      BY DEF Accepted
    <2> HIDE DEF n, d
    <2> QED BY <2>1, <2>2, <2>3 DEF CadenceType
  <1>a. \A n \in NotSet .. Interval + ProbeInterval : [c EXCEPT !.next_probe = n] \in CadenceType
    BY DEF CadenceType
  <1>b. \A e \in CadenceType, b \in BOOLEAN :
           /\ [e EXCEPT !.pending = b] \in CadenceType
           /\ [e EXCEPT !.in_flight = b] \in CadenceType
    BY DEF CadenceType
  <1>c. /\ NotSet \in NotSet .. Interval + ProbeInterval
        /\ ProbeInterval \in NotSet .. Interval + ProbeInterval
        /\ c.next_probe \in NotSet .. Interval + ProbeInterval
    BY DEF NotSet, CadenceType
  <1>2. Begun(c) \in CadenceType
    BY <1>a, <1>b, <1>c DEF Begun
  <1>3. Requested(c) \in CadenceType /\ Landed(c) \in CadenceType
    BY DEF Requested, Landed, CadenceType
  <1>4. \A b \in BOOLEAN : Submitted(c, b) \in CadenceType
    <2> TAKE b \in BOOLEAN
    <2> DEFINE n == IF c.last_delta # NotSet THEN ProbeInterval ELSE c.next_probe
    <2>1. n \in NotSet .. Interval + ProbeInterval
      BY <1>c
    <2>2. Submitted(c, b) = [[c EXCEPT !.next_probe = n] EXCEPT !.in_flight = b]
      BY DEF Submitted, CadenceType
    <2> HIDE DEF n
    <2>3. [c EXCEPT !.next_probe = n] \in CadenceType
      BY <2>1, <1>a
    <2> QED BY <2>2, <2>3, <1>b
  <1>5. \A n \in 0 .. Interval + ProbeInterval : [c EXCEPT !.next_probe = n] \in CadenceType
    BY <1>a DEF NotSet
  <1> QED BY <1>1, <1>2, <1>3, <1>4, <1>5

LEMMA FreshTyped == FreshCadence \in CadenceType
  <1>1. NoThreads \in [{} -> Counts \cup {Unknown}]
    BY DEF NoThreads
  <1>2. NoThreads \in Totals
    BY <1>1 DEF Totals
  <1> QED BY <1>2, TimesAssumption DEF FreshCadence, CadenceType, NotSet

LEMMA SyncedTyped ==
    ASSUME NEW r \in Rows, NEW h \in Healths PROVE Synced(r, h) \in Rows
  BY DEF Synced, Rows, Healths

LEMMA ResultsTyped ==
    /\ Failed \in Results
    /\ \A S \in SUBSET Sources : Mismatch(S) \in Results
    /\ \A t \in Totals : Snapshot(t) \in Results
    /\ \A r \in Results : r.kind = "snapshot" => r.totals \in Totals
  <1>1. Failed \in Results
    BY DEF Results
  <1>2. \A S \in SUBSET Sources : Mismatch(S) \in Results
    BY DEF Results
  <1>3. \A t \in Totals : Snapshot(t) \in Results
    BY DEF Results
  <1>4. ASSUME NEW r \in Results, r.kind = "snapshot" PROVE r.totals \in Totals
    <2>1. CASE r = Failed
      BY <2>1, <1>4 DEF Failed
    <2>2. CASE \E S \in SUBSET Sources : r = Mismatch(S)
      BY <2>2, <1>4 DEF Mismatch
    <2>3. CASE \E t \in Totals : r = Snapshot(t)
      BY <2>3 DEF Snapshot
    <2> QED BY <2>1, <2>2, <2>3 DEF Results
  <1> QED BY <1>1, <1>2, <1>3, <1>4

(* Init establishes the inductive invariant. *)
LEMMA InitInv == Init => LaneInv
  <1> SUFFICES ASSUME Init PROVE LaneInv
    OBVIOUS
  <1> USE TimesAssumption, LimitsAssumption
  <1>1. TypeOK
    <2>1. commands \in Seq(SUBSET Sources) /\ Len(commands) <= 1
      BY DEF Init
    <2>2. results \in Seq(Results) /\ Len(results) <= 2
      BY DEF Init
    <2>3. until \in -MaxLate .. Interval /\ budget \in 0 .. MaxDisturbances
          /\ gap \in 0 .. ProbeInterval /\ earlies \in Nat
      BY DEF Init
    <2>4. worker \in [at : {"idle", "probing", "dead"}, inventory : SUBSET Sources]
      BY DEF Init
    <2> QED BY <2>1, <2>2, <2>3, <2>4, FreshTyped DEF Init, TypeOK, Healths
  <1>2. SingleProbe
    BY DEF Init, SingleProbe, Outstanding, Probing, FreshCadence
  <1>3. RequestsCounted
    BY DEF Init, RequestsCounted, FreshCadence
  <1>4. ReadyIsStored /\ RejectionHeld /\ RequestFirst
    BY DEF Init, ReadyIsStored, RejectionHeld, RequestFirst, FreshCadence
  <1> QED BY <1>1, <1>2, <1>3, <1>4 DEF LaneInv

(* What committing a poll result leaves behind. *)
LEMMA ApplyTyped ==
    ASSUME TypeOK, NEW r \in Results, NEW next, NEW asked, Apply(r, next, asked)
    PROVE  /\ pc' \in {next, asked, "exit"}
           /\ cadence' \in CadenceType
           /\ health' \in Healths /\ row' \in Rows
           /\ budget' \in 0 .. MaxDisturbances /\ earlies' \in Nat
  <1> USE LimitsAssumption
  <1>0. /\ cadence \in CadenceType /\ health \in Healths /\ row \in Rows
        /\ budget \in 0 .. MaxDisturbances /\ earlies \in Nat
    BY DEF TypeOK
  <1>1. Landed(cadence) \in CadenceType /\ Requested(Landed(cadence)) \in CadenceType
    BY <1>0, CadenceTyped
  <1>2. Synced(row, "failed") \in Rows
    BY <1>0, SyncedTyped DEF Healths
  <1>3. CASE r.kind = "snapshot" /\ Publish(r.totals, next)
    BY <1>3, <1>0, CadenceTyped, ResultsTyped DEF Publish, Healths, Rows
  <1>4. CASE PublishFails(next)
    BY <1>4, <1>0, <1>1, <1>2 DEF PublishFails, Disturb, Healths
  <1>5. CASE Fail(next)
    BY <1>5, <1>0, <1>1, <1>2 DEF Fail, SyncHealth, Disturb, Healths
  <1>6. CASE StateFails
    BY <1>6, <1>0, <1>1 DEF StateFails, Disturb
  <1>7. CASE AlreadyAdmitted(next)
    BY <1>7, <1>0, <1>1 DEF AlreadyAdmitted
  <1>8. CASE Request(asked)
    BY <1>8, <1>0, <1>1 DEF Request
  <1> QED BY <1>3, <1>4, <1>5, <1>6, <1>7, <1>8 DEF Apply

(* Every step keeps the types. *)
LEMMA TypeStep == TypeOK /\ [Next]_vars => TypeOK'
  <1> SUFFICES ASSUME TypeOK, [Next]_vars PROVE TypeOK'
    OBVIOUS
  <1> USE TimesAssumption, LimitsAssumption
  <1>0. /\ cadence \in CadenceType /\ health \in Healths /\ row \in Rows
        /\ budget \in 0 .. MaxDisturbances /\ earlies \in Nat
        /\ until \in -MaxLate .. Interval
    BY DEF TypeOK
  <1>a. ASSUME NEW h \in Healths, SyncHealth(h)
        PROVE  row' \in Rows /\ budget' \in 0 .. MaxDisturbances
    BY <1>a, <1>0, SyncedTyped DEF SyncHealth, Disturb
  <1>b. ASSUME Disturb PROVE budget' \in 0 .. MaxDisturbances
    BY <1>b, <1>0 DEF Disturb
  <1>c. ASSUME Attempt PROVE /\ cadence' \in CadenceType /\ gap' \in 0 .. ProbeInterval
                            /\ commands' \in Seq(SUBSET Sources) /\ Len(commands') <= 1
    <2> DEFINE b == /\ commands = <<>> /\ worker.at # "dead"
                    /\ Cardinality(admitted) <= MaxCheckpoints
    <2>1. cadence' = Submitted(cadence, b) /\ gap' = 0
          /\ commands' = IF b THEN <<admitted>> ELSE commands
      BY <1>c DEF Attempt
    <2>2. b \in BOOLEAN
      OBVIOUS
    <2> HIDE DEF b
    <2>3. cadence' \in CadenceType
      BY <2>1, <2>2, <1>0, CadenceTyped
    <2>4. <<admitted>> \in Seq(SUBSET Sources) /\ Len(<<admitted>>) = 1
      BY DEF TypeOK
    <2>5. commands' \in Seq(SUBSET Sources) /\ Len(commands') <= 1
      <3>1. CASE b
        BY <3>1, <2>1, <2>4
      <3>2. CASE ~b
        BY <3>2, <2>1 DEF TypeOK
      <3> QED BY <3>1, <3>2
    <2>6. gap' \in 0 .. ProbeInterval
      BY <2>1
    <2> QED BY <2>3, <2>5, <2>6
  <1>1. CASE Begin
    <2>1. cadence' \in CadenceType /\ early' \in BOOLEAN
      BY <1>1, <1>0, CadenceTyped DEF Begin, CadenceType
    <2>2. earlies' \in Nat /\ row' \in Rows /\ budget' \in 0 .. MaxDisturbances
      BY <1>1, <1>0, <1>a DEF Begin
    <2> QED BY <1>1, <2>1, <2>2 DEF Begin, TypeOK, channels
  <1>2. CASE Collect
    BY <1>2, <1>b DEF Collect, TypeOK, lane, channels
  <1>3. CASE CollectFails
    <2>1. (IF until > 0 THEN until ELSE 0) \in 0 .. Interval + ProbeInterval
      BY <1>0
    <2>2. cadence' \in CadenceType
      BY <1>3, <2>1, <1>0, CadenceTyped DEF CollectFails, lane
    <2>3. health' \in Healths /\ row' \in Rows
      BY <1>3, <1>0, SyncedTyped DEF CollectFails, lane, Healths
    <2> QED BY <1>3, <1>b, <2>2, <2>3 DEF CollectFails, TypeOK, sessions, channels
  <1>4. CASE QuotaEvent
    BY <1>4, <1>0, <1>a DEF QuotaEvent, TypeOK, lane, sessions, channels, history
  <1>5. CASE CycleSubmit
    BY <1>5, <1>b, <1>c DEF CycleSubmit, TypeOK, sessions
  <1>6. CASE Drain
    <2>1. results' \in Seq(Results) /\ Len(results') <= 2
      BY <1>6 DEF Drain
    <2>2. results # <<>> => results[Len(results)] \in Results
      BY DEF TypeOK
    <2>3. /\ pc' \in {"publish", "exit"} /\ cadence' \in CadenceType
          /\ health' \in Healths /\ row' \in Rows
          /\ budget' \in 0 .. MaxDisturbances /\ earlies' \in Nat
      BY <1>6, <1>0, <2>2, ApplyTyped DEF Drain, lane
    <2> QED BY <1>6, <2>1, <2>3 DEF Drain, TypeOK, sessions
  <1>7. CASE PublishCycle
    BY <1>7, <1>0 DEF PublishCycle, TypeOK, lane, sessions, channels, history
  <1>8. CASE PublishAndStop
    BY <1>8, <1>0, <1>a DEF PublishAndStop, TypeOK, sessions, channels, history, Healths
  <1>9. CASE WaitSubmit
    <2>1. ASSUME cadence' = [cadence EXCEPT !.next_probe = ProbeInterval]
          PROVE  cadence' \in CadenceType
      BY <2>1, <1>0, CadenceTyped
    <2> QED BY <1>9, <1>b, <1>c, <2>1 DEF WaitSubmit, TypeOK, sessions
  <1>10. CASE WaitResult
    <2>1. /\ results' \in Seq(Results) /\ Len(results') <= 2
          /\ Head(results) \in Results
      BY <1>10 DEF WaitResult, TypeOK
    <2>2. /\ pc' \in {"wait", "begin", "exit"} /\ cadence' \in CadenceType
          /\ health' \in Healths /\ row' \in Rows
          /\ budget' \in 0 .. MaxDisturbances /\ earlies' \in Nat
      BY <1>10, <2>1, ApplyTyped DEF WaitResult
    <2> QED BY <1>10, <2>1, <2>2 DEF WaitResult, TypeOK, sessions
  <1>11. CASE WaitDone
    BY <1>11, <1>0 DEF WaitDone, TypeOK, lane, sessions, channels, history
  <1>12. CASE StopSeen \/ BoundaryChanged
    BY <1>12 DEF StopSeen, BoundaryChanged, TypeOK, lane, sessions, channels, history
  <1>13. CASE Restart
    <2>1. commands' \in Seq(SUBSET Sources) /\ Len(commands') <= 1
      BY <1>13 DEF Restart
    <2>2. results' \in Seq(Results) /\ Len(results') <= 2
      BY <1>13 DEF Restart
    <2>3. worker' \in [at : {"idle", "probing", "dead"}, inventory : SUBSET Sources]
      BY <1>13 DEF Restart
    <2>4. until' \in -MaxLate .. Interval /\ gap' \in 0 .. ProbeInterval /\ earlies' \in Nat
      BY <1>13 DEF Restart
    <2> QED BY <1>13, <2>1, <2>2, <2>3, <2>4, FreshTyped
            DEF Restart, TypeOK, sessions, Healths
  <1>14. CASE Take
    BY <1>14 DEF Take, TypeOK, lane, sessions, history
  <1>15. CASE Finish
    <2>1. \A r \in Results : Send(r) \in Seq(Results) /\ Len(Send(r)) <= 2
      BY DEF Send, TypeOK
    <2>2. Observed(worker.inventory) \subseteq Results
      BY ResultsTyped DEF Observed, TypeOK
    <2>3. results' \in Seq(Results) /\ Len(results') <= 2
      BY <1>15, <2>1, <2>2, ResultsTyped DEF Finish
    <2> QED BY <1>15, <1>b, <2>3 DEF Finish, TypeOK, lane, sessions, history
  <1>16. CASE Die
    BY <1>16, <1>b DEF Die, TypeOK, lane, sessions, history
  <1>17. CASE Tick
    <2> DEFINE n == IF cadence.next_probe > 0 THEN cadence.next_probe - 1
                    ELSE cadence.next_probe
               d == IF cadence.last_delta = NotSet THEN cadence.last_delta
                    ELSE Lower(cadence.last_delta + 1, StableWindow)
    <2>1. /\ n \in NotSet .. Interval + ProbeInterval
          /\ d \in NotSet .. StableWindow
      BY <1>0 DEF CadenceType, NotSet, Lower
    <2>2. cadence' = [cadence EXCEPT !.next_probe = n, !.last_delta = d]
      BY <1>17 DEF Tick
    <2> HIDE DEF n, d
    <2>5. [cadence EXCEPT !.next_probe = n] \in CadenceType
      BY <1>0, <2>1 DEF CadenceType
    <2>6. cadence' = [[cadence EXCEPT !.next_probe = n] EXCEPT !.last_delta = d]
      BY <2>2
    <2>3. cadence' \in CadenceType
      <3>1. \A e \in CadenceType, x \in NotSet .. StableWindow :
               [e EXCEPT !.last_delta = x] \in CadenceType
        BY DEF CadenceType
      <3> QED BY <2>1, <2>5, <2>6, <3>1
    <2>4. gap' \in 0 .. ProbeInterval /\ until' \in -MaxLate .. Interval
      <3>1. gap \in 0 .. ProbeInterval /\ until \in -MaxLate .. Interval
        BY DEF TypeOK
      <3> QED BY <1>17, <3>1 DEF Tick, Lower
    <2> QED BY <1>17, <2>3, <2>4 DEF Tick, TypeOK, sessions, channels
  <1>18. CASE OpenOrClose
    BY <1>18, <1>b DEF OpenOrClose, TypeOK, lane, channels, history
  <1>19. CASE Terminate
    BY <1>19 DEF Terminate, TypeOK, lane, sessions, channels, history
  <1>20. CASE UNCHANGED vars
    BY <1>20 DEF vars, TypeOK
  <1> QED BY <1>1, <1>2, <1>3, <1>4, <1>5, <1>6, <1>7, <1>8, <1>9, <1>10, <1>11,
            <1>12, <1>13, <1>14, <1>15, <1>16, <1>17, <1>18, <1>19, <1>20
       DEF Next, Main, Poller

(* The fields of the cadence after each of its operations. *)
LEMMA LandedFields ==
    ASSUME NEW c \in CadenceType
    PROVE  /\ Landed(c).in_flight = FALSE
           /\ Landed(c).pending = c.pending
           /\ Landed(c).attempted = c.attempted
           /\ Landed(c).next_probe = c.next_probe
  BY DEF CadenceType, Landed

LEMMA RequestedFields ==
    ASSUME NEW c \in CadenceType
    PROVE  /\ Requested(Landed(c)).in_flight = FALSE
           /\ Requested(Landed(c)).pending = TRUE
           /\ Requested(Landed(c)).attempted = TRUE
  BY DEF CadenceType, Requested, Landed

LEMMA AcceptedFields ==
    ASSUME NEW c, NEW t
    PROVE  /\ Accepted(c, t).in_flight = FALSE
           /\ Accepted(c, t).pending = FALSE
           /\ Accepted(c, t).attempted = FALSE
  BY DEF Accepted

LEMMA BegunFields ==
    ASSUME NEW c \in CadenceType
    PROVE  /\ Begun(c).in_flight = c.in_flight
           /\ Begun(c).pending = FALSE
           /\ Begun(c).attempted = c.attempted
  BY DEF CadenceType, Begun

LEMMA SubmittedFields ==
    ASSUME NEW c \in CadenceType, NEW b \in BOOLEAN
    PROVE  /\ Submitted(c, b).in_flight = b
           /\ Submitted(c, b).pending = c.pending
           /\ Submitted(c, b).attempted = c.attempted
  BY DEF CadenceType, Submitted

LEMMA RescheduledFields ==
    ASSUME NEW c \in CadenceType, NEW n
    PROVE  /\ [c EXCEPT !.next_probe = n].in_flight = c.in_flight
           /\ [c EXCEPT !.next_probe = n].pending = c.pending
           /\ [c EXCEPT !.next_probe = n].attempted = c.attempted
           /\ [c EXCEPT !.next_probe = n].next_probe = n
  BY DEF CadenceType

(* A committed result always takes the probe off the lane. *)
LEMMA ApplyLands ==
    ASSUME TypeOK, NEW r, NEW next, NEW asked, Apply(r, next, asked)
    PROVE  cadence'.in_flight = FALSE
  <1>0. cadence \in CadenceType
    BY DEF TypeOK
  <1>1. \/ \E t : cadence' = Accepted(cadence, t)
        \/ cadence' = Landed(cadence)
        \/ cadence' = Requested(Landed(cadence))
    BY DEF Apply, Publish, PublishFails, Fail, StateFails, AlreadyAdmitted, Request
  <1>2. /\ \A t : Accepted(cadence, t).in_flight = FALSE
        /\ Landed(cadence).in_flight = FALSE
        /\ Requested(Landed(cadence)).in_flight = FALSE
    BY <1>0, AcceptedFields, LandedFields, RequestedFields
  <1> QED BY <1>1, <1>2

(* A probe is handed over only when the lane and the worker are free. *)
LEMMA AttemptSingle ==
    ASSUME TypeOK, SingleProbe, ~cadence.in_flight, Attempt, worker' = worker, results' = results
    PROVE  SingleProbe'
  <1> DEFINE b == /\ commands = <<>> /\ worker.at # "dead"
                  /\ Cardinality(admitted) <= MaxCheckpoints
  <1>0. cadence \in CadenceType
    BY DEF TypeOK
  <1>1. worker.at # "dead" /\ Outstanding = 0
    BY DEF SingleProbe
  <1>2. commands = <<>> /\ Probing = 0 /\ Len(results) = 0
    <2>1. Len(commands) \in Nat /\ Probing \in Nat /\ Len(results) \in Nat
      BY DEF TypeOK, Probing
    <2>2. Len(commands) = 0
      BY <1>1, <2>1 DEF Outstanding
    <2> QED BY <1>1, <2>1, <2>2 DEF Outstanding, TypeOK
  <1>3. /\ b \in BOOLEAN
        /\ cadence' = Submitted(cadence, b)
        /\ commands' = IF b THEN <<admitted>> ELSE commands
    BY DEF Attempt
  <1> HIDE DEF b
  <1>4. cadence'.in_flight = b
    <2>1. \A d \in BOOLEAN : Submitted(cadence, d).in_flight = d
      BY <1>0, SubmittedFields
    <2> QED BY <1>3, <2>1, Zenon
  <1>5. Probing' = 0
    BY <1>2 DEF Probing
  <1>6. Len(commands') = IF b THEN 1 ELSE 0
    BY <1>2, <1>3
  <1> QED BY <1>1, <1>2, <1>4, <1>5, <1>6 DEF SingleProbe, Outstanding

(* SingleProbe is preserved by every step. *)
LEMMA ProbeStep == TypeOK /\ SingleProbe /\ [Next]_vars => SingleProbe'
  <1> SUFFICES ASSUME TypeOK, SingleProbe, [Next]_vars PROVE SingleProbe'
    OBVIOUS
  <1>0. /\ cadence \in CadenceType
        /\ Len(commands) \in Nat /\ Len(commands) <= 1
        /\ Len(results) \in Nat /\ Probing \in 0 .. 1
    <2>1. Probing \in 0 .. 1
      BY DEF Probing
    <2>2. Len(commands) \in Nat /\ Len(commands) <= 1 /\ Len(results) \in Nat
      BY DEF TypeOK
    <2> QED BY <2>1, <2>2 DEF TypeOK
  <1>a. ASSUME UNCHANGED channels, cadence'.in_flight = cadence.in_flight
        PROVE  SingleProbe'
    BY <1>a DEF channels, SingleProbe, Outstanding, Probing
  <1>1. CASE Begin
    <2>1. cadence'.in_flight = cadence.in_flight
      BY <1>1, <1>0, BegunFields DEF Begin
    <2> QED BY <1>1, <2>1, <1>a DEF Begin
  <1>2. CASE Collect \/ QuotaEvent \/ PublishCycle \/ WaitDone \/ StopSeen
             \/ BoundaryChanged \/ OpenOrClose \/ Terminate
    <2>1. UNCHANGED channels /\ UNCHANGED cadence
      BY <1>2 DEF Collect, QuotaEvent, PublishCycle, WaitDone, StopSeen,
                  BoundaryChanged, OpenOrClose, Terminate, lane
    <2> QED BY <2>1, <1>a
  <1>3. CASE CollectFails
    <2>1. cadence'.in_flight = cadence.in_flight
      BY <1>3, <1>0 DEF CollectFails, lane, CadenceType
    <2> QED BY <1>3, <2>1, <1>a DEF CollectFails
  <1>4. CASE PublishAndStop
    BY <1>4, <1>a DEF PublishAndStop
  <1>5. CASE CycleSubmit
    <2>1. CASE MaySubmit /\ Attempt
      BY <1>5, <2>1, AttemptSingle DEF CycleSubmit, MaySubmit
    <2>2. CASE UNCHANGED <<cadence, commands>>
      BY <1>5, <2>2, <1>a DEF CycleSubmit, channels
    <2> QED BY <1>5, <2>1, <2>2 DEF CycleSubmit
  <1>6. CASE WaitSubmit
    <2>1. CASE Attempt
      BY <1>6, <2>1, AttemptSingle DEF WaitSubmit
    <2>2. CASE cadence' = [cadence EXCEPT !.next_probe = ProbeInterval]
               /\ UNCHANGED commands
      BY <1>6, <2>2, <1>a, <1>0, RescheduledFields DEF WaitSubmit, channels
    <2> QED BY <1>6, <2>1, <2>2 DEF WaitSubmit
  <1>7. CASE Drain
    <2>1. CASE results = <<>>
      BY <1>7, <2>1, <1>a DEF Drain, channels, lane
    <2>2. CASE results # <<>>
      <3>1. Len(results) > 0
        BY <2>2 DEF TypeOK
      <3>2. worker.at # "dead" /\ Len(commands) = 0 /\ Probing = 0
        BY <2>2, <3>1, <1>0 DEF SingleProbe, Outstanding
      <3>3. cadence'.in_flight = FALSE
        BY <1>7, <2>2, ApplyLands DEF Drain
      <3>4. Len(results') = 0 /\ worker' = worker /\ commands' = commands
        BY <1>7 DEF Drain
      <3> QED BY <3>2, <3>3, <3>4 DEF SingleProbe, Outstanding, Probing
    <2> QED BY <2>1, <2>2
  <1>8. CASE WaitResult
    <2>1. Len(results) > 0
      BY <1>8 DEF WaitResult, TypeOK
    <2>2. worker.at # "dead" /\ Len(commands) = 0 /\ Probing = 0 /\ Len(results) = 1
      BY <1>8, <2>1, <1>0 DEF WaitResult, SingleProbe, Outstanding
    <2>3. cadence'.in_flight = FALSE
      BY <1>8, ApplyLands DEF WaitResult
    <2>4. Len(results') = 0 /\ worker' = worker /\ commands' = commands
      BY <1>8, <2>2 DEF WaitResult, TypeOK
    <2> QED BY <2>2, <2>3, <2>4 DEF SingleProbe, Outstanding, Probing
  <1>9. CASE Restart
    BY <1>9 DEF Restart, SingleProbe, Outstanding, Probing, FreshCadence
  <1>10. CASE Take
    <2>0. commands # <<>> => Len(commands) # 0
      BY DEF TypeOK
    <2>a. worker.at = "idle" /\ worker'.at = "probing" /\ commands # <<>>
      BY <1>10 DEF Take
    <2>b. Len(commands) = 1
      <3>1. Len(commands) # 0
        BY <2>0, <2>a
      <3>2. Len(commands) \in Nat /\ Len(commands) <= 1
        BY <1>0
      <3> QED BY <3>1, <3>2
    <2>1. Len(commands) = 1 /\ worker.at = "idle" /\ worker'.at = "probing"
      BY <2>a, <2>b
    <2>2. Len(commands') = 0 /\ results' = results /\ cadence' = cadence
      BY <1>10, <2>1 DEF Take, TypeOK, lane
    <2>3. Probing = 0 /\ Probing' = 1
      BY <2>1 DEF Probing
    <2> QED BY <2>1, <2>2, <2>3, <1>0 DEF SingleProbe, Outstanding
  <1>11. CASE Finish
    <2>1. worker.at = "probing" /\ worker'.at = "idle" /\ Probing = 1 /\ Probing' = 0
      BY <1>11 DEF Finish, Probing
    <2>2. Len(results) = 0 /\ Len(commands) = 0 /\ cadence.in_flight
      BY <2>1, <1>0 DEF SingleProbe, Outstanding, CadenceType
    <2>3. \E r : results' = Append(results, r)
      BY <1>11, <2>2 DEF Finish, Send
    <2>4. Len(results') = 1
      BY <2>2, <2>3 DEF TypeOK
    <2>5. commands' = commands /\ cadence' = cadence
      BY <1>11 DEF Finish, lane
    <2> QED BY <2>1, <2>2, <2>4, <2>5 DEF SingleProbe, Outstanding
  <1>12. CASE Die
    <2>1. Probing = 1
      BY <1>12 DEF Die, Probing
    <2>2. Len(results) = 0 /\ Len(commands) = 0 /\ cadence.in_flight
      BY <1>12, <2>1, <1>0 DEF Die, SingleProbe, Outstanding, CadenceType
    <2>3. results = <<>> /\ commands = <<>>
      BY <2>2 DEF TypeOK
    <2> QED BY <1>12, <2>2, <2>3 DEF Die, SingleProbe, lane
  <1>13. CASE Tick
    <2>1. cadence'.in_flight = cadence.in_flight
      BY <1>13, <1>0 DEF Tick, CadenceType
    <2> QED BY <1>13, <2>1, <1>a DEF Tick
  <1>14. CASE UNCHANGED vars
    BY <1>14, <1>a DEF vars, channels
  <1> QED BY <1>1, <1>2, <1>3, <1>4, <1>5, <1>6, <1>7, <1>8, <1>9, <1>10, <1>11,
            <1>12, <1>13, <1>14 DEF Next, Main, Poller

(* A queued result is alone in its channel. *)
LEMMA LoneResult ==
    ASSUME TypeOK, SingleProbe, results # <<>>
    PROVE  Head(results) = results[Len(results)] /\ Tail(results) = <<>>
  <1>1. results \in Seq(Results)
    BY DEF TypeOK
  <1>2. Len(results) \in Nat /\ Len(results) # 0 /\ Len(commands) \in Nat /\ Probing \in Nat
    BY <1>1 DEF TypeOK, Probing
  <1>3. Len(commands) + Probing + Len(results) <= 1
    BY DEF SingleProbe, Outstanding
  <1>4. Len(results) = 1
    BY <1>2, <1>3
  <1>5. Len(Tail(results)) = 0 /\ Tail(results) \in Seq(Results)
    BY <1>1, <1>4
  <1>6. Tail(results) = <<>>
    BY <1>5, EmptySeq
  <1> QED BY <1>1, <1>4, <1>6

(* The three ways a poll result ends: a snapshot is stored, the lane stays   *)
(* as it was or fails, or one early collection is asked for.                 *)
LEMMA ApplyCases ==
    ASSUME NEW r, NEW next, NEW asked, Apply(r, next, asked)
    PROVE  \/ /\ r.kind = "snapshot"
              /\ \E t : cadence' = Accepted(cadence, t)
              /\ earlies' = 0 /\ health' = "ready" /\ row' = "good"
           \/ /\ cadence' = Landed(cadence) /\ earlies' = earlies
              /\ \/ health' = "failed" /\ row' \in {row, Synced(row, "failed")}
                 \/ UNCHANGED <<health, row>>
           \/ /\ cadence' = Requested(Landed(cadence)) /\ earlies' = earlies
              /\ ~cadence.attempted /\ UNCHANGED <<health, row>>
  BY DEF Apply, Publish, PublishFails, Fail, SyncHealth, StateFails, AlreadyAdmitted, Request

(* RequestsCounted is preserved by every step. *)
LEMMA RequestStep == TypeOK /\ RequestsCounted /\ [Next]_vars => RequestsCounted'
  <1> SUFFICES ASSUME TypeOK, RequestsCounted, [Next]_vars PROVE RequestsCounted'
    OBVIOUS
  <1>0. cadence \in CadenceType /\ earlies \in Nat /\ cadence.attempted \in BOOLEAN
        /\ cadence.pending \in BOOLEAN
    BY DEF TypeOK, CadenceType
  <1>a. ASSUME earlies' = earlies, cadence'.pending = cadence.pending,
               cadence'.attempted = cadence.attempted
        PROVE  RequestsCounted'
    BY <1>a DEF RequestsCounted
  <1>b. ASSUME NEW r, NEW next, NEW asked, Apply(r, next, asked) PROVE RequestsCounted'
    <2>1. CASE (\E t : cadence' = Accepted(cadence, t)) /\ earlies' = 0
      <3>1. cadence'.pending = FALSE /\ cadence'.attempted = FALSE
        BY <2>1, AcceptedFields
      <3> QED BY <2>1, <3>1 DEF RequestsCounted
    <2>2. CASE cadence' = Landed(cadence) /\ earlies' = earlies
      BY <2>2, <1>0, <1>a, LandedFields
    <2>3. CASE cadence' = Requested(Landed(cadence)) /\ earlies' = earlies /\ ~cadence.attempted
      <3>1. cadence'.pending = TRUE /\ cadence'.attempted = TRUE
        BY <2>3, <1>0, RequestedFields
      <3>2. earlies = 0
        BY <2>3, <1>0 DEF RequestsCounted
      <3> QED BY <2>3, <3>1, <3>2 DEF RequestsCounted
    <2> QED BY <1>b, <2>1, <2>2, <2>3, ApplyCases
  <1>c. ASSUME Attempt, earlies' = earlies PROVE RequestsCounted'
    <2>1. PICK b \in BOOLEAN : cadence' = Submitted(cadence, b)
      BY <1>c DEF Attempt
    <2>2. cadence'.pending = cadence.pending /\ cadence'.attempted = cadence.attempted
      BY <2>1, <1>0, SubmittedFields
    <2> QED BY <1>c, <2>2, <1>a
  <1>1. CASE Begin
    <2>1. CASE cadence.pending
      <3>1. cadence'.pending = FALSE /\ cadence'.attempted = cadence.attempted
        BY <1>1, <2>1, <1>0, BegunFields DEF Begin
      <3>2. earlies' = earlies + 1
        BY <1>1, <2>1 DEF Begin
      <3> QED BY <2>1, <3>1, <3>2, <1>0 DEF RequestsCounted
    <2>2. CASE ~cadence.pending
      BY <1>1, <2>2, <1>a DEF Begin
    <2> QED BY <2>1, <2>2
  <1>2. CASE Collect \/ QuotaEvent \/ PublishCycle \/ PublishAndStop \/ WaitDone
             \/ StopSeen \/ BoundaryChanged \/ OpenOrClose \/ Terminate
             \/ Take \/ Finish \/ Die
    <2>1. UNCHANGED <<cadence, earlies>>
      BY <1>2 DEF Collect, QuotaEvent, PublishCycle, PublishAndStop, WaitDone, StopSeen,
                  BoundaryChanged, OpenOrClose, Terminate, Take, Finish, Die, lane, history
    <2> QED BY <2>1, <1>a
  <1>3. CASE CollectFails
    <2>1. earlies' = earlies /\ cadence'.pending = cadence.pending
          /\ cadence'.attempted = cadence.attempted
      BY <1>3, <1>0 DEF CollectFails, lane, CadenceType
    <2> QED BY <2>1, <1>a
  <1>4. CASE CycleSubmit
    <2>1. CASE Attempt
      BY <1>4, <2>1, <1>c DEF CycleSubmit
    <2>2. CASE UNCHANGED cadence
      BY <1>4, <2>2, <1>a DEF CycleSubmit
    <2> QED BY <1>4, <2>1, <2>2 DEF CycleSubmit
  <1>5. CASE WaitSubmit
    <2>1. CASE Attempt
      BY <1>5, <2>1, <1>c DEF WaitSubmit
    <2>2. CASE cadence' = [cadence EXCEPT !.next_probe = ProbeInterval]
      BY <1>5, <2>2, <1>0, <1>a, RescheduledFields DEF WaitSubmit
    <2> QED BY <1>5, <2>1, <2>2 DEF WaitSubmit
  <1>6. CASE Drain
    <2>1. CASE UNCHANGED <<cadence, earlies>>
      BY <2>1, <1>a
    <2>2. CASE Apply(results[Len(results)], "publish", "publish")
      BY <2>2, <1>b
    <2> QED BY <1>6, <2>1, <2>2 DEF Drain, lane
  <1>7. CASE WaitResult
    BY <1>7, <1>b DEF WaitResult
  <1>8. CASE Restart
    <2>1. earlies' = 0 /\ cadence'.pending = FALSE /\ cadence'.attempted = FALSE
      BY <1>8 DEF Restart, FreshCadence
    <2> QED BY <2>1 DEF RequestsCounted
  <1>9. CASE Tick
    <2>1. earlies' = earlies /\ cadence'.pending = cadence.pending
          /\ cadence'.attempted = cadence.attempted
      BY <1>9, <1>0 DEF Tick, CadenceType
    <2> QED BY <2>1, <1>a
  <1>10. CASE UNCHANGED vars
    BY <1>10, <1>a DEF vars
  <1> QED BY <1>1, <1>2, <1>3, <1>4, <1>5, <1>6, <1>7, <1>8, <1>9, <1>10
       DEF Next, Main, Poller

(* ReadyIsStored is preserved by every step. *)
LEMMA StoreStep == TypeOK /\ ReadyIsStored /\ [Next]_vars => ReadyIsStored'
  <1> SUFFICES ASSUME TypeOK, ReadyIsStored, [Next]_vars PROVE ReadyIsStored'
    OBVIOUS
  <1>a. ASSUME SyncHealth(health), health' = health PROVE ReadyIsStored'
    BY <1>a DEF SyncHealth, Synced, ReadyIsStored
  <1>b. ASSUME NEW r, NEW next, NEW asked, Apply(r, next, asked) PROVE ReadyIsStored'
    BY <1>b, ApplyCases DEF ReadyIsStored
  <1>c. ASSUME UNCHANGED <<health, row>> PROVE ReadyIsStored'
    BY <1>c DEF ReadyIsStored
  <1>1. CASE Begin \/ QuotaEvent
    BY <1>1, <1>a, <1>c DEF Begin, QuotaEvent, lane
  <1>2. CASE CollectFails \/ PublishAndStop
    BY <1>2 DEF CollectFails, PublishAndStop, ReadyIsStored, lane
  <1>3. CASE Drain \/ WaitResult
    BY <1>3, <1>b, <1>c DEF Drain, WaitResult, lane
  <1>4. CASE Restart
    BY <1>4 DEF Restart, ReadyIsStored
  <1>5. CASE Collect \/ CycleSubmit \/ PublishCycle \/ WaitSubmit \/ WaitDone
             \/ StopSeen \/ BoundaryChanged \/ OpenOrClose \/ Terminate
             \/ Take \/ Finish \/ Die \/ Tick \/ UNCHANGED vars
    <2>1. UNCHANGED <<health, row>>
      BY <1>5 DEF Collect, CycleSubmit, PublishCycle, WaitSubmit, WaitDone, StopSeen,
                  BoundaryChanged, OpenOrClose, Terminate, Take, Finish, Die, Tick, lane, vars
    <2> QED BY <2>1, <1>c
  <1> QED BY <1>1, <1>2, <1>3, <1>4, <1>5 DEF Next, Main, Poller

(* RequestFirst is preserved by every step. *)
LEMMA FirstStep ==
    TypeOK /\ SingleProbe /\ RequestsCounted /\ RequestFirst /\ [Next]_vars => RequestFirst'
  <1> SUFFICES ASSUME TypeOK, SingleProbe, RequestsCounted, RequestFirst, [Next]_vars
               PROVE  RequestFirst'
    OBVIOUS
  <1>0. cadence \in CadenceType /\ earlies \in Nat
        /\ cadence.pending \in BOOLEAN /\ cadence.attempted \in BOOLEAN
        /\ cadence.in_flight \in BOOLEAN
    BY DEF TypeOK, CadenceType
  <1>p. cadence.pending => cadence.attempted
    BY <1>0 DEF RequestsCounted
  <1>q. results # <<>> => cadence.in_flight
    <2>1. results # <<>> => Len(results) # 0
      BY DEF TypeOK
    <2>2. Len(commands) \in Nat /\ Len(results) \in Nat /\ Probing \in Nat
      BY DEF TypeOK, Probing
    <2> QED BY <2>1, <2>2 DEF SingleProbe, Outstanding
  <1>a. ASSUME ~cadence.pending, cadence'.pending = cadence.pending, pc' # "collect"
        PROVE  RequestFirst'
    BY <1>a DEF RequestFirst
  <1>b. ASSUME NEW r, NEW next, NEW asked, Apply(r, next, asked), results # <<>>,
               pc # "collect", next # "collect", asked \in {"publish", "begin"}
        PROVE  RequestFirst'
    <2>1. ~cadence.pending
      BY <1>b, <1>q DEF RequestFirst
    <2>2. CASE cadence' = Requested(Landed(cadence)) /\ pc' = asked
      BY <1>b, <2>2, <1>0, RequestedFields DEF RequestFirst
    <2>3. CASE (\E t : cadence' = Accepted(cadence, t)) /\ pc' = next
      <3>1. cadence'.pending = FALSE
        BY <2>3, AcceptedFields
      <3> QED BY <1>b, <2>3, <3>1 DEF RequestFirst
    <2>4. CASE cadence' = Landed(cadence) /\ pc' \in {next, "exit"}
      <3>1. cadence'.pending = cadence.pending
        BY <2>4, <1>0, LandedFields
      <3> QED BY <1>b, <2>1, <2>4, <3>1, <1>a
    <2> QED BY <1>b, <2>2, <2>3, <2>4
         DEF Apply, Publish, PublishFails, Fail, StateFails, AlreadyAdmitted, Request
  <1>1. CASE Begin
    <2>1. CASE cadence.pending
      <3>1. /\ cadence'.pending = FALSE /\ cadence'.in_flight = cadence.in_flight
            /\ cadence'.attempted = cadence.attempted
        BY <1>1, <2>1, <1>0, BegunFields DEF Begin
      <3> QED BY <2>1, <3>1, <1>p DEF RequestFirst
    <2>2. CASE ~cadence.pending
      BY <1>1, <2>2 DEF Begin, RequestFirst
    <2> QED BY <2>1, <2>2
  <1>2. CASE Collect \/ QuotaEvent \/ WaitDone
    BY <1>2, <1>a DEF Collect, QuotaEvent, WaitDone, RequestFirst, lane
  <1>3. CASE CollectFails
    <2>1. cadence'.pending = cadence.pending
      BY <1>3, <1>0 DEF CollectFails, lane, CadenceType
    <2> QED BY <1>3, <2>1, <1>a DEF CollectFails, RequestFirst
  <1>4. CASE PublishCycle \/ PublishAndStop \/ StopSeen \/ BoundaryChanged
    BY <1>4 DEF PublishCycle, PublishAndStop, StopSeen, BoundaryChanged, RequestFirst, lane
  <1>5. CASE CycleSubmit \/ WaitSubmit
    <2>1. ~cadence.pending /\ pc' # "collect"
      BY <1>5 DEF CycleSubmit, WaitSubmit, RequestFirst
    <2>2. CASE Attempt
      <3>1. PICK b \in BOOLEAN : cadence' = Submitted(cadence, b)
        BY <2>2 DEF Attempt
      <3>2. cadence'.pending = cadence.pending
        BY <3>1, <1>0, SubmittedFields
      <3> QED BY <2>1, <3>2, <1>a
    <2>3. CASE UNCHANGED cadence
      BY <2>1, <2>3, <1>a
    <2>4. CASE cadence' = [cadence EXCEPT !.next_probe = ProbeInterval]
      BY <2>1, <2>4, <1>0, <1>a, RescheduledFields
    <2> QED BY <1>5, <2>2, <2>3, <2>4 DEF CycleSubmit, WaitSubmit
  <1>6. CASE Drain
    <2>1. CASE results = <<>>
      BY <1>6, <2>1 DEF Drain, lane, RequestFirst
    <2>2. CASE results # <<>>
      BY <1>6, <2>2, <1>b DEF Drain
    <2> QED BY <2>1, <2>2
  <1>7. CASE WaitResult
    BY <1>7, <1>b DEF WaitResult
  <1>8. CASE Restart
    BY <1>8 DEF Restart, RequestFirst, FreshCadence
  <1>9. CASE Tick
    <2>1. /\ cadence'.pending = cadence.pending /\ cadence'.in_flight = cadence.in_flight
          /\ cadence'.attempted = cadence.attempted
      BY <1>9, <1>0 DEF Tick, CadenceType
    <2> QED BY <1>9, <2>1 DEF Tick, RequestFirst
  <1>10. CASE Take \/ Finish \/ Die \/ OpenOrClose \/ Terminate \/ UNCHANGED vars
    <2>1. UNCHANGED <<pc, early, cadence>>
      BY <1>10 DEF Take, Finish, Die, OpenOrClose, Terminate, vars, lane
    <2> QED BY <2>1 DEF RequestFirst
  <1> QED BY <1>1, <1>2, <1>3, <1>4, <1>5, <1>6, <1>7, <1>8, <1>9, <1>10
       DEF Next, Main, Poller

(* RejectionHeld is preserved by every step. *)
LEMMA RejectStep == LaneInv /\ [Next]_vars => RejectionHeld'
  <1> SUFFICES ASSUME LaneInv, [Next]_vars PROVE RejectionHeld'
    OBVIOUS
  <1> USE TimesAssumption
  <1>i. TypeOK /\ SingleProbe /\ RequestsCounted /\ RequestFirst /\ RejectionHeld
    BY DEF LaneInv
  <1>0. cadence \in CadenceType /\ until \in -MaxLate .. Interval
        /\ cadence.next_probe \in NotSet .. Interval + ProbeInterval
        /\ early \in BOOLEAN
    BY <1>i DEF TypeOK, CadenceType
  <1>q. results # <<>> => cadence.in_flight
    <2>1. results # <<>> => Len(results) # 0
      BY <1>i DEF TypeOK
    <2>2. Len(commands) \in Nat /\ Len(results) \in Nat /\ Probing \in Nat
      BY <1>i DEF TypeOK, Probing
    <2> QED BY <1>i, <2>1, <2>2 DEF SingleProbe, Outstanding
  <1>a. ASSUME rejected' = rejected, cadence' = cadence, until' = until,
               pc' = pc \/ pc' \notin {"event", "submit", "drain", "publish", "wait", "collect"}
               \/ (pc = "event" /\ pc' = "submit")
               \/ (pc \in {"submit", "drain", "publish"} /\ pc' \in {"drain", "publish", "wait"}),
               early' = early
        PROVE  RejectionHeld'
    BY <1>a, <1>i DEF RejectionHeld
  <1>b. ASSUME NEW r, NEW next, NEW asked, Apply(r, next, asked), results # <<>>,
               rejected' = rejected, until' = until, next \in {"publish", "wait"},
               asked \in {"publish", "begin"}, pc \in {"drain", "wait"}
        PROVE  RejectionHeld'
    <2> SUFFICES ASSUME rejected PROVE RejectionHeld'
      BY <1>b DEF RejectionHeld
    <2>1. cadence.in_flight /\ cadence.attempted /\ ~cadence.pending /\ ~(until > 0)
      BY <1>b, <1>q, <1>i DEF RejectionHeld
    <2>2. pc' \in {"publish", "wait", "begin", "exit"}
      BY <1>b DEF Apply, Publish, PublishFails, Fail, StateFails, AlreadyAdmitted, Request
    <2>3. cadence'.in_flight = FALSE
      BY <1>b, <1>i, ApplyLands
    <2>4. cadence'.pending = FALSE
      <3>1. (\E t : cadence' = Accepted(cadence, t)) \/ cadence' = Landed(cadence)
        BY <1>b, <2>1, ApplyCases
      <3>2. CASE \E t : cadence' = Accepted(cadence, t)
        BY <3>2, AcceptedFields
      <3>3. CASE cadence' = Landed(cadence)
        <4>1. Landed(cadence).pending = cadence.pending
          BY <1>0, LandedFields
        <4>2. cadence.pending \in BOOLEAN
          BY <1>0 DEF CadenceType
        <4>3. cadence.pending = FALSE
          BY <2>1, <4>2
        <4> QED BY <3>3, <4>1, <4>3
      <3> QED BY <3>1, <3>2, <3>3
    <2> QED BY <1>b, <2>1, <2>2, <2>3, <2>4 DEF RejectionHeld
  <1>1. CASE Begin
    BY <1>1, <1>i DEF Begin, RejectionHeld
  <1>2. CASE Collect
    BY <1>2, <1>i DEF Collect, RejectionHeld
  <1>3. CASE CollectFails
    <2> SUFFICES ASSUME early PROVE RejectionHeld'
      BY <1>3 DEF CollectFails, RejectionHeld
    <2>1. ~cadence.in_flight /\ ~cadence.pending /\ cadence.attempted
      BY <1>3, <1>i DEF CollectFails, RequestFirst
    <2>2. cadence' = [cadence EXCEPT !.next_probe = IF until > 0 THEN until ELSE 0]
      BY <1>3 DEF CollectFails
    <2>3. /\ cadence'.in_flight = cadence.in_flight /\ cadence'.pending = cadence.pending
          /\ cadence'.attempted = cadence.attempted
          /\ cadence'.next_probe = IF until > 0 THEN until ELSE 0
      BY <2>2, <1>0, RescheduledFields
    <2>4. pc' = "event" /\ until' = until
      BY <1>3 DEF CollectFails
    <2> QED BY <2>1, <2>3, <2>4, <1>0 DEF RejectionHeld
  <1>4. CASE QuotaEvent
    BY <1>4, <1>a DEF QuotaEvent, lane, history
  <1>5. CASE CycleSubmit
    <2>1. CASE UNCHANGED cadence
      BY <1>5, <2>1, <1>a DEF CycleSubmit
    <2>2. CASE MaySubmit /\ Attempt
      <3> SUFFICES ASSUME rejected PROVE RejectionHeld'
        BY <1>5 DEF CycleSubmit, RejectionHeld
      <3>1. cadence.attempted /\ ~cadence.pending
        BY <1>5, <1>i DEF CycleSubmit, RejectionHeld
      <3>2. ~(until > 0)
        BY <1>5, <2>2, <1>i, <1>0 DEF CycleSubmit, RejectionHeld, MaySubmit, NotSet
      <3>3. PICK b \in BOOLEAN : cadence' = Submitted(cadence, b)
        BY <2>2 DEF Attempt
      <3>4. cadence'.pending = cadence.pending /\ cadence'.attempted = cadence.attempted
        BY <3>3, <1>0, SubmittedFields
      <3>5. pc' = "drain" /\ until' = until /\ rejected' = rejected
        BY <1>5 DEF CycleSubmit
      <3> QED BY <3>1, <3>2, <3>4, <3>5 DEF RejectionHeld
    <2> QED BY <1>5, <2>1, <2>2 DEF CycleSubmit
  <1>6. CASE Drain
    <2>1. CASE results = <<>>
      BY <1>6, <2>1, <1>a DEF Drain, lane
    <2>2. CASE results # <<>>
      BY <1>6, <2>2, <1>b DEF Drain
    <2> QED BY <2>1, <2>2
  <1>7. CASE PublishCycle
    BY <1>7, <1>i DEF PublishCycle, RejectionHeld, lane, history
  <1>8. CASE PublishAndStop \/ StopSeen \/ BoundaryChanged
    BY <1>8, <1>a DEF PublishAndStop, StopSeen, BoundaryChanged, lane, history
  <1>9. CASE WaitSubmit
    <2>1. ~rejected
      BY <1>9, <1>i, <1>0 DEF WaitSubmit, RejectionHeld
    <2> QED BY <1>9, <2>1 DEF WaitSubmit, RejectionHeld
  <1>10. CASE WaitResult
    BY <1>10, <1>b DEF WaitResult
  <1>11. CASE WaitDone
    BY <1>11, <1>i DEF WaitDone, RejectionHeld, lane, history
  <1>12. CASE Restart
    BY <1>12 DEF Restart, RejectionHeld
  <1>13. CASE Tick
    <2>1. /\ cadence'.pending = cadence.pending /\ cadence'.in_flight = cadence.in_flight
          /\ cadence'.attempted = cadence.attempted
          /\ cadence'.next_probe = IF cadence.next_probe > 0 THEN cadence.next_probe - 1
                                   ELSE cadence.next_probe
      BY <1>13, <1>0 DEF Tick, CadenceType
    <2>2. until' = until - 1 /\ UNCHANGED <<pc, early, rejected>>
      BY <1>13 DEF Tick
    <2> QED BY <2>1, <2>2, <1>i, <1>0 DEF RejectionHeld, NotSet
  <1>14. CASE Take \/ Finish \/ Die \/ OpenOrClose \/ Terminate \/ UNCHANGED vars
    <2>1. UNCHANGED <<pc, early, cadence, until, rejected>>
      BY <1>14 DEF Take, Finish, Die, OpenOrClose, Terminate, vars, lane, history
    <2> QED BY <2>1, <1>a
  <1> QED BY <1>1, <1>2, <1>3, <1>4, <1>5, <1>6, <1>7, <1>8, <1>9, <1>10, <1>11, <1>12,
            <1>13, <1>14 DEF Next, Main, Poller

-----------------------------------------------------------------------------
(* The invariant of the lane holds for every number of Sessions, every      *)
(* interval and every number of disturbances.                               *)
THEOREM LaneIsSound == Spec => []LaneInv
  <1>1. Init => LaneInv
    BY InitInv
  <1>2. LaneInv /\ [Next]_vars => LaneInv'
    <2> SUFFICES ASSUME LaneInv, [Next]_vars PROVE LaneInv'
      OBVIOUS
    <2>1. TypeOK /\ SingleProbe /\ RequestsCounted /\ ReadyIsStored /\ RequestFirst
      BY DEF LaneInv
    <2>2. TypeOK' /\ SingleProbe' /\ RequestsCounted' /\ ReadyIsStored'
      BY <2>1, TypeStep, ProbeStep, RequestStep, StoreStep
    <2>3. RequestFirst' /\ RejectionHeld'
      BY <2>1, FirstStep, RejectStep
    <2> QED BY <2>2, <2>3 DEF LaneInv
  <1> QED BY <1>1, <1>2, PTL DEF Spec

(* ThreadPoller never holds two probes, and no result is lost. *)
THEOREM OneProbeAtATime == Spec => []SingleProbe
  <1>1. LaneInv => SingleProbe
    BY DEF LaneInv
  <1> QED BY <1>1, LaneIsSound, PTL

(* CheckpointRecovery asks for one early collection per episode. *)
THEOREM OneRecollectionPerEpisode == Spec => []OneRecollection
  <1>1. LaneInv => OneRecollection
    <2> SUFFICES ASSUME LaneInv PROVE OneRecollection
      OBVIOUS
    <2>1. earlies \in Nat /\ RequestsCounted
      BY DEF LaneInv, TypeOK
    <2> QED BY <2>1 DEF RequestsCounted, OneRecollection
  <1> QED BY <1>1, LaneIsSound, PTL

(* A lane that is ready in memory has no degraded row. *)
THEOREM ReadyLaneIsStored == Spec => []ReadyIsStored
  <1>1. LaneInv => ReadyIsStored
    BY DEF LaneInv
  <1> QED BY <1>1, LaneIsSound, PTL

(* sync_acquisition_health never lifts a degraded mark by itself. *)
THEOREM OnlySnapshotsClear == Spec => ClearedBySnapshot
  <1> DEFINE Clears == row = "degraded" /\ row' # "degraded"
                         => /\ results # <<>>
                            /\ results[Len(results)].kind = "snapshot"
                            /\ results' = <<>>
  <1>1. LaneInv /\ [Next]_vars => [Clears]_vars
    <2> SUFFICES ASSUME LaneInv, Next, row = "degraded", row' # "degraded"
                 PROVE  /\ results # <<>>
                        /\ results[Len(results)].kind = "snapshot"
                        /\ results' = <<>>
      BY DEF vars
    <2>0. health # "ready" /\ TypeOK /\ SingleProbe
      BY DEF LaneInv, ReadyIsStored
    <2>a. ASSUME SyncHealth(health) PROVE FALSE
      BY <2>a, <2>0 DEF SyncHealth, Synced, TypeOK, Healths
    <2>1. ~(Begin \/ QuotaEvent)
      BY <2>a DEF Begin, QuotaEvent
    <2>2. ~(CollectFails \/ PublishAndStop)
      BY DEF CollectFails, PublishAndStop, SyncHealth, Synced
    <2>3. ~(Collect \/ CycleSubmit \/ PublishCycle \/ WaitSubmit \/ WaitDone \/ StopSeen
            \/ BoundaryChanged \/ Restart \/ OpenOrClose \/ Terminate
            \/ Take \/ Finish \/ Die \/ Tick)
      BY DEF Collect, CycleSubmit, PublishCycle, WaitSubmit, WaitDone, StopSeen,
             BoundaryChanged, Restart, OpenOrClose, Terminate, Take, Finish, Die, Tick
    <2>4. CASE Drain
      <3>1. results # <<>> /\ Apply(results[Len(results)], "publish", "publish")
        BY <2>4 DEF Drain
      <3>2. results[Len(results)].kind = "snapshot"
        BY <3>1, ApplyCases DEF Synced
      <3> QED BY <2>4, <3>1, <3>2 DEF Drain
    <2>5. CASE WaitResult
      <3>1. results # <<>> /\ Apply(Head(results), "wait", "begin")
        BY <2>5 DEF WaitResult
      <3>2. Head(results).kind = "snapshot"
        BY <3>1, ApplyCases DEF Synced
      <3>3. Head(results) = results[Len(results)] /\ Tail(results) = <<>>
        BY <3>1, <2>0, LoneResult
      <3> QED BY <2>5, <3>1, <3>2, <3>3 DEF WaitResult
    <2> QED BY <2>1, <2>2, <2>3, <2>4, <2>5 DEF Next, Main, Poller
  <1> QED BY <1>1, LaneIsSound, PTL DEF Spec, ClearedBySnapshot

(* reject_checkpoint_recollection keeps the old inventory from being probed *)
(* before the deadline.                                                      *)
THEOREM RejectionHolds == Spec => RejectionStands
  <1> DEFINE Stands == rejected /\ rejected' /\ until > 0 => ~Submits
  <1>1. LaneInv /\ [Next]_vars => [Stands]_vars
    <2> SUFFICES ASSUME LaneInv, Next, rejected, rejected', until > 0
                 PROVE  ~Submits
      BY DEF vars
    <2>0. TypeOK /\ RejectionHeld /\ Len(commands) \in Nat
      BY DEF LaneInv, TypeOK
    <2>1. CASE CycleSubmit
      <3>1. ~MaySubmit
        <4>1. cadence.next_probe >= until /\ until \in Int /\ cadence.next_probe \in Int
          BY <2>1, <2>0, TimesAssumption
             DEF RejectionHeld, CycleSubmit, TypeOK, CadenceType, NotSet
        <4> QED BY <4>1 DEF MaySubmit
      <3> QED BY <2>1, <3>1, <2>0 DEF CycleSubmit, Submits
    <2>2. CASE WaitSubmit
      BY <2>2, <2>0, TimesAssumption DEF RejectionHeld, WaitSubmit, TypeOK
    <2>3. CASE Restart
      BY <2>3 DEF Restart
    <2>4. CASE Take
      <3>1. Len(commands') <= Len(commands) /\ Len(commands') \in Nat
        BY <2>4, <2>0 DEF Take, TypeOK
      <3> QED BY <3>1, <2>0 DEF Submits
    <2>5. CASE UNCHANGED commands
      BY <2>5, <2>0 DEF Submits
    <2>6. CASE Begin \/ Collect \/ CollectFails \/ QuotaEvent \/ Drain \/ PublishCycle
               \/ PublishAndStop \/ WaitResult \/ WaitDone \/ StopSeen \/ BoundaryChanged
               \/ OpenOrClose \/ Terminate \/ Finish \/ Die \/ Tick
      <3>1. UNCHANGED commands
        BY <2>6 DEF Begin, Collect, CollectFails, QuotaEvent, Drain, PublishCycle,
                    PublishAndStop, WaitResult, WaitDone, StopSeen, BoundaryChanged,
                    OpenOrClose, Terminate, Finish, Die, Tick, channels
      <3> QED BY <3>1, <2>5
    <2> QED BY <2>1, <2>2, <2>3, <2>4, <2>6 DEF Next, Main, Poller
  <1> QED BY <1>1, LaneIsSound, PTL DEF Spec, RejectionStands
=============================================================================
