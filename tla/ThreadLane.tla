------------------------------ MODULE ThreadLane ------------------------------
(***************************************************************************)
(* The active-thread lane of the recorder.  Once per collection cycle, and *)
(* every ProbeInterval while token totals move, the main loop hands the    *)
(* admitted Session checkpoints to the ThreadPoller worker, which compares *)
(* them with the Sessions that are open and answers with a snapshot, a     *)
(* checkpoint mismatch or a failure.  A first mismatch asks for one early  *)
(* collection; only when that did not help is the lane marked degraded.    *)
(*                                                                         *)
(* All times are relative: next_probe and until count down to their        *)
(* instant, last_delta counts up from it, and Tick moves them together, so *)
(* the model needs no horizon.                                             *)
(*                                                                         *)
(* Source: crates/codex-info-recorder/src/main.rs (CheckpointRecovery,     *)
(* AdaptiveThreadCadence, commit_thread_poll_result,                       *)
(* complete_cycle_publication_and_wait, the loop of main) and lib.rs       *)
(* (ThreadPoller, collect_active_thread_snapshot).                         *)
(***************************************************************************)
EXTENDS Integers, Sequences, FiniteSets

CONSTANTS Sources,         \* Session files
          Counts,          \* known values of total_tokens
          Interval,        \* the configured collection interval
          ProbeInterval,   \* ACTIVE_THREAD_INTERVAL
          StableWindow,    \* ACTIVE_THREAD_STABLE_WINDOW
          MaxLate,         \* bound: how late a step may run after a deadline
          MaxCheckpoints,  \* MAX_THREAD_CHECKPOINTS
          MaxDisturbances  \* bound: faults, and Sessions opened or closed

ASSUME SourcesAssumption == IsFiniteSet(Sources)

ASSUME CountsAssumption == Counts \subseteq Nat

ASSUME TimesAssumption ==
    /\ Interval \in Nat \ {0}
    /\ ProbeInterval \in Nat \ {0}
    /\ StableWindow \in Nat
    /\ MaxLate \in 0 .. Interval - 1

ASSUME LimitsAssumption == MaxCheckpoints \in Nat /\ MaxDisturbances \in Nat

VARIABLES
  pc,         \* the step of the main loop; "exit": the process is gone
  stop,       \* SHUTDOWN_REQUESTED
  early,      \* early_recollection of the running cycle
  cadence,    \* AdaptiveThreadCadence with its CheckpointRecovery
  health,     \* thread_health, in memory
  row,        \* the active_thread_snapshot row of the account database
  live,       \* the Sessions a Codex process holds open
  admitted,   \* the Sessions with a durable checkpoint
  worker,     \* the ThreadPoller thread
  commands,   \* sync_channel(1) to it
  results,    \* sync_channel(2) from it
  until,      \* time to the schedule's next deadline; negative: late
  budget,     \* disturbances still to come
  gap,        \* history: time since a probe was last submitted
  earlies,    \* history: early collections since a snapshot was accepted
  rejected    \* history: a failed early collection still stands

lane == <<cadence, health>>
channels == <<worker, commands, results>>
sessions == <<live, admitted>>
history == <<gap, earlies, rejected>>
vars == <<pc, stop, early, cadence, health, row, live, admitted, worker,
          commands, results, until, budget, gap, earlies, rejected>>

NotSet == -1    \* Option::None of an instant
Unknown == -1   \* total_tokens is NULL

\* A snapshot, reduced to what the cadence compares.
Totals == UNION {[S -> Counts \cup {Unknown}] : S \in SUBSET Sources}
NoThreads == [s \in {} |-> Unknown]

Failed == [kind |-> "failed"]
Mismatch(S) == [kind |-> "mismatch", sources |-> S]
Snapshot(t) == [kind |-> "snapshot", totals |-> t]

Healths == {"unknown", "ready", "failed"}
Rows == {"absent", "good", "degraded"}

Lower(a, b) == IF a < b THEN a ELSE b

-----------------------------------------------------------------------------
(* AdaptiveThreadCadence, and what it remembers of one process. *)

FreshCadence == [in_flight |-> FALSE, next_probe |-> NotSet,
                 last_delta |-> NotSet, totals |-> NoThreads,
                 based |-> FALSE, attempted |-> FALSE, pending |-> FALSE]

\* Both totals of some thread are known and differ.
Moved(old, new) ==
    \E id \in DOMAIN old \cap DOMAIN new :
        old[id] # Unknown /\ new[id] # Unknown /\ old[id] # new[id]

\* The same threads with the same totals, not all of them unknown.
Unmoved(old, new) ==
    /\ old = new
    /\ DOMAIN new = {} \/ \E id \in DOMAIN new : new[id] # Unknown

\* AdaptiveThreadCadence::accept.  The epoch is the process's own; it is
\* absent before the first snapshot (based).
Accepted(c, new) ==
    LET moved == c.based /\ Moved(c.totals, new)
        calm == /\ ~moved
                /\ c.last_delta >= StableWindow
                /\ Unmoved(c.totals, new)
        reset == ~c.based \/ calm
    IN  [in_flight |-> FALSE,
         next_probe |-> CASE reset -> NotSet
                          [] moved /\ c.last_delta = NotSet -> ProbeInterval
                          [] OTHER -> c.next_probe,
         last_delta |-> CASE reset -> NotSet
                          [] moved -> 0
                          [] OTHER -> c.last_delta,
         totals |-> new, based |-> TRUE,
         attempted |-> FALSE, pending |-> FALSE]

\* begin_checkpoint_recovery
Begun(c) == [c EXCEPT !.pending = FALSE, !.next_probe = NotSet]

\* Mutant: the request is not remembered.
RequestedAgain(c) == [c EXCEPT !.pending = TRUE]

\* CheckpointRecovery::request, when nothing was attempted yet
Requested(c) == [c EXCEPT !.attempted = TRUE, !.pending = TRUE]

\* Mutant: the flag is not reset when the result arrives.
NeverLanded(c) == c

\* AdaptiveThreadCadence::failed
Landed(c) == [c EXCEPT !.in_flight = FALSE]

\* AdaptiveThreadCadence::submit, past its guard
Submitted(c, accepted) ==
    [c EXCEPT !.next_probe = IF c.last_delta # NotSet THEN ProbeInterval ELSE @,
              !.in_flight = accepted]

-----------------------------------------------------------------------------
(* The account database. *)

\* Mutant: a health nobody has measured yet clears the mark.
SyncedUnmeasured(r, h) == IF r = "absent" THEN r
                          ELSE IF h = "failed" THEN "degraded" ELSE "good"

\* sync_acquisition_health with set_acquisition_degraded: no row, no effect.
Synced(r, h) == IF r = "absent" \/ h = "unknown" THEN r
                ELSE IF h = "failed" THEN "degraded" ELSE "good"

Disturb == budget > 0 /\ budget' = budget - 1

\* The commit of the health may fail; that is logged and forgotten.
SyncHealth(h) == \/ row' = Synced(row, h) /\ UNCHANGED budget
                 \/ row' = row /\ Disturb

-----------------------------------------------------------------------------
Init ==
    /\ pc = "begin" /\ stop = FALSE /\ early = FALSE
    /\ cadence = FreshCadence /\ health = "unknown"
    /\ row \in Rows
    /\ live \in SUBSET Sources /\ admitted \in SUBSET Sources
    /\ worker = [at |-> "idle", inventory |-> {}]
    /\ commands = <<>> /\ results = <<>>
    /\ until = Interval /\ budget = MaxDisturbances
    /\ gap = ProbeInterval /\ earlies = 0 /\ rejected = FALSE

(* The top of the main loop: an early collection that was asked for starts *)
(* now, and the health is written again, in case it was lost.              *)
Begin ==
    /\ pc = "begin" /\ ~stop
    /\ pc' = "collect"
    /\ early' = cadence.pending
    /\ cadence' = IF cadence.pending THEN Begun(cadence) ELSE cadence
    /\ earlies' = IF cadence.pending THEN earlies + 1 ELSE earlies
    /\ SyncHealth(health)
    /\ UNCHANGED <<stop, health, live, admitted, channels, until, gap, rejected>>

(* run_account_cycle_with_stored_quota_guarded returned a report, or       *)
(* nothing new.  It has admitted the open Sessions; leaving some out (the  *)
(* read budget, an unqualified source) counts as a disturbance.            *)
Collect ==
    /\ pc = "collect" /\ ~stop
    /\ pc' = "event"
    /\ \/ admitted' = admitted \cup live /\ UNCHANGED budget
       \/ (\E S \in SUBSET live : admitted' = admitted \cup S) /\ Disturb
    /\ rejected' = (rejected /\ early)
    /\ UNCHANGED <<stop, early, lane, row, live, channels, until, gap, earlies>>

\* Mutant: the probe is not put off after a failed early collection.
CollectFailsOnly ==
    /\ pc = "collect" /\ ~stop
    /\ pc' = "event"
    /\ Disturb
    /\ IF early
       THEN health' = "failed" /\ row' \in {row, Synced(row, "failed")}
       ELSE UNCHANGED <<health, row>>
    /\ rejected' = early
    /\ UNCHANGED <<stop, early, cadence, sessions, channels, until, gap, earlies>>

(* The collection failed.  reject_checkpoint_recollection after an early   *)
(* one: the failure may also hit the write of the health.                  *)
CollectFails ==
    /\ pc = "collect" /\ ~stop
    /\ pc' = "event"
    /\ Disturb
    /\ IF early
       THEN /\ health' = "failed"
            /\ row' \in {row, Synced(row, "failed")}
            /\ cadence' = [cadence EXCEPT !.next_probe = IF until > 0 THEN until ELSE 0]
       ELSE UNCHANGED <<lane, row>>
    /\ rejected' = early
    /\ UNCHANGED <<stop, early, sessions, channels, until, gap, earlies>>

(* A quota event, if there is one, writes the health once more. *)
QuotaEvent ==
    /\ pc = "event"
    /\ pc' = "submit"
    /\ SyncHealth(health) \/ UNCHANGED <<row, budget>>
    /\ UNCHANGED <<stop, early, lane, sessions, channels, until, history>>

\* Mutant: a probe on its way does not hold back the next one.
MaySubmitAgain == cadence.next_probe <= 0

(* The guard of AdaptiveThreadCadence::submit and ThreadPoller::submit.    *)
MaySubmit == ~cadence.in_flight /\ cadence.next_probe <= 0

Attempt ==
    LET accepted == /\ commands = <<>>
                    /\ worker.at # "dead"
                    /\ Cardinality(admitted) <= MaxCheckpoints
    IN  /\ commands' = IF accepted THEN <<admitted>> ELSE commands
        /\ cadence' = Submitted(cadence, accepted)
        /\ gap' = 0

(* The cycle's own probe; without the database state there is none. *)
CycleSubmit ==
    /\ pc = "submit"
    /\ pc' = "drain"
    /\ \/ MaySubmit /\ Attempt /\ UNCHANGED budget
       \/ ~MaySubmit /\ UNCHANGED <<cadence, commands, gap, budget>>
       \/ Disturb /\ UNCHANGED <<cadence, commands, gap>>
    /\ UNCHANGED <<stop, early, health, row, sessions, worker, results, until,
                   earlies, rejected>>

-----------------------------------------------------------------------------
(* commit_thread_poll_result, one action per outcome; next is where the    *)
(* caller goes on.                                                         *)

Publish(t, next) ==
    /\ cadence' = Accepted(cadence, t)
    /\ health' = "ready" /\ row' = "good"
    /\ earlies' = 0
    /\ pc' = next
    /\ UNCHANGED budget

PublishFails(next) ==
    /\ Disturb
    /\ cadence' = Landed(cadence)
    /\ health' = "failed" /\ row' \in {row, Synced(row, "failed")}
    /\ pc' = next
    /\ UNCHANGED earlies

\* Mutant: the failure is stored, and forgotten in memory.
FailQuietly(next) ==
    /\ cadence' = Landed(cadence)
    /\ SyncHealth("failed")
    /\ pc' = next
    /\ UNCHANGED <<health, earlies>>

Fail(next) ==
    /\ cadence' = Landed(cadence)
    /\ health' = "failed" /\ SyncHealth("failed")
    /\ pc' = next
    /\ UNCHANGED earlies

\* The collection has admitted the Sessions since the probe began.
AlreadyAdmitted(next) ==
    /\ cadence' = Landed(cadence)
    /\ pc' = next
    /\ UNCHANGED <<health, row, budget, earlies>>

Request(next) ==
    /\ cadence' = Requested(Landed(cadence))
    /\ pc' = next
    /\ UNCHANGED <<health, row, budget, earlies>>

\* recorder.state()? ends the process.
StateFails ==
    /\ Disturb
    /\ cadence' = Landed(cadence)
    /\ pc' = "exit"
    /\ UNCHANGED <<health, row, earlies>>

Apply(result, next, asked) ==
    \/ /\ result.kind = "snapshot"
       /\ Publish(result.totals, next) \/ PublishFails(next)
    \/ result.kind = "failed" /\ Fail(next)
    \/ /\ result.kind = "mismatch"
       /\ \/ StateFails
          \/ result.sources \subseteq admitted /\ AlreadyAdmitted(next)
          \/ /\ ~(result.sources \subseteq admitted)
             /\ IF cadence.attempted THEN Fail(next) ELSE Request(asked)

-----------------------------------------------------------------------------
(* drain().into_iter().last() *)
Drain ==
    /\ pc = "drain"
    /\ results' = <<>>
    /\ IF results = <<>>
       THEN pc' = "publish" /\ UNCHANGED <<lane, row, budget, earlies>>
       ELSE Apply(results[Len(results)], "publish", "publish")
    /\ UNCHANGED <<stop, early, sessions, worker, commands, until, gap, rejected>>

(* The rest of complete_cycle_publication_and_wait before the wait.  With  *)
(* the deadline passed there is no wait; MaxLate keeps it within one       *)
(* interval (FixedRateSchedule has the general case).                      *)
PublishCycle ==
    /\ pc = "publish" /\ ~stop
    /\ \/ cadence.pending /\ pc' = "begin" /\ UNCHANGED until
       \/ ~cadence.pending /\ until > 0 /\ pc' = "wait" /\ UNCHANGED until
       \/ ~cadence.pending /\ until <= 0 /\ pc' = "begin" /\ until' = until + Interval
    /\ UNCHANGED <<stop, early, lane, row, sessions, channels, budget, history>>

(* Asked to stop (or --once) with a reconciliation still to do. *)
PublishAndStop ==
    /\ pc = "publish" /\ stop
    /\ pc' = "exit"
    /\ IF cadence.pending
       THEN health' = "failed" /\ SyncHealth("failed")
       ELSE UNCHANGED <<health, row, budget>>
    /\ UNCHANGED <<stop, early, cadence, sessions, channels, until, history>>

(* A probe that is due during the wait. *)
WaitSubmit ==
    /\ pc = "wait" /\ ~stop /\ until > 0
    /\ ~cadence.in_flight /\ cadence.next_probe = 0
    /\ \/ Attempt /\ UNCHANGED budget
       \/ /\ Disturb
          /\ cadence' = [cadence EXCEPT !.next_probe = ProbeInterval]
          /\ UNCHANGED <<commands, gap>>
    /\ UNCHANGED <<pc, stop, early, health, row, sessions, worker, results,
                   until, earlies, rejected>>

(* wait_for returns a result, possibly just after the deadline. *)
WaitResult ==
    /\ pc = "wait" /\ ~stop /\ cadence.in_flight /\ results # <<>>
    /\ results' = Tail(results)
    /\ Apply(Head(results), "wait", "begin")
    /\ UNCHANGED <<stop, early, sessions, worker, commands, until, gap, rejected>>

(* complete_cycle after a normal wait. *)
WaitDone ==
    /\ pc = "wait" /\ ~stop /\ until <= 0
    /\ pc' = "begin" /\ until' = until + Interval
    /\ UNCHANGED <<stop, early, lane, row, sessions, channels, budget, history>>

(* The checks of shutdown_requested that return at once. *)
StopSeen ==
    /\ pc \in {"begin", "collect", "wait"} /\ stop
    /\ pc' = "exit"
    /\ UNCHANGED <<stop, early, lane, row, sessions, channels, until, budget, history>>

(* Every step checks the account epoch; a change ends the process. *)
BoundaryChanged ==
    /\ pc # "exit"
    /\ pc' = "exit"
    /\ UNCHANGED <<stop, early, lane, row, sessions, channels, until, budget, history>>

(* Restart=always: a new process, the same database. *)
Restart ==
    /\ pc = "exit"
    /\ pc' = "begin" /\ stop' = FALSE /\ early' = FALSE
    /\ cadence' = FreshCadence /\ health' = "unknown"
    /\ worker' = [at |-> "idle", inventory |-> {}]
    /\ commands' = <<>> /\ results' = <<>>
    /\ until' = Interval
    /\ gap' = ProbeInterval /\ earlies' = 0 /\ rejected' = FALSE
    /\ UNCHANGED <<row, sessions, budget>>

-----------------------------------------------------------------------------
(* The ThreadPoller thread. *)

Take ==
    /\ pc # "exit" /\ worker.at = "idle" /\ commands # <<>>
    /\ worker' = [at |-> "probing", inventory |-> Head(commands)]
    /\ commands' = Tail(commands)
    /\ UNCHANGED <<pc, stop, early, lane, row, sessions, results, until, budget, history>>

(* collect_active_thread_snapshot: a mismatch is found before anything is  *)
(* read; a snapshot holds some of the open threads (membership filter).    *)
Observed(inventory) ==
    IF live \subseteq inventory
    THEN {Snapshot(t) : t \in {u \in Totals : DOMAIN u \subseteq live}}
    ELSE {Mismatch(live \ inventory)}

\* results.try_send
Send(result) == IF Len(results) < 2 THEN Append(results, result) ELSE results

Finish ==
    /\ pc # "exit" /\ worker.at = "probing"
    /\ worker' = [at |-> "idle", inventory |-> {}]
    /\ \/ \E r \in Observed(worker.inventory) : results' = Send(r) /\ UNCHANGED budget
       \/ results' = Send(Failed) /\ Disturb
    /\ UNCHANGED <<pc, stop, early, lane, row, sessions, commands, until, history>>

(* A panic in the probe ends the thread. *)
Die ==
    /\ pc # "exit" /\ worker.at = "probing"
    /\ Disturb
    /\ worker' = [at |-> "dead", inventory |-> {}]
    /\ UNCHANGED <<pc, stop, early, lane, row, sessions, commands, results, until, history>>

-----------------------------------------------------------------------------
(* The environment. *)

Tick ==
    /\ pc # "exit" /\ until > -MaxLate
    /\ until' = until - 1
    /\ cadence' = [cadence EXCEPT
          !.next_probe = IF @ > 0 THEN @ - 1 ELSE @,
          !.last_delta = IF @ = NotSet THEN @ ELSE Lower(@ + 1, StableWindow)]
    /\ gap' = Lower(gap + 1, ProbeInterval)
    /\ UNCHANGED <<pc, stop, early, health, row, sessions, channels, budget, earlies, rejected>>

(* A Codex process opens or closes a Session. *)
OpenOrClose ==
    /\ Disturb
    /\ \E s \in Sources : live' = IF s \in live THEN live \ {s} ELSE live \cup {s}
    /\ UNCHANGED <<pc, stop, early, lane, row, admitted, channels, until, history>>

Terminate ==
    /\ pc # "exit" /\ ~stop
    /\ stop' = TRUE
    /\ UNCHANGED <<pc, early, lane, row, sessions, channels, until, budget, history>>

Main == \/ Begin \/ Collect \/ CollectFails \/ QuotaEvent \/ CycleSubmit
        \/ Drain \/ PublishCycle \/ PublishAndStop
        \/ WaitSubmit \/ WaitResult \/ WaitDone \/ StopSeen

Poller == Take \/ Finish \/ Die

Next == Main \/ Poller \/ BoundaryChanged \/ Restart
        \/ Tick \/ OpenOrClose \/ Terminate

Spec == Init /\ [][Next]_vars

(* The operating system schedules both threads, the clock runs, systemd    *)
(* restarts the service, and every probe ends (its 15-second deadline).    *)
Fairness == /\ WF_vars(Main) /\ WF_vars(Poller)
            /\ WF_vars(Tick) /\ WF_vars(Restart)

FairSpec == Spec /\ Fairness
-----------------------------------------------------------------------------
(* Properties. *)

CadenceType ==
    [in_flight : BOOLEAN, next_probe : NotSet .. Interval + ProbeInterval,
     last_delta : NotSet .. StableWindow, totals : Totals,
     based : BOOLEAN, attempted : BOOLEAN, pending : BOOLEAN]

Results == {Failed} \cup {Mismatch(S) : S \in SUBSET Sources}
                    \cup {Snapshot(t) : t \in Totals}

TypeOK ==
    /\ pc \in {"begin", "collect", "event", "submit", "drain", "publish", "wait", "exit"}
    /\ stop \in BOOLEAN /\ early \in BOOLEAN
    /\ cadence \in CadenceType
    /\ health \in Healths /\ row \in Rows
    /\ live \in SUBSET Sources /\ admitted \in SUBSET Sources
    /\ worker \in [at : {"idle", "probing", "dead"}, inventory : SUBSET Sources]
    /\ commands \in Seq(SUBSET Sources) /\ Len(commands) <= 1
    /\ results \in Seq(Results) /\ Len(results) <= 2
    /\ until \in -MaxLate .. Interval
    /\ budget \in 0 .. MaxDisturbances
    /\ gap \in 0 .. ProbeInterval
    /\ earlies \in Nat
    /\ rejected \in BOOLEAN

Probing == IF worker.at = "probing" THEN 1 ELSE 0
Outstanding == Len(commands) + Probing + Len(results)

(* The flag in_flight of the main loop and the two channels agree: there is *)
(* one probe on its way exactly while the flag is set, so no command is     *)
(* refused and no result dropped or overtaken, although both ends use try_  *)
(* operations and the worker outlives cycles.  A worker that died keeps the *)
(* flag set for ever, which is what keeps the wait from spinning.           *)
SingleProbe ==
    /\ worker.at # "dead" => Outstanding = (IF cadence.in_flight THEN 1 ELSE 0)
    /\ worker.at = "dead" => cadence.in_flight /\ commands = <<>> /\ results = <<>>

(* Between two accepted snapshots the lane asks for at most one collection  *)
(* outside the schedule, however many probes report mismatches.             *)
OneRecollection == earlies <= 1

(* Why: a request is remembered until a snapshot is accepted, and is         *)
(* consumed by the one early collection it asks for.                         *)
RequestsCounted ==
    earlies + (IF cadence.pending THEN 1 ELSE 0) <= (IF cadence.attempted THEN 1 ELSE 0)

(* While the lane is ready in memory the stored row says so too: no order   *)
(* of failed writes, early collections and repeated writes of the health    *)
(* leaves a degraded row behind a ready lane.                               *)
ReadyIsStored == health = "ready" => row = "good"

(* The degraded mark of the row is lifted only in the transaction that      *)
(* stores a complete snapshot: not by a restart, nor by writing a health    *)
(* that is older than the mark.                                             *)
ClearedBySnapshot ==
    [][row = "degraded" /\ row' # "degraded"
         => /\ results # <<>>
            /\ results[Len(results)].kind = "snapshot"
            /\ results' = <<>>]_vars

\* A step that hands the worker a probe.
Submits == Len(commands') > Len(commands)

(* After a failed early collection no probe of the old inventory starts     *)
(* before the deadline of the next scheduled collection, whatever arrives   *)
(* in between: an adaptive deadline, a late result or a quota event.        *)
RejectionStands == [][rejected /\ rejected' /\ until > 0 => ~Submits]_vars

(* Why: a requested collection starts before anything else is probed, ...   *)
RequestFirst ==
    /\ cadence.pending => ~cadence.in_flight /\ pc \in {"publish", "begin", "exit"}
    /\ early /\ pc = "collect" => ~cadence.in_flight /\ cadence.attempted

(* ... and when it failed, the next probe is no earlier than the deadline,  *)
(* nothing is on its way before that, and no further request is made.       *)
RejectionHeld ==
    rejected =>
        /\ ~cadence.pending
        /\ cadence.in_flight \/ pc \in {"event", "submit"} => cadence.attempted
        /\ pc = "collect" => ~early
        /\ pc \in {"event", "submit", "drain", "publish", "wait"} /\ until > 0
             => ~cadence.in_flight /\ cadence.next_probe >= until

(* Requirement THREAD-CADENCE-435: probes follow the collection interval,   *)
(* or the five-second cycle while totals move.  Inside a wait, two probes   *)
(* therefore begin at least one ProbeInterval apart.                        *)
ProbesArePaced == [][pc = "wait" /\ Submits => gap >= ProbeInterval]_vars

(* Once disturbances end, a degraded lane becomes ready again by itself,    *)
(* unless the process ends, its worker is dead, or there are more Sessions  *)
(* than MAX_THREAD_CHECKPOINTS, which submit refuses to probe.              *)
BecomesReady == []<>(\/ health = "ready" \/ pc = "exit" \/ worker.at = "dead"
                     \/ Cardinality(admitted) > MaxCheckpoints)

(* The inductive invariant of ThreadLaneProofs. *)
LaneInv == /\ TypeOK /\ SingleProbe /\ RequestsCounted
           /\ ReadyIsStored /\ RequestFirst /\ RejectionHeld
=============================================================================
