# Codex Info: a TLA+ model of the recorder

Codex Info records how much of a Codex account's quota and how many tokens were
used, and shows it in desktop clients. The part that must not lose, duplicate or
misattribute anything is the **recorder** (`crates/codex-info-recorder`), a
resident process with several threads, one SQLite journal, one SQLite database per
account, and an environment that may change the logged-in account, kill the process
or replace its binary at any moment. This directory holds a TLA+ model of that core,
TLC configurations that check it on small instances, and TLAPS proofs that hold for
every value of the constants. Paths below are relative to the repository root.

Contents: [inventory](#1-inventory-of-the-system), [modules](#2-modules-and-how-they-correspond-to-the-code),
[runs](#3-runs-bounds-and-what-they-show), [fairness](#4-fairness),
[proofs](#5-proofs), [findings](#6-where-the-code-and-its-documents-disagree),
[limits](#7-what-is-abstracted-and-what-is-not-modelled), [plan](#8-plan).

## 1. Inventory of the system

| Component | State it keeps | Operations | What makes it correct |
|---|---|---|---|
| Quota worker (`lib.rs`: `QuotaPoller`, `fetch_quota_snapshot`) | poll in progress, `ACTIVE_RECEIPTS`, two-slot result channel | poll, journal raw response, verify identity, notify, stop | every response is journalled before it is interpreted; a verified one belongs to the account |
| Quota journal (`quota_journal.rs`) | `quota_observations` rows, in-memory `ReplayCursor` | `save`, `read_since`, drop of a receipt | nothing skipped although rows settle out of order |
| Quota receipts (db-writer `quota_receipts.rs`, `period_evidence.rs`) | receipts, staged period inputs, history minutes, two health flags, generation | stage, commit, project, set degraded | idempotent replay, latest value per minute, every visible change has a new generation |
| Main loop (`main.rs`) | cycle step, lane healths | replay, acknowledge, collect, publish, wait | a failed step degrades and is repeated; a boundary ends the process |
| Account boundary (`AccountBoundaryState`, `AccountEpochProof`) | two flags, generation, `RwLock` | signal, capture, validate, fence | no durable write after a signalled account change |
| Schedule (`FixedRateSchedule`) | next deadline | `complete_cycle` | no drift, no catching up, no spinning |
| Active-thread lane (`ThreadPoller`, `AdaptiveThreadCadence`, `CheckpointRecovery`) | cadence, two bounded channels, health, snapshot row | submit, probe, commit, reconcile, wait | one probe at a time, bounded reconciliation, honest health, no lost wake-up |
| Inactive / current history workers (`historical_worker.rs`) | job channel, opened recorders | request, run, give up | history of other accounts catches up; the main loop is never blocked |
| Session collection (`scan_source`, `run_cycle*`, `commit_pending`) | checkpoints, pending ranges, anchor recoveries, the pending batch | scan, bind, prepare, commit, retry, drop | consumption charged at most once and to its owner; never called complete with a gap |
| Recorder state file, profile lease | `recorder-state.json`, lock file | write, renew, validate | one writer per profile; acknowledged generation never ahead of the database |
| Account locator | the registry: epochs, confirmations, ownership intervals, labels | reserve, confirm, admit, close, mark initialised, label | one permanent epoch per account, no second owned twice, ownership follows `auth.json` |
| Database writer (sessions, transitions, gaps, backups) | account database | commit, classify, rotate | atomic generations |
| Database reader, REST service | cached snapshot, cursors | read, publish, paginate | a page sequence belongs to one generation |
| Desktop UI, Windows client, installers | presentation, connection and update state | connect, update, roll back | no update applied twice, rollback restores a working generation |

How they interact: the quota worker and the thread poller are threads of the
recorder process. They meet the main loop in bounded channels (results), in the
journal file and `ACTIVE_RECEIPTS` (receipts), and in `AccountBoundaryState` (both
signal a changed account; every durable write is guarded by it). The inactive
history thread replays the same journal into the databases of the other accounts.
It also closes the account's registry interval when it finds another account, as the
main thread does: both replace the registry file. Session files are written by Codex
itself; the recorder only sees bytes, inodes and timestamps.
SIGTERM is received by a thread of its own, which sets a flag and unparks the main
thread. The REST service is a separate process that only sees the databases and
`recorder-state.json` and polls the generation. systemd restarts the recorder
whatever its exit code.

The hard behaviours: a change of account between any two reads; a kill between the
two transactions of a replay; rows that become verifiable after later rows were
applied; an upgrade that suddenly understands old rows; result channels used with
`try_` operations only; writes of a health that fail and are merely logged; probes
that outlive their cycle; wake-ups of a parked thread by two others; a registry that
two threads load and replace; a clock that is set back; a Session file that is cut,
copied or rewritten between two scans; a commit that succeeds and reports a failure. `PROJECT.json`
lists each hazard at its line, with the properties that cover it.

## 2. Modules and how they correspond to the code

| Module | Models | Proofs |
|---|---|---|
| `QuotaLane` (`MCQuotaLane`) | the quota worker, the journal, the replay by the main loop and by the inactive-history thread, the account databases, start, stop, kill and change of version | `QuotaLaneProofs`, `QuotaLaneHealthProofs` |
| `AccountFence` | `AccountBoundaryState` and `AccountEpochProof`, one action per atomic operation | `AccountFenceProofs` |
| `FixedRateSchedule` | `FixedRateSchedule::complete_cycle` and its caller's wait | `FixedRateScheduleProofs` |
| `ThreadLane` (`MCThreadLane`) | the active-thread lane: cadence, reconciliation, channels, health, main loop | `ThreadLaneProofs` |
| `AccountRegistry` (`MCAccountRegistry`) | the registry file and every operation that writes it, run by the recorder's start, its loss and logout paths and the inactive-history thread | `AccountRegistryProofs` |
| `SessionCollection` | one Session file, the scan, the cycle, the pending batch and the writer's transaction | `SessionCollectionProofs` |
| `TokenLedger` | abstract: consumption is charged at most once and never for more; `SessionCollection` implements it (`ChargedOnce`) | `LedgerIsImplemented` in `SessionCollectionProofs` |
| `ThreadWait` | how the waiting main thread is woken, one action per access to queue, flag, waiter slot and park token | `ThreadWaitProofs` |

The exact lines of every definition are in the `map` of `PROJECT.json`. Definitions
marked *Mutant* are plausible bugs used to test the properties; no specification
uses them. Properties sit at the end of each module, each with a comment.

**QuotaLane.** A poll of the worker is a sequence of actions, one for each point at
which it looks at the outside world (`PollBegin`, `ReadScope`, `Connect`,
`AccountRead`, `RateLimits`, `SaveRaw`, `Recheck`, `SaveVerified`, `Notify`); a
request may fail (`RequestFails`) and storage may refuse a save (`SaveFails`, which
retries as `persist_quota_receipt` does). A replay is read, stage, commit: three
actions, because a kill can separate the two transactions. `ReadSince` is the query
of `read_since` with its cursor; `ReplayCommit` is the whole transaction of
`commit_quota_receipts` with projection, health and generation. The main loop is one
action per step that touches quota; everything Session-related is `MainSession`,
which only matters by finding the boundary changed. A journal row is reduced to the
account whose plan and whose limits it carries, its response format (can the running
version interpret it?) and its history minute. `Start` folds reservation,
confirmation and admission of the partition into one step, and `"down"` also stands
for the idle process of `run_without_account`. The proof of a cycle is for the
process's own account, so `EpochMatches` compares with `owner`. `boundary` is
`AccountBoundaryState::changed()` as one flag; its fine structure is in
`AccountFence`. A failed opening of the owner's database is retried by the code, so
it is a stuttering step here.

**AccountFence.** `signal` is five actions (store `pending`, take the write lock,
swap `changed`, count, unlock); a committer captures a proof in four and commits
under the fence in six. The lock has no writer preference, which is all
`std::sync::RwLock` promises. The two loads of `changed()` are one step: `pending`
is stored before `changed` and neither is ever cleared, so a torn read equals an
atomic one at one of its two ends.

**FixedRateSchedule.** Time in ticks from the anchor; work takes any time and a wait
may oversleep. `checked_add`, `checked_duration_mul`, the saturating counter and the
`deadline > now` filter are all there, against a largest `Instant`.

**ThreadLane.** The loop of `main` and `complete_cycle_publication_and_wait`, reduced
to the thread lane: `Begin`, `Collect`/`CollectFails`, `QuotaEvent`, `CycleSubmit`,
`Drain`, `PublishCycle`/`PublishAndStop`, then the wait (`WaitSubmit`, `WaitResult`,
`WaitDone`). `Apply` is `commit_thread_poll_result`, one operator per outcome. Times
are relative (`next_probe` and `until` count down, `last_delta` counts up, `Tick`
moves all of them), so the model has no time horizon. A snapshot is the function from
open Sessions to `total_tokens`, known or NULL, because that is what
`AdaptiveThreadCadence::accept` compares. `stop` also stands for `--once`. A result
may be taken just after the deadline, as `wait_for` allows. One limit: a
collection is at most `MaxLate < Interval` late (the general case is in
`FixedRateSchedule`).

**ThreadWait.** `unpark` leaves one token; `park` consumes it. `Check`,
`Receive`/`ReceiveNothing` and `Park` are separate actions, so every interleaving of
reading the flag, reading the queue and blocking with the senders' two steps (store,
then unpark) is explored.

**AccountRegistry.** Operations are functions from the loaded registry to the new one
(`CloseOpen`, `Handover`, `Allocate`, `Admitted`, `Initialized`), with the checks the
code makes before (`NotBefore`, `CanHandover`) and the validation it makes at the end
(`Valid`). A change is two steps, load and replacement, because two threads do it and
because `auth.json` is read again in between; `Store` and `StoreFails` are
`write_metadata`, whose failure leaves the old or the new file. The main thread's
steps follow `main` from the lease to the loop: `Start`, `Reserve`, `Begin`,
`Confirm`, `Admit`, `OpenStorage`, then `Label`, `NoticeLoss`/`Loss`, and
`Probe`/`LogoutStore` for `run_without_account`. A process that ends is started again
by systemd. An interval is [start, end); `None` is the code's null. Registries of
older versions (initialised accounts without intervals or confirmation, with or
without an activation time) are initial states.

**SessionCollection.** One account and one path. Offsets count records and a digest is
the sequence of records it is taken of, so a lineage is (epoch, inode, first range), as
`prefix_generation` computes it. `Scan` runs `ScanRecord` over the part of the file a
cycle may read (`Pass`): bad records leave evidence, an adjustment is a new baseline, a counter
is compared with its predecessor when both lie in one interval of the account, and a
file without a usable cursor is first searched for the saved counter (`Seek`).
`OutcomeOf` is what the scan hands to the batch: checkpoint, range, evidence, state of
the search, events. `Refused` and `Store` are the writer's transaction, with its
replay, its conflict checks and the replacement of evidence. Before a batch is formed,
an event that shares bytes, time and amount with a stored one of another lineage stops
the source (`AmbiguousLineage`), and events stored already are left out (`IsReplay`,
`Admitted`). The cycle is
`PrepareSource`, `PrepareUnchanged` or `PrepareUnbound`, then `Commit`, `CommitFails`
(before or after the transaction), `CommitRefused` or `DropChanged`. The environment
appends records, replaces the file by a prefix of itself on the same or a new inode,
kills the process, and lets the account leave and return. A new process takes the tables
over with a cycle of its own only if the database holds a quota receipt; the quota lane
writes those, so `TakeOver` leaves it open.

## 3. Runs, bounds and what they show

| Run | Instance | Distinct states | Checks |
|---|---|---|---|
| `quota_safety` | 2 accounts, 2 polls, 1 switch, 1 stop or kill, 2 versions | 3.3 M | `ReceiptsFromVerified`, `CursorSound`, `AppliedAreStaged`, `ProjectionLatest`, `NeverOptimistic`, `AdmittedAttribution`, `ResponseOutlivesStop` |
| `quota_liveness` | 2 accounts, 1 poll, 1 switch, 1 stop, 1 fault, 2 versions, a queue of 1 | 0.5 M | `TypeOK`, `VisibleChangesAdvance`, `VerifiedIsApplied`, `HealthSettles` |
| `quota_identity` | 2 accounts, 1 poll, 2 switches | violation | `IdentityNeverChanged` (finding) |
| `fence` | 2 signallers, 2 committers, 2 logins | 1.2 M | `NoMutationAfterSignal`, `NoOvertaking`, `CommitsForNamedAccount`, `GenerationAdvancesOnce`, `SignalCompletes` |
| `schedule` | interval 3, clock up to 30, counter saturating at 5 | 12 k | `ResumesAtFirstDeadline`, `OneStartPerDeadline`, `NeverBehind` |
| `thread` | 2 Sessions, checkpoint limit 1, interval 4, probe interval 2, stable window 3, 2 disturbances | 1.3 M | `SingleProbe`, `OneRecollection`, `ReadyIsStored`, `ClearedBySnapshot`, `RejectionStands`, `BecomesReady` |
| `thread_pacing` | 1 Session, 3 disturbances | violation | `ProbesArePaced` (finding) |
| `thread_wait` | channel of 2 | 0.7 k | `NoLostWakeup`, `StopIsPrompt`, `ResultIsPrompt` |
| `registry` | 2 accounts, 1 of an older version, 3 seconds, 2 logins, 1 set-back, 1 fault, 1 kill | 0.6 M | `CandidateValid`, `OwnershipBegins`, `EpochsPermanent`, `EndsFinal`, `EventuallyOwned`, `EventuallyReleased` |
| `registry_legacy` | 2 accounts of an older version, 1 with an activation time | violation | `LegacyAdmissible` (finding) |
| `session` | chunk 1, 3 seconds, 1 irregular record, at most 2 disturbances, records and disturbances together at most 4 | 0.4 M | `TypeOK`, `OwnedOnly`, `CompleteIsComplete`, `ChargedOnce`, `ReplayChangesNothing`, `EventuallyCollected` |
| `session_stall` | the same with 1 disturbance and 3 in all | violation | `RetainedResolved` (finding) |

Why the bounds are enough to be interesting. Two polls are needed for a row that is
still being verified to be overtaken by another one; one switch puts a row into the
scope of an account that is no longer the owner and so brings in the inactive-history
thread; one stop or kill with two versions lets an old row become readable after a
newer one was applied. Two rewrites of `auth.json` (`fence`) include away and back.
Intervals 4, 2 and 3 keep the order of the real 60, 5 and 60 seconds as far as the
guards can tell it apart: several probes fit into one collection interval, and the
stable window outlasts a probe interval. A checkpoint limit of 1 with two Sessions
reaches the refused submission; a lane over the limit is excepted from `BecomesReady`,
because `submit` refuses it. Two disturbances (faults, a partial admission, a Session
opened or closed) suffice for: a Session opens and its early collection fails (three,
with the same result, take 4 minutes). `thread_wait` has no bound besides the channel.
In `registry`, three seconds leave room for two changes in one second and for a change
after the clock went back; two logins are a switch and a return, or a switch and a
logout. In `session`, four events cover two disturbances with two records and one with
three; a chunk of one record makes every file longer than a chunk. The safety
properties also hold with five events (1.6 M states), which is too long with liveness.

Symmetry (accounts in `quota_safety`) is used for safety only.

`CHECK_DEADLOCK FALSE` stands where the system may really stop: nobody is logged in
and the process is down, or all bounded events have happened (`QuotaLane`); every
committer has ended after a boundary (`AccountFence`); the clock has reached its last
instant (`FixedRateSchedule`, `AccountRegistry`, `SessionCollection`); the main thread
has left (`ThreadWait`). `ThreadLane`
is checked for deadlock and has none.

## 4. Fairness

`QuotaLane`: weak fairness of the worker's, the main loop's and the inactive thread's
steps (the operating system schedules threads), of the end of a stopping process and
of `Start` (`Restart=always` in `packaging/codex-info-recorder.service`). No poll is
obliged to begin, nobody is obliged to log in, and nothing is assumed of the fault
actions except that they are bounded. `AccountFence`: weak fairness of every thread;
in particular the write lock is only weakly fair, so `SignalCompletes` does not rest
on a property of `RwLock`, but on the fact that refused committers do not come back.
`ThreadLane`: both threads are scheduled, the clock runs, systemd restarts the
process, and every probe ends (its 15-second deadline). `ThreadWait`: threads are
scheduled; deliberately **no** fairness for the timeout of `park_timeout`, so that
promptness cannot be owed to the deadline. `AccountRegistry`: the service manager
restarts the recorder, both threads are scheduled, time passes; no login, fault or
label is obliged to happen. `SessionCollection`: time passes, the loop runs its cycles
and tries its commits; a cycle in which the source cannot be bound is a bounded fault.

## 5. Proofs

All theorems are proved by TLAPS for arbitrary constants under the named `ASSUME`s of
the modules (for instance `QueueCap \in Nat \ {0}`, `MaxLate \in 0 .. Interval - 1`,
`LoggedOut \notin Accounts`), which TLC evaluates in every run.

**QuotaLane** (`ReplayIsSound`: `Spec => []IndInv`). `CursorSound` alone is not
inductive: whether a cursor that is about to be taken over skips a row depends on the
batch it was read with, on who still owns a receipt, and on the journal's ids. `IndInv`
adds `WorkerInv` (the worker owns exactly the receipt of its poll from `with_id` to
`drop`, ids grow, each is in the journal at most where the worker's step says) and
`BatchInv` (a batch in flight covers its cursor together with the receipts it will
add, whatever the worker does meanwhile). The argument: a row leaves "awaited by name"
only when its owner released it, and the owner releases it only after the last write.
From it follow `ReceiptsAreVerified`, `NothingIsSkipped`, `EvidenceComesFirst` and
`TypesHold`; `ReadersNoticeChanges` and `ResponsesAreKept` are action properties
proved on top of it.

`QuotaLaneHealthProofs` (`LaneIsSound`: `Spec => []LaneInv`) adds what a reader sees.
`ProjectionLatest` is inductive beside `IndInv`: rows keep their minute, and a commit
projects again exactly the minutes it adds to. `NeverOptimistic` is not: what the
cursor says of the newest settled row was decided when the batch was read, so
`HealthInv` states it for the batch in flight too (`Tracks`), and a row that is passed
and not awaited is final only because the cursor covers the journal (`IndInv`).
`AdmittedAttribution` needs `WindowInv`: without a rewrite of `auth.json` since the poll
began, everything the poll has read is of the account it began with, after exactly one
rewrite `auth.json` names another account, and the stored row is the one the poll holds.
`MinutesShowTheLatest`, `HealthIsNeverOptimistic` and `ResponsesBelongToTheirScope`
are the three properties.

**AccountRegistry** (`RegistryIsSound`: `Spec => []RegistryInv`), for any accounts,
labels, number of logins, clock set-backs, failed writes and kills. `DataInv` says that
the file is valid and that its owners are exactly its confirmed accounts (`Sound`), and
the same of the copies about to be stored; the lemmas on `CloseOpen`, `Handover`,
`Allocate`, `Admitted` and `Initialized` show that each operation keeps a sound registry
sound. `CopyInv` is about the two threads that load and replace one file: while the
inactive-history thread lives, no copy allocates or confirms, so either store keeps
epochs and confirmations; while it does not, the file stands still under the main
thread's copy, so ended intervals survive. `StoredRegistryIsValid`,
`OwnersAreConfirmed` and `EpochsAreKept` (`EpochsPermanent`) follow. `ScopeInv` says which
intervals may be open in the file and in each copy: after the reservation only the
running account's, so beside the inactive-history thread a copy and the file have the
same intervals of every other account and the same starts of this one (`BesideWorker`),
whichever was stored last. From it follow `OwnershipIsCurrent` (`OwnershipBegins`) and
`EndsAreFinal` (`EndsFinal`). `NothingIsRefused` (`CandidateValid`) has the hypothesis
`Activated = {}`, which is the instance of `registry`: with an activation time of an
older version it is false (`registry_legacy`), and `DataInv` leaves exactly that
admission to the validation in front of the write.

**AccountFence** (`FenceIsSound`: `Spec => []FenceInv`), for any number of threads.
`LockInv` ties the lock to the program counters, `FlagInv` says that a committer past
its check under the lock excludes `changed`, and that one whose fence came after
`pending` never gets past it, `CountInv` that the swap lets exactly one signaller
count, `ProofInv` that the proof's account was named under the fence. The four safety
properties follow.

**FixedRateSchedule** (`ScheduleIsSound`): the kept deadline is on the anchor's lattice
while there is room, at most one interval ahead, and after the last start. `NoDrift` and
`NoBusyLoop` follow, and `NoSpin` (`NeverBehind`). The arithmetic (`MissedBounds`) is by division with remainder.

**ThreadLane** (`LaneIsSound`: `Spec => []LaneInv`), for any set of Sessions and any
intervals. `SingleProbe` counts commands, probe and results against `in_flight`.
`OneRecollection` needs `RequestsCounted` (a request is remembered until a snapshot is
accepted, and consumed once). `RejectionStands` needs `RequestFirst` (an early
collection starts with nothing on its way) and `RejectionHeld` (after it failed, the
next probe is not before the deadline and no further request is made).
`OnlySnapshotsClear` follows from `ReadyIsStored`: writing a ready health again can
only repeat what is stored.

**ThreadWait** (`WakeupIsKept`: `Spec => []WakeInv`): past the reading of the flag (or
the queue), a stop (or a result) whose sender is beyond its unpark has left a token,
because the waiter is registered for the whole wait. `NoWakeupIsLost` follows.

**SessionCollection** (`CollectionIsSound`: `Spec => []CollectionInv`), for any chunk
size, number of records, replacements, failed commits, kills and account changes.
`Pass` is a recursive function, so `PassEquation` first shows that the function exists
and `PassSound` carries `ScanInv` from record to record (by a least counterexample):
the counter compared with was read in this file, a search has nothing to compare with,
and a difference is charged only inside one interval. `StartSound` and `OutcomeSound`
connect it to the tables: a resumed cursor is a prefix of the file, and a scan that finds
a search open either answers or continues it. `SoundBatch` is the part a retry needs: a
pending batch is of the cycle after the committed one, or it is the committed one and
accepting it again gives the same tables (`AcceptAgain`). `TypesAreKept` (`TypeOK`),
`ChargesAreOwned` (`OwnedOnly`) and `ReplayIsIdempotent` (`ReplayChangesNothing`)
follow. `OwnedOnly` needs the bound of the clock on every charge: the interval a charge
was owned in may end later, but not before the charge's records.

The replay filter leaves out of a batch only what the tables hold (`PreparedOutcome`), so a
batch charges no more than its scan found, and what it leaves out is paid for by the
stored event, which stands for the record itself (`Paid`, `SameAmounts`).

`ConsumptionIsChargedOnce` is the part of `ChargedOnce` that needs no sums: while the
writing program has adjusted the context at most once (`OneAdjustment`), no two charges
in the tables stand for the same record, for any number of cuts, copies to a new inode,
retries and kills. `CollectionInv` says nothing about that; `LedgerInv` adds three facts.
Records stand in the file in the order they were written and a counter that left zero
does not return to it (`FileInv`). The inodes of the path were collected one after the
other, so the cursor that `prior_checkpoint` picks is the one of the last (`OrderInv`,
`PriorIsTop`). And everything charged lies at or before one counter above zero
(`Frontier`): the one an open search waits for, otherwise the one of that cursor
(`Behind`). A scan that resumes charges only behind its cursor, and a scan from the start
charges nothing until it meets the saved counter, which it cannot mistake for another
record because only adjustments and zeros repeat (`ScanLedger`, `ScanRecordLedger`). The
batch carries the same statement about tables and batch together (`LedgerBatch`) until
it is stored. With two adjustments it is false (section 6).

`ChargesAreConsumed` (`Spec => []Paid(db.events)`) is the other half: no charge is higher
than what the records it stands for consumed, for any number of adjustments, drops and
cuts. `AmountInv` says why. From one record of a file to the next, the counter grows by at
most what was consumed unless the record is an adjustment (`CounterInv`), and after the
counter a cursor compares with there is none in the part it accepted (`PlainSince`), so
the difference that `scan_source` charges is at most the sum of the gains it covers
(`BetweenPaid`, `ScanPaid`). The sums are `SumFunctionOnSet` over finite sets. Induction takes an operator
as parameter and is out of reach, so `SumExists` shows that the function behind the sum
exists and its equation and monotonicity are proved by a least counterexample on the
cardinality (`LeastExists`).

`LedgerIsImplemented` (`Spec /\ []OneAdjustment => ChargedOnce`) puts the two together: the
initial state maps to an initial state of `TokenLedger` (`InitMaps`), a write of the
file is its `Consume` or a stutter (`WriteMaps`), the transaction that stores a new
outcome is its `Charge`, of records that are consumed and not charged, for at most their
sum (`StoreMaps`), and everything else leaves the ledger alone (`QuietMaps`). The
hypothesis is about the program that writes the file and is met by every instance of
`session`; without it the statement is false (section 6).

`CompletenessIsEarned` proves `CompleteIsComplete` from two hypotheses, `OneAdjustment` and
`GrowsInPlace`: a file only grows on its inode. Copies of any prefix to a new inode,
kills, retries, refused batches and changes of account remain. Both hypotheses are needed
(section 6). `EvidenceInv` is the inductive part. As long as no row speaks of a skipped
record, everything consumed up to one record is charged: up to the one an open search
waits for, otherwise up to the counter of the cursor, behind which the accepted part
holds nothing (`SettledBehind`). An open search has a row of its own (`SearchRecorded`).
Rows lie inside the accepted part of their inode, a new range starts behind it, and so
accepting a range deletes no row but that of the search it answers (`AcceptRows`); and
`complete` is stored only when no row remains. `ScanEvidence` shows for every record of
a pass that it is charged, consumed nothing, lies at or before the counter searched for,
or leaves a row; `GainInv` is what makes an uncharged difference of zero harmless.

The inductive invariants themselves (`IndInv` and the two `LaneInv`, `RegistryInv`,
`CollectionInv`, `LedgerInv`, `AmountInv`, `EvidenceInv`, `FenceInv`, `WakeInv`) were
checked with TLC before they were proved: `LedgerInv` and `AmountInv` also with two
irregular records and five events (3.5 M and 3.9 M states), `EvidenceInv` with the same
and the two hypotheses as constraints of the specification (2.3 M states with
`Chunk = 1`, 2.5 M with `Chunk = 2`). The runs keep the properties that follow.

Every safety property of a passing run is stated by a theorem. Only model-checked are the
liveness properties (`VerifiedIsApplied`, `HealthSettles`, `SignalCompletes`,
`BecomesReady`, `StopIsPrompt`, `ResultIsPrompt`, `EventuallyOwned`, `EventuallyReleased`,
`EventuallyCollected`): fairness and `ENABLED` are outside the prover's reach. The
violations of section 6 are TLC's counterexamples. `ChargedOnce` and `CompleteIsComplete`
are proved under the hypotheses named above and, within the bounds of `session`, checked
with one adjustment and with cuts.

## 6. Where the code and its documents disagree

* `quota_identity`: the comment on `AccountIdentityWindow` says of the local
  auth key and the `account/read` identity that they "must remain unchanged from the
  first account/read through the final account/read". The code compares the two ends, so a change away and back in between
  is not noticed. A single change always is (`AdmittedAttribution`).
* `thread_pacing`: the instant that `reject_checkpoint_recollection` leaves in
  `next_probe` is never advanced while totals stand still, so after it has passed the
  wait loop submits probes one after the other, against requirement
  `THREAD-CADENCE-435`. It ends with the next moved total or reconciliation. The same
  assignment misses the aim of its comment ("Do not let a probe of the old inventory
  clear the failure before the normal cycle.") when the early collection ends at or
  after the deadline; while the deadline lies ahead it holds (`RejectionStands`, proved).
* `registry_legacy`: an account that an older version initialised and activated gets a
  closed interval from that activation to its first confirmation. If another account
  was admitted in between, the two overlap, `validate_metadata` refuses the candidate,
  and so at every later start. `docs/DATA_PROTECTION_POLICY.md:544` describes the
  reconstruction without this case.
* `session_stall`: a Session file that is cut on its inode and whose first range reads
  the same again gets the `prefix_generation` it had, although the policy (:1331) says
  that a new lineage never repeats a known one. The writer refuses the shorter cursor,
  the recorder keeps the batch, and because a pending batch comes before every scan, no
  source of the account is collected any more, also after a restart. A cut while a
  search for the saved counter is open ends the same way.

Three things are described here although no run is about them.

* The main thread and the inactive-history thread load and replace the registry without
  excluding each other (`recorder_epoch_matches`, `set_registry_login_id`). A label
  written from a copy loaded before the other thread closed the interval opens it again
  and its end is lost. `EndsFinal` says how far this goes, no further than the end of the
  running account's own interval (proved); `EventuallyReleased` and `EventuallyOwned`
  show that the next start repairs the registry.
* Equal counters are indistinguishable in `scan_source`. With two context adjustments
  (`MaxOdd = 2`, `MaxTime = 4`) the search in a file on a new inode can stop at the
  first of two equal counters, and what lies between them is charged a second time
  (`ChargedOnce`), or a gap is overlooked (`CompleteIsComplete`). For example: adjustment,
  count, adjustment on one inode, replaced by a new inode that holds the first two. The
  replay filter does not help: it compares the whole key, inode and lineage included, so
  the same record on a new inode is no replay, and the ambiguity check compares events of
  one inode only. A later source repair may retire such duplicates. With at most one
  adjustment the database implements `TokenLedger` (`LedgerIsImplemented`, proved).
* `replace_session_pending_ranges` deletes the evidence rows of an inode at the start of
  an accepted range, whatever `prefix_generation` they carry. After a cut on the same
  inode the new lineage can accept a range at the same start without having looked at
  the record the old row is about, because it is still searching for the saved counter.
  The row is gone, and once the last one is, the totals are called complete while a
  record is uncharged, although the comment there says that evidence "remains until an
  accepted range explicitly supersedes the same source offset". It takes a counter that
  drops, an unparsable line, a cut and seven records (`Chunk = 1`, `MaxOdd = 2`), more
  than `session` can explore; `CompleteIsComplete` is violated on that path,
  holds within the bounds of `session`, and holds for every file that is not cut on its
  inode (`CompletenessIsEarned`, proved).

## 7. What is abstracted, and what is not modelled

Payloads are reduced to what the properties tell apart (see section 2); parsing,
hashing, logging and wording are left out. The database is a set of atomic
transactions, as SQLite promises. Time appears
only where a guard reads it. Memory
ordering: the atomics are `Acquire`/`Release` or stronger and are modelled as
sequentially consistent. In `AccountRegistry` the last look at `auth.json` and the
replacement of the registry that follows it are one step; a login between them is met by
the running recorder's own check, as any later login is.

`SessionCollection` has one path, one account and one kind of counter. It leaves out
model names and the attribution to models, response records, forked sessions
(`history_base`), the physical boundary of a newly activated account
(`baseline_existing`), quota periods and the history derived from them, task events,
copies of a file under a second path, source repairs, and the `AcceptedPrefix` binding
of older databases. The events a source repair retired are those that `is_proved_replay`
exempts from the ambiguity check and drops; without repairs there are none, and only the
exact replays of `is_replay_of` are left out of a batch. Binding a source to the account (the account protocol with
app-server) is one step that succeeds or fails.

### Not modelled

The content of thread snapshots and the worker's rollout cache; the acknowledgement of
generations in `recorder-state` and the lease's renewal; quota transitions, period
attribution, backups and the gap ledger of the database writer; the database reader,
the REST service, the clients and the installers (`components` in `PROJECT.json`). Most
of the repository's lines are presentation, queries, encoding and the legacy in-process
copies of the collector in `src/`; they have no protocol of their own, so the share of
lines that the map covers says little about the share of the behaviour.

## 8. Plan

Done, in this order: `QuotaLane`, `AccountFence`, `FixedRateSchedule`, `ThreadLane`,
`ThreadWait`, `AccountRegistry` and `SessionCollection` with their runs and proofs, and
`TokenLedger` with the run and the proof that `SessionCollection` implements it. Every
safety property of the runs is proved, so what is left is modules.

Modules to add: the acknowledgement of generations and the lease
(`RecorderStateWriter`, `ProfileLease`), the history jobs (`BackgroundWork`), the REST
publisher against a changing generation, and the Windows client's connection and update
supervisors.
