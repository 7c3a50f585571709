-------------------------- MODULE SessionCollection --------------------------
(***************************************************************************)
(* One Session file of one account, the recorder that collects token       *)
(* consumption from it, and the database tables it commits to.             *)
(*                                                                         *)
(* A Session file is a session_meta line followed by records that carry a  *)
(* cumulative token counter.  Every cycle the recorder reads the records   *)
(* behind its durable cursor, turns counter differences into events, and   *)
(* commits events, cursor and evidence of what it could not use as one     *)
(* batch.  A batch whose commit fails stays in memory and is retried.      *)
(*                                                                         *)
(* The file is written by another program: it grows, and it can be cut or  *)
(* replaced, on the same inode or on a new one.  The account can leave and *)
(* come back, the recorder can be killed, binding a source to the account  *)
(* can fail, and a commit can fail before or after the transaction.        *)
(*                                                                         *)
(* Offsets count records: session_meta is [0, 1), the p-th record after it *)
(* is [p, p + 1).  A line without its newline counts as not yet written.   *)
(* Digests are modelled by the records they are taken of, model names and  *)
(* quota periods are left out, and every event is in the current period.   *)
(***************************************************************************)
EXTENDS Integers, Sequences, FiniteSets, FiniteSetsExt, SequencesExt

CONSTANTS
  Chunk,        \* chunk_bytes, in records a cycle may read
  Window,       \* the context window, the counter a context adjustment sets
  Creator,      \* session_meta names this account as the creator
  MaxTime,      \* bound: the last second
  MaxOdd,       \* bound: records other than a plain growing counter
  MaxDisturbances,  \* bound: replacements, faults, kills and account changes
  MaxEvents     \* bound: records and disturbances together

ASSUME SessionAssumption ==
    /\ Chunk \in Nat \ {0}
    /\ Window \in Nat \ {0}
    /\ Creator \in BOOLEAN
    /\ MaxTime \in Nat \ {0} /\ MaxOdd \in Nat
    /\ MaxDisturbances \in Nat /\ MaxEvents \in Nat

None == 0       \* no timestamp, no record
Born == 1       \* the timestamp of session_meta

VARIABLES
  clock,      \* the wall clock, in seconds
  log,        \* every record ever written; a record's identity is its index
  file,       \* the file at the path: its inode and the records it holds
  spent,      \* disturbances so far
  intervals,  \* the account's lifecycle intervals, oldest first
  epoch,      \* the process's collector_epoch
  phase,      \* "idle", "prepared" (first attempt to come) or "retained"
  batch,      \* PendingBatch
  ran,        \* a cycle ran in this second
  db          \* the committed tables

env     == <<log, file, spent>>
process == <<phase, batch, ran>>
vars    == <<clock, env, intervals, epoch, process, db>>

NoCheckpoint == [inode |-> None]
NoRecovery   == [inode |-> None]
NoBatch      == [cycle |-> 0]
NoOutcome    == [checkpoint |-> NoCheckpoint]

Inodes == 1..(MaxDisturbances + 1)

Init ==
    /\ clock = 1
    /\ log = <<>>
    /\ file = [inode |-> 1, ids |-> <<>>]
    /\ spent = 0
    /\ intervals = <<[start |-> 1, end |-> None]>>
    /\ epoch = 1
    /\ phase = "idle"
    /\ batch = NoBatch
    /\ ran = FALSE
    /\ db = [epoch |-> 1, cycle |-> 0, generation |-> 0,
             checkpoints |-> [i \in Inodes |-> NoCheckpoint],
             ranges |-> {}, rows |-> {}, recovery |-> NoRecovery,
             events |-> {}, complete |-> FALSE]

Active == intervals[Len(intervals)].end = None

-----------------------------------------------------------------------------
(* The program that writes the file, and the clock. *)

Room == Len(log) + spent < MaxEvents

Disturb == spent < MaxDisturbances /\ Room /\ spent' = spent + 1

Odd == Cardinality({i \in DOMAIN log : log[i].kind # "count"}) < MaxOdd

\* The counter the writing program continues from: the last one in the file.
Counter == IF file.ids = <<>> THEN 0 ELSE log[Last(file.ids)].total

Write(r) ==
    /\ clock < MaxTime
    /\ Room
    /\ log' = Append(log, r)
    /\ file' = [file EXCEPT !.ids = Append(@, Len(log) + 1)]
    /\ UNCHANGED <<clock, spent, intervals, epoch, process, db>>

\* A token_count record; the first one of a session can still be zero.
AppendCount ==
    \E n \in IF Counter = 0 THEN {0, 1} ELSE {1} :
        Write([kind |-> "count", at |-> clock, total |-> Counter + n, gain |-> n])

\* The documented context adjustment: the counter becomes the window.
AppendAdjust ==
    /\ Odd
    /\ Write([kind |-> "adjust", at |-> clock, total |-> Window, gain |-> 0])

\* A complete line that cannot be parsed; tokens were consumed all the same.
AppendBad ==
    /\ Odd
    /\ Write([kind |-> "bad", at |-> clock, total |-> Counter + 1, gain |-> 1])

\* The counter starts again below its last value.
AppendDrop ==
    /\ Counter > 1
    /\ Odd
    /\ Write([kind |-> "drop", at |-> clock, total |-> 1, gain |-> 1])

\* The file is cut, or replaced by a copy of a prefix of it.
Replace ==
    /\ clock < MaxTime
    /\ Disturb
    /\ \E k \in 0..Len(file.ids), i \in {file.inode, file.inode + 1} :
        /\ k < Len(file.ids) \/ i # file.inode
        /\ file' = [inode |-> i, ids |-> SubSeq(file.ids, 1, k)]
    /\ UNCHANGED <<clock, log, intervals, epoch, process, db>>

Tick ==
    /\ clock < MaxTime
    /\ clock' = clock + 1
    /\ ran' = FALSE
    /\ UNCHANGED <<env, intervals, epoch, phase, batch, db>>

-----------------------------------------------------------------------------
(* Whose consumption a record is. *)

\* SourceAccountBinding.eligible_from: a source is the account's from the
\* second it was bound, or from its creation once that is proved.
EligibleFrom(cp) == IF cp.origin THEN Born ELSE cp.bound

\* SourceOwnership.same_interval
SameInterval(a, b, from) ==
    /\ a >= from /\ b >= from
    /\ \E k \in DOMAIN intervals :
        /\ a >= intervals[k].start /\ b >= intervals[k].start
        /\ intervals[k].end # None => a < intervals[k].end /\ b < intervals[k].end

\* creator_origin_from_record: one interval holds creation and binding.
CreatedHere(bound) ==
    /\ Creator
    /\ \E k \in DOMAIN intervals :
        /\ intervals[k].start <= Born
        /\ intervals[k].end # None => bound < intervals[k].end

-----------------------------------------------------------------------------
(* scan_source: one pass over the records a cycle may read.                *)
(* In a scan, previous is the record whose counter is compared, raw the    *)
(* record whose pointer is kept with it, and seek the counter that a file  *)
(* without a usable cursor is searched for.                                *)

\* Two records with equal counters: all components are compared, so only
\* adjustments and zero counters repeat.
SameCounter(i, j) ==
    \/ i = j
    \/ log[i].kind = "adjust" /\ log[j].kind = "adjust"
    \/ log[i].total = 0 /\ log[j].total = 0

Baseline(s, id) == [s EXCEPT !.known = TRUE, !.previous = id, !.raw = id]

Reject(s, p) == [s EXCEPT !.rows = @ \cup {p}]

\* The consumption a difference stands for: what lies between the two counters.
Between(i, j) ==
    LET at(id) == CHOOSE p \in DOMAIN file.ids : file.ids[p] = id
    IN  {file.ids[p] : p \in (at(i) + 1)..at(j)}

Charge(s, id) ==
    LET delta == log[id].total - log[s.previous].total
        event == [id |-> id, delta |-> delta, before |-> log[s.raw].at, at |-> log[id].at,
                  covers |-> Between(s.previous, id)]
    IN  [Baseline(s, id) EXCEPT !.events = IF delta > 0 THEN @ \cup {event} ELSE @]

\* While the saved counter has not been met, nothing is charged.
Seek(s, id) ==
    IF SameCounter(id, s.seek)
    THEN [Baseline(s, id) EXCEPT !.seek = None, !.full = s.matched]
    ELSE [s EXCEPT !.known = TRUE, !.previous = id]

\* Mutant: a counter whose predecessor belongs to somebody else is charged.
OwnedEndpoint(s, id, from) ==
    s.known /\ s.raw # None /\ SameInterval(log[id].at, log[id].at, from)

\* Both ends of the difference lie in one interval of this account.
OwnedPair(s, id, from) ==
    s.known /\ s.raw # None /\ SameInterval(log[s.raw].at, log[id].at, from)

Unowned(s, p, from) ==
    LET id    == file.ids[p]
        owned == SameInterval(log[id].at, log[id].at, from)
    IN  IF owned /\ log[id].total = 0 THEN Baseline(s, id) ELSE Reject(Baseline(s, id), p)

ScanRecord(s, p, from) ==
    LET id == file.ids[p]
    IN  CASE log[id].kind = "bad" -> Reject(s, p)
          [] log[id].kind # "bad" /\ s.seek # None -> Seek(s, id)
          [] log[id].kind = "adjust" /\ s.seek = None -> Baseline(s, id)
          [] OTHER ->
               IF ~OwnedPair(s, id, from) THEN Unowned(s, p, from)
               ELSE IF log[id].total < log[s.previous].total THEN Reject(s, p)
               ELSE Charge(s, id)

-----------------------------------------------------------------------------
(* One cycle: what run_cycle finds and the outcome it prepares. *)

\* checkpoint_can_resume_offset
Resumable(cp) == cp.inode = file.inode /\ Len(cp.prefix) <= Len(file.ids)

\* prior_checkpoint: the newest of this inode, otherwise the newest of the path.
Prior ==
    LET cps    == db.checkpoints
        stored == {i \in Inodes : cps[i] # NoCheckpoint}
    IN  IF cps[file.inode] # NoCheckpoint THEN cps[file.inode]
        ELSE IF stored = {} THEN NoCheckpoint
        ELSE CHOOSE cp \in {cps[i] : i \in stored} :
                \A i \in stored : cps[i].cycle <= cp.cycle

\* checkpoint_covers_observed_end
CoversEnd ==
    LET cp == db.checkpoints[file.inode]
    IN  cp # NoCheckpoint /\ Len(cp.prefix) = Len(file.ids)

\* The path waits for a counter that this inode or this epoch cannot answer.
AnchorElsewhere ==
    /\ db.recovery # NoRecovery
    /\ ~(db.recovery.inode = file.inode /\ db.recovery.epoch = epoch)

PrefixUnverified ==
    /\ Prior # NoCheckpoint /\ Resumable(Prior)
    /\ ~IsPrefix(Prior.prefix, file.ids)

Scannable == ~CoversEnd /\ ~AnchorElsewhere /\ ~PrefixUnverified

Row(lineage, start, ids, reason) ==
    [inode |-> file.inode, lineage |-> lineage, start |-> start, ids |-> ids,
     reason |-> reason, epoch |-> epoch]

\* Mutant: a file without a usable cursor is read as a new one.
NoAnchor(prior, resumed, saved) == [id |-> None, full |-> FALSE]

\* The counter a scan from the start of the file searches for.
Anchor(prior, resumed, saved) ==
    CASE saved # NoRecovery -> [id |-> saved.anchor, full |-> saved.full]
      [] saved = NoRecovery /\ prior # NoCheckpoint /\ ~resumed ->
            [id |-> IF prior.known THEN prior.previous ELSE None, full |-> prior.full]
      [] OTHER -> [id |-> None, full |-> FALSE]

\* A zero counter of a file read from its start needs no search.
AtOrigin(anchor, resumed, prior) ==
    /\ anchor.id # None /\ anchor.full /\ log[anchor.id].total = 0
    /\ resumed => prior.previous = None \/ log[prior.previous].total = 0

StartScan(prior, resumed, anchor) ==
    LET s == [known    |-> resumed /\ prior.known,
              previous |-> IF resumed THEN prior.previous ELSE None,
              raw      |-> IF resumed THEN prior.raw ELSE None,
              full     |-> IF resumed THEN prior.full ELSE prior = NoCheckpoint,
              seek     |-> anchor.id, matched |-> anchor.full,
              rows     |-> {}, events |-> {},
              resumed  |-> resumed, first |-> 0, last |-> 0]
    IN  IF AtOrigin(anchor, resumed, prior)
        THEN [s EXCEPT !.known = TRUE, !.previous = anchor.id, !.full = TRUE, !.seek = None]
        ELSE s

\* The records n + 1 to m of the file, one after the other.
Pass(s, n, m, from) ==
    LET scan[k \in 0..(m - n)] ==
            IF k = 0 THEN s ELSE ScanRecord(scan[k - 1], n + k, from)
    IN  scan[m - n]

\* scan_source, from the cursor or from the start of the file.
Scan ==
    LET prior   == Prior
        resumed == prior # NoCheckpoint /\ Resumable(prior)
        n       == IF resumed THEN Len(prior.prefix) ELSE 0
        m       == n + Min({Chunk, Len(file.ids) - n})
        anchor  == Anchor(prior, resumed, db.recovery)
        from    == IF resumed THEN EligibleFrom(prior) ELSE clock
    IN  Pass([StartScan(prior, resumed, anchor) EXCEPT !.first = n, !.last = m], n, m, from)

\* What a scan leaves behind: the cursor bound to the account, the accepted
\* range, the evidence, the state of the search, and the events.
OutcomeOf(s) ==
    LET prior   == Prior
        saved   == db.recovery
        start   == IF s.resumed THEN s.first + 1 ELSE 0
        prefix  == SubSeq(file.ids, 1, s.last)
        lineage == IF s.resumed THEN prior.lineage ELSE <<epoch, file.inode, prefix>>
        bound   == IF s.resumed THEN prior.bound ELSE clock
        missing == Row(lineage, 0, prefix, "anchor")
        rows    == {Row(lineage, p, <<file.ids[p]>>, "record") : p \in s.rows}
                     \cup (IF s.seek # None /\ saved = NoRecovery THEN {missing} ELSE {})
        search  == IF saved # NoRecovery THEN saved
                   ELSE [anchor |-> s.seek, full |-> prior.full, row |-> missing]
    IN  [checkpoint |->
            [inode |-> file.inode, lineage |-> lineage, epoch |-> epoch,
             cycle |-> db.cycle + 1, prefix |-> prefix,
             known |-> s.known, previous |-> s.previous, raw |-> s.raw,
             full  |-> (s.full \/ ~s.resumed) /\ rows = {},
             bound |-> bound, origin |-> (s.resumed /\ prior.origin) \/ CreatedHere(bound)],
         range    |-> [lineage |-> lineage, start |-> start, end |-> s.last + 1,
                       ids |-> SubSeq(file.ids, s.first + 1, s.last)],
         rows     |-> rows \cup
                      (IF s.seek # None /\ saved # NoRecovery THEN {saved.row} ELSE {}),
         recovery |-> IF s.seek = None THEN NoRecovery
                      ELSE [inode |-> file.inode, epoch |-> epoch, lineage |-> lineage,
                            offset |-> s.last + 1, anchor |-> search.anchor,
                            full |-> search.full, row |-> search.row],
         resolved |-> saved # NoRecovery /\ s.seek = None,
         backlog  |-> s.last < Len(file.ids),
         events   |-> {[inode |-> file.inode, lineage |-> lineage, start |-> start,
                        end |-> s.last + 1, id |-> e.id, delta |-> e.delta,
                        before |-> e.before, at |-> e.at, covers |-> e.covers] : e \in s.events}]

\* The one outcome of a cycle, for a scannable file.
Outcomes == {OutcomeOf(s) : s \in {Scan}}

\* session_event_has_ambiguous_lineage.  is_proved_replay exempts the events
\* that a source repair retired; no repair runs here, so it exempts none.
AmbiguousLineage(events) ==
    \E e \in events, d \in db.events :
        /\ d.inode = e.inode /\ d.lineage # e.lineage
        /\ d.at = e.at /\ d.delta = e.delta
        /\ d.start < e.end /\ e.start < d.end

\* session_event_is_replay: the whole key and all values agree; the record's
\* identity stands for the digest and the index inside the range.
IsReplay(d, e) ==
    /\ d.inode = e.inode /\ d.lineage = e.lineage
    /\ d.start = e.start /\ d.end = e.end
    /\ d.id = e.id /\ d.at = e.at /\ d.delta = e.delta

\* The events of an outcome that are not stored already.
Admitted(o) == [o EXCEPT !.events = {e \in @ : \A d \in db.events : ~IsReplay(d, e)}]

\* candidate_model_totals_complete: nothing is open in this cycle, and every
\* complete row on disk is resolved by it.
Complete(outcome, unresolved) ==
    /\ ~unresolved
    /\ db.rows \subseteq IF outcome # NoOutcome /\ outcome.resolved
                         THEN {db.recovery.row} ELSE {}

Batch(outcome, unresolved) ==
    [cycle |-> db.cycle + 1, epoch |-> epoch, outcome |-> outcome,
     complete |-> Complete(outcome, unresolved)]

\* A cycle starts once in a second and ends with a batch to commit.
StartCycle ==
    /\ Active
    /\ phase = "idle"
    /\ ~ran \/ clock = MaxTime
    /\ phase' = "prepared"
    /\ ran' = TRUE
    /\ UNCHANGED <<clock, log, file, intervals, epoch, db>>

\* A cycle that accepts the next part of the file.
PrepareSource ==
    /\ StartCycle
    /\ UNCHANGED spent
    /\ Scannable
    /\ \E o \in Outcomes :
        /\ ~AmbiguousLineage(o.events)
        /\ batch' = Batch(Admitted(o), o.rows # {} \/ o.backlog)

\* A cycle that leaves the source where it is.  It is a step of the model
\* when it changes what the database says about completeness.
PrepareUnchanged ==
    /\ StartCycle
    /\ UNCHANGED spent
    /\ Scannable => \E o \in Outcomes : AmbiguousLineage(o.events)
    /\ batch' = Batch(NoOutcome, ~CoversEnd \/ db.recovery # NoRecovery)
    /\ batch'.complete # db.complete

\* The source cannot be bound to the account, or changed while it was read.
PrepareUnbound ==
    /\ StartCycle
    /\ Disturb
    /\ Scannable
    /\ batch' = Batch(NoOutcome, TRUE)

-----------------------------------------------------------------------------
(* The writer: one transaction per batch. *)

\* Mutant: every batch is a new generation.
NeverReplayed(d, b) == FALSE

\* The batch of this epoch and cycle is already committed.
Replayed(d, b) == d.epoch = b.epoch /\ d.cycle = b.cycle

DuplicateRows(rows) ==
    \E r, t \in rows : r # t /\ r.lineage = t.lineage /\ r.start = t.start

\* The recovery row advances one cursor of one lineage.
RecoveryMoved(d, o) ==
    LET moved == d.recovery.lineage # o.range.lineage \/ d.recovery.epoch # o.checkpoint.epoch
    IN  d.recovery # NoRecovery
        /\ \/ o.resolved /\ moved
           \/ o.recovery # NoRecovery /\ (moved \/ o.recovery.offset < d.recovery.offset)

RangeConflict(d, r) ==
    \E t \in d.ranges : t.lineage = r.lineage /\ t # r /\ t.start < r.end /\ r.start < t.end

\* "session checkpoint moved backwards"
CursorBackwards(d, cp) ==
    LET old == d.checkpoints[cp.inode]
    IN  old # NoCheckpoint /\ old.lineage = cp.lineage /\ Len(old.prefix) > Len(cp.prefix)

RowConflict(d, rows) ==
    \E r \in rows, t \in d.rows : r # t /\ r.lineage = t.lineage /\ r.start = t.start

\* The transaction is rolled back with an error.
Refused(d, b) ==
    LET o == b.outcome
    IN  \/ d.epoch = b.epoch /\ d.cycle > b.cycle
        \/ /\ o # NoOutcome
           /\ \/ DuplicateRows(o.rows)
              \/ RowConflict(d, o.rows)
              \/ RecoveryMoved(d, o)
              \/ /\ ~Replayed(d, b)
                 /\ RangeConflict(d, o.range) \/ CursorBackwards(d, o.checkpoint)

\* Mutant: any accepted range clears the evidence of its inode.
ClearAllRows(d, o) == {r \in d.rows : r.inode # o.checkpoint.inode} \cup o.rows

\* replace_session_pending_ranges: an accepted range supersedes what the
\* inode has at its start, unless the batch reports that start again.
ReplaceRows(d, o) ==
    LET superseded(r) ==
            /\ r.inode = o.checkpoint.inode /\ r.start = o.range.start
            /\ \A t \in o.rows : t.start # o.range.start
    IN  {r \in d.rows : ~superseded(r)} \cup o.rows

\* What the accepted outcome of a source does to the tables.
Accept(d, o) ==
    LET settled == IF o.resolved /\ d.recovery # NoRecovery
                   THEN [d EXCEPT !.recovery = NoRecovery, !.rows = @ \ {d.recovery.row}]
                   ELSE d
    IN  [settled EXCEPT
            !.rows     = ReplaceRows(settled, o),
            !.recovery = IF o.recovery # NoRecovery THEN o.recovery ELSE @,
            !.events   = @ \cup o.events]

Store(d, b) ==
    LET o == b.outcome
        t == IF o = NoOutcome THEN d ELSE Accept(d, o)
    IN  IF Replayed(d, b) THEN t
        ELSE [t EXCEPT !.epoch = b.epoch, !.cycle = b.cycle, !.generation = @ + 1,
                       !.complete = b.complete,
                       !.checkpoints = IF o = NoOutcome THEN @
                                       ELSE [@ EXCEPT ![o.checkpoint.inode] = o.checkpoint],
                       !.ranges = IF o = NoOutcome THEN @ ELSE @ \cup {o.range}]

\* pending_account_sources_match: the accepted prefix is still in the file.
SourcesMatch ==
    LET o == batch.outcome
    IN  o = NoOutcome
        \/ (o.checkpoint.inode = file.inode /\ IsPrefix(o.checkpoint.prefix, file.ids))

\* Mutant: the pending batch is not cleared.
KeepBatch == phase' = "idle" /\ UNCHANGED batch

Forget == batch' = NoBatch /\ phase' = "idle"

\* Mutant: a retained batch waits for ever.
FirstAttempt == phase = "prepared"

Attempt == phase = "prepared" \/ (phase = "retained" /\ SourcesMatch)

\* commit_pending succeeds and the batch is released.
Commit ==
    /\ Attempt
    /\ Forget
    /\ ~Refused(db, batch)
    /\ db' = Store(db, batch)
    /\ UNCHANGED <<clock, env, intervals, epoch, ran>>

\* The commit or its read-back fails, before or after the transaction.
CommitFails ==
    /\ Attempt
    /\ ~Refused(db, batch)
    /\ Disturb
    /\ db' \in {db, Store(db, batch)}
    /\ phase' = "retained"
    /\ UNCHANGED <<clock, log, file, intervals, epoch, batch, ran>>

\* The writer refuses the batch; it is kept all the same.
CommitRefused ==
    /\ phase = "prepared" /\ phase' = "retained"
    /\ Refused(db, batch)
    /\ UNCHANGED <<clock, env, intervals, epoch, batch, ran, db>>

\* A retained batch whose source changed is dropped.
DropChanged ==
    /\ phase = "retained"
    /\ Forget
    /\ ~SourcesMatch
    /\ UNCHANGED <<clock, env, intervals, epoch, ran, db>>

-----------------------------------------------------------------------------
(* The account and the process. *)

\* acknowledge_existing_session_owner: a new process takes the tables over
\* with a cycle of its own.
Reopened(d) ==
    IF d.cycle = 0 THEN d ELSE [d EXCEPT !.cycle = @ + 1, !.generation = @ + 1]

\* It does so only when the database holds quota evidence (has_quota), which
\* another lane writes at a time of its own.
TakeOver(d) == {d, Reopened(d)}

\* Kill and restart: a boundary that was never committed may be forgotten.
Kill ==
    /\ Active
    /\ Disturb
    /\ Forget
    /\ epoch' \in {epoch, db.epoch}
    /\ db' \in TakeOver(db)
    /\ UNCHANGED <<clock, log, file, intervals, ran>>

\* Another account logs in: the interval ends and the batch is dropped.
Leave ==
    /\ Active
    /\ clock < MaxTime
    /\ Disturb
    /\ intervals' = [intervals EXCEPT ![Len(intervals)].end = clock]
    /\ Forget
    /\ UNCHANGED <<clock, log, file, epoch, ran, db>>

\* The account returns: a new interval, a new epoch, a new process.
Return ==
    /\ ~Active
    /\ intervals' = Append(intervals, [start |-> clock, end |-> None])
    /\ epoch' = Len(intervals) + 1
    /\ db' \in TakeOver(db)
    /\ UNCHANGED <<clock, env, process>>

Next ==
    \/ AppendCount \/ AppendAdjust \/ AppendBad \/ AppendDrop
    \/ Replace \/ Tick
    \/ PrepareSource \/ PrepareUnchanged \/ PrepareUnbound
    \/ Commit \/ CommitFails \/ CommitRefused \/ DropChanged
    \/ Kill \/ Leave \/ Return

Spec == Init /\ [][Next]_vars

\* Time passes and the recorder's loop keeps running its cycles.
Fairness ==
    /\ WF_vars(Tick)
    /\ WF_vars(PrepareSource \/ PrepareUnchanged)
    /\ WF_vars(Commit \/ CommitRefused \/ DropChanged)

FairSpec == Spec /\ Fairness

-----------------------------------------------------------------------------
(* Properties. *)

\* Types: no charge is empty or negative (has_usage), and a
\* pending batch exists exactly while a commit is outstanding.
TypeOK ==
    /\ clock \in 1..MaxTime
    /\ \A i \in DOMAIN log : log[i].at \in 1..clock /\ log[i].total \in Nat
    /\ file.inode \in Inodes /\ file.ids \in Seq(DOMAIN log)
    /\ phase \in {"idle", "prepared", "retained"}
    /\ phase = "idle" <=> batch = NoBatch
    /\ db.complete \in BOOLEAN
    /\ \A e \in db.events : e.delta \in Nat \ {0} /\ e.covers \subseteq DOMAIN log

Charged == UNION {e.covers : e \in db.events}

\* What each record consumed.
Gain == [i \in DOMAIN log |-> log[i].gain]

\* What the tables mean as a ledger.
Ledger == INSTANCE TokenLedger WITH
    used    <- Gain,
    charged <- Charged,
    tokens  <- SumFunction([e \in db.events |-> e.delta])

\* The database implements TokenLedger: whatever is cut, copied to a new
\* inode, killed, retried or replayed, scan_source and the writer charge a
\* consumption at most once and never for more than it was.  It holds while
\* no counter repeats but zero, so with at most one context adjustment.
ChargedOnce == Ledger!Spec

\* Both counters of a charge lie in one interval in which the account owned
\* the profile (SourceOwnership.same_interval), also when they are read in a
\* later interval.  The closing second counts as owned.
OwnedOnly ==
    \A e \in db.events : \E k \in DOMAIN intervals :
        /\ e.before >= intervals[k].start /\ e.at >= intervals[k].start
        /\ intervals[k].end # None => e.before <= intervals[k].end /\ e.at <= intervals[k].end

\* When candidate_model_totals_complete says the model totals are complete,
\* every token consumed in the accepted part of the file is charged: each
\* record that was skipped left evidence, and no evidence is lost.  A longer
\* file that is cut can lose some, because replace_session_pending_ranges
\* does not compare prefix_generation.
CompleteIsComplete ==
    db.complete =>
        LET cp == db.checkpoints[file.inode]
        IN  cp # NoCheckpoint =>
                \A p \in DOMAIN cp.prefix :
                    log[cp.prefix[p]].gain > 0 => cp.prefix[p] \in Charged

\* The commit of a cycle that is already committed changes nothing: when a
\* commit reports failure after its transaction, commit_pending repeats the
\* whole batch, and the writer's inserts and replacements are idempotent.
ReplayChangesNothing ==
    [][(db'.epoch = db.epoch /\ db'.cycle = db.cycle) => db' = db]_vars

\* The file, or the batch read from it, is left alone by run_cycle.
Blocked ==
    \/ phase = "retained" /\ Refused(db, batch)
    \/ AnchorElsewhere \/ PrefixUnverified
    \/ Scannable /\ \E o \in Outcomes : AmbiguousLineage(o.events)

\* While the account is there run_cycle brings the cursor to the end of the
\* file, through chunks, failed commits, kills and account changes, unless
\* the source is one of those it leaves alone.
EventuallyCollected == <>[](Active => CoversEnd \/ Blocked)

\* A batch that commit_pending keeps after an error is committed or dropped
\* in the end, so that the account's other sources go on.
RetainedResolved == (phase = "retained") ~> (phase # "retained")

-----------------------------------------------------------------------------
(* The inductive strengthening behind TypeOK, OwnedOnly and                 *)
(* ReplayChangesNothing.                                                    *)

Lineages == Nat \X Inodes \X Seq(Nat)
RecordType == [kind : {"count", "adjust", "bad", "drop"}, at : Nat, total : Nat, gain : Nat]
CheckpointType ==
    [inode : Inodes, lineage : Lineages, epoch : Nat, cycle : Nat, prefix : Seq(Nat),
     known : BOOLEAN, previous : Nat, raw : Nat, full : BOOLEAN, bound : Nat, origin : BOOLEAN]
RangeType == [lineage : Lineages, start : Nat, end : Nat, ids : Seq(Nat)]
RowType == [inode : Inodes, lineage : Lineages, start : Nat, ids : Seq(Nat),
            reason : {"record", "anchor"}, epoch : Nat]
RecoveryType == [inode : Inodes, epoch : Nat, lineage : Lineages, offset : Nat,
                 anchor : Nat, full : BOOLEAN, row : RowType]
EventType == [inode : Inodes, lineage : Lineages, start : Nat, end : Nat, id : Nat,
              delta : Nat \ {0}, before : Nat, at : Nat, covers : SUBSET Nat]
OutcomeType ==
    [checkpoint : CheckpointType, range : RangeType, rows : SUBSET RowType,
     recovery : RecoveryType \cup {NoRecovery}, resolved : BOOLEAN, backlog : BOOLEAN,
     events : SUBSET EventType]
BatchType == [cycle : Nat, epoch : Nat, outcome : OutcomeType \cup {NoOutcome}, complete : BOOLEAN]
DbType ==
    [epoch : Nat, cycle : Nat, generation : Nat,
     checkpoints : [Inodes -> CheckpointType \cup {NoCheckpoint}],
     ranges : SUBSET RangeType, rows : SUBSET RowType,
     recovery : RecoveryType \cup {NoRecovery},
     events : SUBSET EventType, complete : BOOLEAN]

\* The shapes of all the values, and what the environment's bounds allow.
Typed ==
    /\ clock \in 1..MaxTime /\ spent \in 0..MaxDisturbances
    /\ log \in Seq(RecordType) /\ \A i \in DOMAIN log : log[i].at \in 1..clock
    /\ file \in [inode : Inodes, ids : Seq(DOMAIN log)] /\ file.inode <= spent + 1
    /\ intervals \in Seq([start : Nat, end : Nat]) /\ intervals # <<>>
    /\ epoch \in Nat /\ ran \in BOOLEAN
    /\ phase \in {"idle", "prepared", "retained"}
    /\ phase = "idle" => batch = NoBatch
    /\ phase # "idle" => batch \in BatchType /\ batch.cycle # 0 /\ Active
    /\ db \in DbType

\* Two counters of one interval in which the account owned the profile.
OwnedSpan(before, at) ==
    \E k \in DOMAIN intervals :
        /\ before >= intervals[k].start /\ at >= intervals[k].start
        /\ intervals[k].end # None => before <= intervals[k].end /\ at <= intervals[k].end

\* A charge that was owned when it was computed stays owned: the interval may
\* end now, but not before the second the record was written in.
SoundEvent(e) ==
    /\ e.before <= clock /\ e.at <= clock
    /\ e.covers \subseteq DOMAIN log
    /\ OwnedSpan(e.before, e.at)

\* A cursor points at records that were written, and where it has a raw
\* counter to compare with, the counter is in the part it accepted.
SoundCheckpoint(cp) ==
    /\ cp.previous <= Len(log) /\ cp.raw <= Len(log)
    /\ cp.known => cp.previous # None
    /\ cp.raw # None => \E q \in DOMAIN cp.prefix : cp.prefix[q] = cp.previous

\* While a search is open, its cursor has no raw counter.
SoundDb ==
    /\ \A e \in db.events : SoundEvent(e)
    /\ \A i \in Inodes : db.checkpoints[i] # NoCheckpoint =>
           SoundCheckpoint(db.checkpoints[i]) /\ db.checkpoints[i].cycle <= db.cycle
    /\ db.recovery # NoRecovery =>
           /\ db.recovery.anchor <= Len(log)
           /\ db.checkpoints[db.recovery.inode] # NoCheckpoint
           /\ db.checkpoints[db.recovery.inode].raw = None

SoundOutcome(o) ==
    /\ \A e \in o.events : SoundEvent(e)
    /\ SoundCheckpoint(o.checkpoint)
    /\ o.resolved => o.recovery = NoRecovery
    /\ o.recovery # NoRecovery =>
           /\ o.recovery.anchor <= Len(log)
           /\ o.recovery.inode = o.checkpoint.inode
           /\ o.checkpoint.raw = None

\* A batch is of the cycle after the committed one and continues the open
\* search, or it is the committed one and changes nothing more.
SoundBatch ==
    LET o == batch.outcome
    IN  /\ o # NoOutcome => SoundOutcome(o) /\ o.checkpoint.cycle = batch.cycle
        /\ \/ /\ batch.cycle = db.cycle + 1
              /\ o # NoOutcome /\ db.recovery # NoRecovery =>
                     o.resolved \/ o.recovery # NoRecovery
           \/ /\ Replayed(db, batch)
              /\ o # NoOutcome => Accept(db, o) = db

\* Tables and pending batch are sound in every reachable state.
CollectionInv ==
    /\ Typed
    /\ SoundDb
    /\ phase # "idle" => SoundBatch

-----------------------------------------------------------------------------
(* The strengthening behind "charged at most once", the part of ChargedOnce *)
(* that needs no sums.                                                      *)

\* No two charges stand for the same record.
ChargedApart == \A e, d \in db.events : e # d => e.covers \cap d.covers = {}

\* A counter can repeat only through context adjustments (and at zero).
OneAdjustment ==
    \A i, j \in DOMAIN log : log[i].kind = "adjust" /\ log[j].kind = "adjust" => i = j

\* Records follow in the order they were written, and a counter that has
\* left zero does not return to it in the same file.
FileInv ==
    \A q, r \in DOMAIN file.ids : q < r =>
        /\ file.ids[q] < file.ids[r]
        /\ log[file.ids[q]].total > 0 => log[file.ids[r]].total > 0

Stored(i) == db.checkpoints[i] # NoCheckpoint

\* The inodes of the path were collected one after the other.
OrderInv ==
    /\ \A i \in Inodes : Stored(i) => i <= file.inode
    /\ \A i, j \in Inodes : Stored(i) /\ Stored(j) /\ i < j =>
           db.checkpoints[i].cycle < db.checkpoints[j].cycle

\* f is a counter from which nothing is charged again.
Frontier(C, f) == f \in DOMAIN log /\ log[f].total > 0 /\ \A c \in C : c <= f

\* The next charge starts behind C: at the counter a search waits for, or
\* at the counter of the cursor.
Behind(C, cp, recovery) ==
    C # {} => IF recovery # NoRecovery THEN Frontier(C, recovery.anchor)
              ELSE cp.known /\ cp.raw # None /\ Frontier(C, cp.previous)

Covered(events) == UNION {e.covers : e \in events}

LedgerDb ==
    /\ ChargedApart
    /\ Charged # {} => \E i \in Inodes : Stored(i)
    /\ \A i \in Inodes : Stored(i) /\ (\A j \in Inodes : Stored(j) => j <= i) =>
           Behind(Charged, db.checkpoints[i], db.recovery)

\* A batch that is not stored yet charges apart from the tables and itself.
LedgerBatch ==
    LET o == batch.outcome
    IN  o # NoOutcome /\ batch.cycle = db.cycle + 1 =>
            /\ o.checkpoint.inode <= file.inode
            /\ \A j \in Inodes : Stored(j) => j <= o.checkpoint.inode
            /\ \A e, d \in o.events : e # d => e.covers \cap d.covers = {}
            /\ Covered(o.events) \cap Charged = {}
            /\ Behind(Charged \cup Covered(o.events), o.checkpoint, o.recovery)

LedgerInv ==
    /\ FileInv
    /\ OneAdjustment => OrderInv /\ LedgerDb /\ (phase # "idle" => LedgerBatch)

-----------------------------------------------------------------------------
(* The strengthening behind "never for more than it was", the part of       *)
(* ChargedOnce that needs sums.                                             *)

\* The counter grows by what was consumed, except where an adjustment sets it.
CounterInv ==
    \A p \in DOMAIN file.ids :
        p > 1 /\ log[file.ids[p]].kind # "adjust" =>
            log[file.ids[p]].total <= log[file.ids[p - 1]].total + log[file.ids[p]].gain

\* A cursor accepted records, and no adjustment since the counter it
\* compares with.
PlainSince(cp) ==
    /\ \A r \in DOMAIN cp.prefix : cp.prefix[r] \in DOMAIN log
    /\ cp.raw # None => \E q \in DOMAIN cp.prefix :
        /\ cp.prefix[q] = cp.previous
        /\ \A r \in DOMAIN cp.prefix : r > q => log[cp.prefix[r]].kind # "adjust"

\* Finitely many charges, each for the record it was read from and none for
\* more than the records it stands for.
Paid(events) ==
    /\ IsFiniteSet(events)
    /\ \A e \in events : e.id \in e.covers /\ e.delta <= SumFunctionOnSet(Gain, e.covers)

AmountInv ==
    /\ CounterInv
    /\ Paid(db.events)
    /\ \A i \in Inodes : Stored(i) => PlainSince(db.checkpoints[i])
    /\ phase # "idle" /\ batch.outcome # NoOutcome =>
           Paid(batch.outcome.events) /\ PlainSince(batch.outcome.checkpoint)

-----------------------------------------------------------------------------
(* The strengthening behind CompleteIsComplete, for a file that is never    *)
(* cut in place: it only grows, or a copy of a prefix of it gets an inode   *)
(* of its own.                                                              *)

GrowsInPlace == file'.inode = file.inode => Len(file'.ids) >= Len(file.ids)

\* What the counters of a file say: the next one is higher by what was
\* consumed, or lower where it starts again.
GainInv ==
    /\ \A i \in DOMAIN log :
           log[i].gain <= log[i].total /\ (log[i].kind = "adjust" => log[i].gain = 0)
    /\ \A p \in DOMAIN file.ids :
           LET r == log[file.ids[p]]
               q == log[file.ids[p - 1]]
           IN  p > 1 => /\ r.kind = "count" => r.total = q.total + r.gain
                        /\ r.kind = "drop" => r.total < q.total

\* A cursor of the file's inode accepted the start of the file.
Follows(cp) ==
    cp.inode = file.inode =>
        /\ Len(cp.prefix) <= Len(file.ids)
        /\ \A x \in DOMAIN cp.prefix : cp.prefix[x] = file.ids[x]

\* All that the file's records up to f consumed is in C.
Settled(C, f) ==
    \A x \in DOMAIN file.ids :
        file.ids[x] <= f /\ log[file.ids[x]].gain > 0 => file.ids[x] \in C

\* All is charged up to the counter a search waits for, or up to the
\* counter of the cursor, which is then the last one it accepted.
SettledBehind(C, cp, recovery) ==
    IF recovery # NoRecovery THEN Settled(C, recovery.anchor)
    ELSE Settled(C, cp.previous) /\ \A x \in DOMAIN cp.prefix : cp.prefix[x] <= cp.previous

NothingSkipped(rows) == \A r \in rows : r.reason # "record"

\* An open search has its evidence, and is for a counter it must search for.
SearchRecorded(recovery, rows) ==
    recovery # NoRecovery =>
        /\ recovery.row \in rows /\ recovery.row.reason = "anchor"
        /\ recovery.anchor # None /\ ~(recovery.full /\ log[recovery.anchor].total = 0)

EvidenceDb ==
    /\ \A i \in Inodes : Stored(i) => db.checkpoints[i].inode = i /\ Follows(db.checkpoints[i])
    /\ \A r \in db.rows : Stored(r.inode) /\ r.start <= Len(db.checkpoints[r.inode].prefix)
    /\ SearchRecorded(db.recovery, db.rows)
    /\ db.complete => db.rows = {}
    /\ NothingSkipped(db.rows) =>
           \A i \in Inodes : Stored(i) /\ (\A j \in Inodes : Stored(j) => j <= i) =>
               SettledBehind(Charged, db.checkpoints[i], db.recovery)

\* A batch that is not stored yet starts behind all the evidence of its
\* inode, and says "complete" only when it leaves none.
EvidenceOutcome(o) ==
    LET k == o.checkpoint.inode
    IN  /\ Follows(o.checkpoint)
        /\ Stored(k) => /\ o.range.start > Len(db.checkpoints[k].prefix)
                        /\ Len(o.checkpoint.prefix) >= Len(db.checkpoints[k].prefix)
        /\ \A r \in o.rows \ db.rows : r.inode = k /\ r.start <= Len(o.checkpoint.prefix)
        /\ SearchRecorded(o.recovery, o.rows)
        /\ NothingSkipped(db.rows \cup o.rows) =>
               SettledBehind(Charged \cup Covered(o.events), o.checkpoint, o.recovery)

EvidenceBatch ==
    LET o == batch.outcome
    IN  batch.cycle = db.cycle + 1 =>
            /\ o # NoOutcome => EvidenceOutcome(o)
            /\ batch.complete =>
                   /\ o # NoOutcome => o.rows = {}
                   /\ \A r \in db.rows : /\ o # NoOutcome /\ o.resolved
                                         /\ db.recovery # NoRecovery /\ r = db.recovery.row

EvidenceInv == GainInv /\ EvidenceDb /\ (phase # "idle" => EvidenceBatch)

=============================================================================
