----------------------------- MODULE QuotaLane -----------------------------
(***************************************************************************)
(* The quota lane of codex-info-recorder: a worker thread asks the Codex   *)
(* app-server for the rate limits, journals every response before it is    *)
(* looked at, and confirms afterwards that the account did not change; the *)
(* recorder's main loop (and, for the accounts that are not logged in, the *)
(* inactive-history thread) replays the journal into the account's own     *)
(* database.  The threads share the journal file, the ACTIVE_RECEIPTS set  *)
(* and a two-slot notification queue; the process may be stopped, killed   *)
(* and restarted, possibly as another version, and the user may log in as  *)
(* somebody else at any moment.                                            *)
(*                                                                         *)
(* A journal row is known by its sequence, the index in `journal'.  Its    *)
(* payload is abstracted to the account that the app-server was serving,   *)
(* the response format (whether this version can interpret it), and the    *)
(* minute bucket, which stands for the pair (reset_at, minute) the value   *)
(* is projected to.                                                        *)
(***************************************************************************)
EXTENDS Integers, Sequences, FiniteSets

CONSTANTS Accounts,      \* the accounts a user can log in as
          LoggedOut,     \* auth.json is absent
          NoScope,       \* account_scope IS NULL
          Formats,       \* shapes of a rate-limit response
          Minutes,       \* exact history minutes (reset_at, minute)
          Versions,      \* for each recorder version, the formats it reads
          QueueCap,      \* capacity of the notification channel
          MaxPolls,      \* bound: polls started
          MaxSwitches,   \* bound: logins and logouts
          MaxStops,      \* bound: process stops and kills
          MaxFaults      \* bound: storage operations that fail

ASSUME AccountsAssumption ==
    /\ LoggedOut \notin Accounts
    /\ NoScope \notin Accounts

ASSUME VersionsAssumption == Versions # {} /\ Versions \subseteq SUBSET Formats

ASSUME BoundsAssumption ==
    /\ QueueCap \in Nat \ {0}
    /\ MaxPolls \in Nat
    /\ MaxSwitches \in Nat
    /\ MaxStops \in Nat
    /\ MaxFaults \in Nat

VARIABLES
  auth,        \* the account of auth.json
  server,      \* the account the poll's app-server process serves
  switched,    \* auth.json was rewritten during the life of the process
  proc,        \* "down", "run", or "stopping": main returned, worker joined
  owner,       \* the account whose partition this process admitted
  partitions,  \* accounts that have an admitted partition
  knows,       \* formats the running version interprets
  boundary,    \* AccountBoundaryState::changed()
  recorders,   \* the inactive job's recorders: opened once, or not yet
  wpc,         \* the step of fetch_quota_snapshot the worker is at
  poll,        \* its local variables
  active,      \* ACTIVE_RECEIPTS
  journal,     \* quota_observations, by sequence
  queue,       \* sync_channel(2) of poll results
  mpc,         \* the step of the main loop
  event,       \* the last result drained by QuotaPoller::latest
  pollHealth,  \* LaneHealth of the quota lane
  cursor,      \* Recorder::quota_replay_cursor, one per opened partition
  batch,       \* a replay read but not yet committed, per partition
  receipts,    \* quota_receipts of each account database
  staged,      \* official_period_inputs: latest interpretation per input
  projected,   \* the receipt each history minute shows (0: none)
  generation,  \* collection_generation
  degraded,    \* quota_acquisition_state.degraded
  input,       \* quota_acquisition_state.input_degraded
  used         \* how much of each bound is used up

env      == <<auth, server, switched>>
process  == <<proc, owner, partitions, knows, boundary, recorders>>
worker   == <<wpc, poll, active, queue>>
main     == <<mpc, event, pollHealth>>
replay   == <<cursor, batch>>
database == <<receipts, staged, projected, generation, degraded, input>>
vars     == <<env, process, worker, journal, main, replay, database, used>>

-----------------------------------------------------------------------------

Maximum(S) == CHOOSE m \in S : \A s \in S : s <= m

Ids == 1..MaxPolls    \* receipt ids: one per poll

NoPoll == [id |-> 0, before |-> LoggedOut, scope |-> NoScope,
           account |-> LoggedOut, payload |-> LoggedOut,
           format |-> "none", minute |-> "none", drift |-> 0]

\* ReplayCursor::default(); latest.sequence = 0 stands for latest = None.
NewCursor == [sequence |-> 0, verifying |-> {},
              latest |-> [sequence |-> 0, failed |-> FALSE]]

NoBatch == [phase |-> "none", inputs |-> {}, receipts |-> {}, next |-> NewCursor]

NoRecorders == [opened |-> FALSE, accounts |-> {}]

NoEvent == [kind |-> "none", epoch |-> LoggedOut]

\* A storage operation may fail as long as the bound on faults allows it.
Fault == /\ used.faults < MaxFaults
         /\ used' = [used EXCEPT !.faults = @ + 1]

\* recorder_epoch_matches for a proof taken by this owner; the final step of
\* every guard re-reads auth.json and the boundary flag.
EpochMatches == ~boundary /\ auth = owner

Interpretable(s) == journal[s].format \in knows

-----------------------------------------------------------------------------
(* The user and the app-server: not part of src/, seen through auth.json   *)
(* and the answers to account/read and account/rateLimits/read.            *)

\* Steps of a poll between its first and its last look at the account.
IdentityWindow == {"scope", "connect", "account", "limits", "raw", "recheck"}

\* A login or logout rewrites auth.json.  drift is history: how often that
\* happened (0, 1, or more) while the running poll's identity window is open.
Login(a) ==
    /\ used.switches < MaxSwitches
    /\ a # auth
    /\ auth' = a
    /\ switched' = (proc # "down")
    /\ poll' = [poll EXCEPT !.drift = IF wpc \in IdentityWindow /\ @ < 2 THEN @ + 1 ELSE @]
    /\ used' = [used EXCEPT !.switches = @ + 1]
    /\ UNCHANGED <<server, process, wpc, active, queue, journal, main, replay, database>>

\* The app-server may serve the credentials it loaded, or load them again.
ServerReload ==
    /\ wpc \in {"account", "limits", "recheck"}
    /\ server # auth
    /\ server' = auth
    /\ UNCHANGED <<auth, switched, process, worker, journal, main, replay, database, used>>

-----------------------------------------------------------------------------
(* The worker: fetch_quota_snapshot, one action per interaction.           *)

\* Mutant: an unbounded channel.
TrySendUnbounded(result) == queue' = Append(queue, result)

\* sync_channel(2).try_send: a full queue drops the new result.
TrySend(result) ==
    queue' = IF Len(queue) < QueueCap THEN Append(queue, result) ELSE queue

Failed == [kind |-> "failed", epoch |-> LoggedOut]

\* `?' and explicit Err: the receipt, if any, is dropped, and the error is
\* the poll's result.
Abandon ==
    /\ active' = active \ {poll.id}
    /\ wpc' = "failed"

\* authority_before.  An unreadable auth.json is an immediate error.
PollBegin ==
    /\ proc = "run" /\ wpc = "idle"
    /\ used.polls < MaxPolls
    /\ poll' = [NoPoll EXCEPT !.id = used.polls + 1, !.before = auth]
    /\ wpc' = IF auth = LoggedOut THEN "failed" ELSE "scope"
    /\ used' = [used EXCEPT !.polls = @ + 1]
    /\ UNCHANGED <<env, process, active, queue, journal, main, replay, database>>

\* current_account_scope_id(...).ok(): the registry may be unreadable.
ReadScope ==
    /\ wpc = "scope"
    /\ \E scope \in {NoScope} \cup ({auth} \cap Accounts) :
          poll' = [poll EXCEPT !.scope = scope]
    /\ wpc' = "connect"
    /\ UNCHANGED <<env, process, active, queue, journal, main, replay, database, used>>

\* Re-read the authority, then start an app-server, which loads auth.json.
Connect ==
    /\ wpc = "connect"
    /\ IF auth = poll.before
         THEN server' = auth /\ wpc' = "account" /\ UNCHANGED active
         ELSE Abandon /\ UNCHANGED server
    /\ UNCHANGED <<auth, switched, process, poll, queue, journal, main, replay, database, used>>

\* First account/read.
AccountRead ==
    /\ wpc = "account" /\ server # LoggedOut
    /\ poll' = [poll EXCEPT !.account = server]
    /\ wpc' = "limits"
    /\ UNCHANGED <<env, process, active, queue, journal, main, replay, database, used>>

\* account/rateLimits/read, then QuotaReceipt::new(..).with_id(..).
RateLimits ==
    /\ wpc = "limits" /\ server # LoggedOut
    /\ \E f \in Formats, m \in Minutes :
          poll' = [poll EXCEPT !.payload = server, !.format = f, !.minute = m]
    /\ active' = active \cup {poll.id}
    /\ wpc' = "raw"
    /\ UNCHANGED <<env, process, queue, journal, main, replay, database, used>>

\* An app-server request fails, times out or cannot be decoded.
RequestFails ==
    /\ wpc \in {"connect", "account", "limits", "recheck"}
    /\ Abandon
    /\ UNCHANGED <<env, process, poll, queue, journal, main, replay, database, used>>

Row(verified) ==
    [id |-> poll.id, scope |-> poll.scope, plan |-> poll.account,
     payload |-> poll.payload, format |-> poll.format, minute |-> poll.minute,
     verified |-> verified, drift |-> poll.drift]

\* QuotaReceipt::save: insert, or raise account_verified of the row with
\* this receipt id.  Only a receipt with a scope can be verified.
Save(verified) ==
    LET confirmed == verified /\ poll.scope # NoScope
        stored    == {s \in DOMAIN journal : journal[s].id = poll.id}
    IN  journal' = IF stored = {}
                     THEN Append(journal, Row(confirmed))
                     ELSE [s \in DOMAIN journal |->
                             IF s \in stored /\ confirmed /\ ~journal[s].verified
                               THEN [journal[s] EXCEPT !.verified = TRUE, !.drift = poll.drift]
                               ELSE journal[s]]

\* persist_quota_receipt(.., false, ..) succeeds.
SaveRaw ==
    /\ wpc = "raw"
    /\ Save(FALSE)
    /\ wpc' = "recheck"
    /\ UNCHANGED <<env, process, poll, active, queue, main, replay, database, used>>

\* persist_quota_receipt fails: notify, keep the response, try again.
SaveFails ==
    /\ wpc \in {"raw", "verify"}
    /\ Fault
    /\ TrySend(Failed)
    /\ UNCHANGED <<env, process, wpc, poll, active, journal, main, replay, database>>

\* Mutant: only the app-server's answer is compared, not auth.json.
RecheckServerOnly ==
    /\ wpc = "recheck" /\ server # LoggedOut
    /\ IF server = poll.account /\ ~boundary
         THEN wpc' = "verify" /\ UNCHANGED active
         ELSE Abandon
    /\ UNCHANGED <<env, process, poll, queue, journal, main, replay, database, used>>

\* Second account/read and authority_after.  Only a readable, different
\* authority signals the account boundary; a boundary that is already
\* signalled refuses the epoch proof.
Recheck ==
    /\ wpc = "recheck" /\ server # LoggedOut
    /\ IF auth = poll.before
         THEN /\ IF server = poll.account /\ ~boundary
                   THEN wpc' = "verify" /\ UNCHANGED active
                   ELSE Abandon
              /\ UNCHANGED boundary
         ELSE /\ Abandon
              /\ boundary' = (boundary \/ auth # LoggedOut)
    /\ UNCHANGED <<env, proc, owner, partitions, knows, recorders, poll, queue, journal,
                   main, replay, database, used>>

\* persist_quota_receipt(.., true, ..) succeeds and the receipt is dropped.
SaveVerified ==
    /\ wpc = "verify"
    /\ Save(TRUE)
    /\ active' = active \ {poll.id}
    /\ wpc' = IF poll.format \in knows THEN "ready" ELSE "stored"
    /\ UNCHANGED <<env, process, poll, queue, main, replay, database, used>>

\* The worker loop sends the result and waits for its next deadline.
Notify ==
    /\ wpc \in {"ready", "stored", "failed"}
    /\ TrySend(IF wpc = "failed" THEN Failed ELSE [kind |-> wpc, epoch |-> poll.before])
    /\ wpc' = "idle"
    /\ poll' = NoPoll
    /\ UNCHANGED <<env, process, active, journal, main, replay, database, used>>

\* The active-thread poller, which reads the authority before and after its
\* own requests, finds it changed and signals the boundary.
ThreadBoundary ==
    /\ proc # "down" /\ mpc # "open"
    /\ switched /\ auth # LoggedOut /\ ~boundary
    /\ boundary' = TRUE
    /\ UNCHANGED <<env, proc, owner, partitions, knows, recorders, worker, journal, main,
                   replay, database, used>>

-----------------------------------------------------------------------------
(* Replay: quota_journal::read_incremental, then Recorder::                 *)
(* replay_quota_journal, for the owner (main loop) or an inactive account. *)

\* Mutant: the WHERE clause forgets account_scope.
RowsToReadAnyScope(a, c) ==
    {s \in DOMAIN journal : s > c.sequence \/ journal[s].id \in c.verifying}

\* Rows after the cursor, and rows it passed while their owner was verifying.
RowsToRead(a, c) ==
    {s \in DOMAIN journal :
        /\ journal[s].scope = a
        /\ s > c.sequence \/ journal[s].id \in c.verifying}

\* A row is settled when it is verified or its owner is gone.
Settled(s) == journal[s].verified \/ journal[s].id \notin active

\* Settling goes by ascending sequence, so the last settled row decides,
\* unless a later row was settled by an earlier read.
LatestSettled(c, rows) ==
    LET settled == {s \in rows : Settled(s)}
        last    == Maximum(settled)
    IN  IF settled = {} \/ last < c.latest.sequence
          THEN c.latest
          ELSE [sequence |-> last,
                failed   |-> ~(journal[last].verified /\ Interpretable(last))]

\* Mutant: rows passed while they were being verified are not remembered.
NextCursorForgets(c, rows) ==
    [sequence  |-> Maximum({c.sequence} \cup rows),
     verifying |-> c.verifying \ {journal[s].id : s \in rows},
     latest    |-> LatestSettled(c, rows)]

NextCursor(c, rows) ==
    [sequence  |-> Maximum({c.sequence} \cup rows),
     verifying |-> (c.verifying \ {journal[s].id : s \in rows})
                     \cup {journal[s].id : s \in {r \in rows : ~Settled(r)}},
     latest    |-> LatestSettled(c, rows)]

\* read_since: one SQLite snapshot, taken while ACTIVE_RECEIPTS is locked.
ReadSince(a) ==
    LET rows     == RowsToRead(a, cursor[a])
        verified == {s \in rows : journal[s].verified}
    IN  [phase    |-> "read",
         inputs   |-> verified,
         receipts |-> {s \in verified : Interpretable(s)},
         next     |-> NextCursor(cursor[a], rows)]

ReplayRead(a) ==
    /\ batch[a].phase = "none"
    /\ batch' = [batch EXCEPT ![a] = ReadSince(a)]
    /\ UNCHANGED <<env, process, worker, journal, cursor, database, used>>

\* Mutant: only what cannot be interpreted is staged.
ReplayStageBarriers(a) ==
    /\ batch[a].phase = "read"
    /\ EpochMatches
    /\ staged' = [staged EXCEPT ![a] = [s \in DOMAIN staged[a] |->
           IF s \in batch[a].inputs \ batch[a].receipts THEN "barrier" ELSE staged[a][s]]]
    /\ batch' = [batch EXCEPT ![a].phase = "staged"]
    /\ UNCHANGED <<env, process, worker, journal, cursor, receipts, projected,
                   generation, degraded, input, used>>

\* Take the commit fence, check the epoch, then stage_official_quota_inputs
\* in a transaction of its own.
ReplayStage(a) ==
    /\ batch[a].phase = "read"
    /\ EpochMatches
    /\ staged' = [staged EXCEPT ![a] = [s \in DOMAIN staged[a] |->
           IF s \in batch[a].inputs
             THEN IF s \in batch[a].receipts THEN "period" ELSE "barrier"
             ELSE staged[a][s]]]
    /\ batch' = [batch EXCEPT ![a].phase = "staged"]
    /\ UNCHANGED <<env, process, worker, journal, cursor, receipts, projected,
                   generation, degraded, input, used>>

\* The receipts of one history minute, and the one it shows.
AtMinute(set, m) == {s \in set : journal[s].minute = m}

\* Mutant: the receipt inserted last wins, not the one acquired last.
ProjectInserted(a, accepted, new) ==
    [m \in Minutes |-> IF AtMinute(new, m) # {}
                         THEN Maximum(AtMinute(new, m))
                         ELSE projected[a][m]]

\* project_exact_minute for the minutes of the receipts just inserted.
Project(a, accepted, new) ==
    [m \in Minutes |-> IF AtMinute(new, m) # {}
                         THEN Maximum(AtMinute(accepted, m))
                         ELSE projected[a][m]]

\* Mutant: a replay without storage errors always clears the input health.
InputHealthOptimistic(failed) == "ok"

InputHealth(failed) == IF failed THEN "failed" ELSE "ok"

\* commit_quota_receipts: receipts, projection, input health and generation
\* in one transaction; then the recorder takes over the next cursor.
ReplayCommit(a) ==
    LET b        == batch[a]
        new      == b.receipts \ receipts[a]
        accepted == receipts[a] \cup b.receipts
        health   == IF b.next.latest.sequence = 0 THEN input[a]
                    ELSE InputHealth(b.next.latest.failed)
    IN  /\ b.phase = "staged"
        /\ receipts'   = [receipts   EXCEPT ![a] = accepted]
        /\ projected'  = [projected  EXCEPT ![a] = Project(a, accepted, new)]
        /\ input'      = [input      EXCEPT ![a] = health]
        /\ generation' = [generation EXCEPT ![a] =
                            IF new # {} \/ health # input[a] THEN @ + 1 ELSE @]
        /\ cursor'     = [cursor     EXCEPT ![a] = b.next]
        /\ batch'      = [batch      EXCEPT ![a] = NoBatch]
        /\ UNCHANGED <<env, process, worker, journal, staged, degraded, used>>

\* Mutant: the cursor is taken over before the commit succeeded.
ReplayFailsAdvances(a) ==
    /\ Fault
    /\ cursor' = [cursor EXCEPT ![a] = IF batch[a].phase = "none" THEN @ ELSE batch[a].next]
    /\ batch' = [batch EXCEPT ![a] = NoBatch]
    /\ UNCHANGED <<env, process, worker, journal, database>>

\* A storage error at any step of the replay: nothing is committed and the
\* cursor stays where it was.
ReplayFails(a) ==
    /\ Fault
    /\ batch' = [batch EXCEPT ![a] = NoBatch]
    /\ UNCHANGED <<env, process, worker, journal, cursor, database>>

-----------------------------------------------------------------------------
(* The inactive-history thread: one job at a time over the partitions the   *)
(* catalog held when the process started.                                   *)

Inactive == partitions \ {owner}

JobRuns == proc = "run" /\ mpc \notin {"off", "open"} /\ EpochMatches

\* The first job opens the other accounts' databases.  One that cannot be
\* opened is left out until the process is restarted.
InactiveOpen ==
    /\ JobRuns /\ ~recorders.opened
    /\ Inactive # {}
    /\ \/ recorders' = [opened |-> TRUE, accounts |-> Inactive] /\ UNCHANGED used
       \/ /\ Fault
          /\ \E a \in Inactive : recorders' = [opened |-> TRUE, accounts |-> Inactive \ {a}]
    /\ UNCHANGED <<env, proc, owner, partitions, knows, boundary, worker, journal,
                   main, replay, database>>

InactiveRead(a) ==
    /\ JobRuns /\ a \in recorders.accounts
    /\ \A b \in Inactive : batch[b].phase = "none"
    /\ ReplayRead(a)
    /\ UNCHANGED main

InactiveStage(a)  == a \in Inactive /\ ReplayStage(a) /\ UNCHANGED main

InactiveCommit(a) == a \in Inactive /\ ReplayCommit(a) /\ UNCHANGED main

\* A storage error, or the guard's AccountBoundaryChanged: the job ends, and
\* main exits at its own next check.
InactiveGivesUp(a) ==
    /\ a \in Inactive
    /\ batch[a].phase # "none"
    /\ \/ ReplayFails(a)
       \/ /\ batch[a].phase = "read" /\ ~EpochMatches
          /\ batch' = [batch EXCEPT ![a] = NoBatch]
          /\ UNCHANGED <<env, process, worker, journal, cursor, database, used>>
    /\ UNCHANGED main

-----------------------------------------------------------------------------
(* The main loop, from the replay of one cycle to the wait for the next.    *)

\* main returns: QuotaPoller::drop stops the worker after the poll it owns.
Exit ==
    /\ proc' = "stopping"
    /\ mpc' = "off"
    /\ UNCHANGED <<owner, partitions, knows, boundary, recorders>>

At(step) == proc = "run" /\ mpc = step

\* The account database is opened while the worker is already polling.  A
\* failed open is tried again; a failed startup acknowledgement ends main.
OpenRecorder ==
    /\ At("open")
    /\ \/ EpochMatches /\ mpc' = "cycle" /\ UNCHANGED <<process, used>>
       \/ ~EpochMatches /\ Exit /\ UNCHANGED used
       \/ Fault /\ Exit
    /\ UNCHANGED <<env, worker, journal, event, pollHealth, replay, database>>

\* AccountEpochProof::capture and the first recorder_epoch_matches.
CycleBegin ==
    /\ At("cycle")
    /\ IF EpochMatches THEN mpc' = "read" /\ UNCHANGED process ELSE Exit
    /\ UNCHANGED <<env, worker, journal, event, pollHealth, replay, database, used>>

MainRead ==
    /\ At("read")
    /\ ReplayRead(owner)
    /\ mpc' = "stage"
    /\ UNCHANGED <<event, pollHealth>>

MainStage ==
    /\ At("stage")
    /\ ReplayStage(owner)
    /\ mpc' = "commit"
    /\ UNCHANGED <<event, pollHealth>>

MainCommit ==
    /\ At("commit")
    /\ ReplayCommit(owner)
    /\ mpc' = "health"
    /\ UNCHANGED <<event, pollHealth>>

MainReplayFails ==
    /\ proc = "run" /\ mpc \in {"read", "stage", "commit"}
    /\ ReplayFails(owner)
    /\ mpc' = "health"
    /\ UNCHANGED <<event, pollHealth>>

\* The replay guard reports AccountBoundaryChanged.
MainReplayRefused ==
    /\ At("stage")
    /\ ~EpochMatches
    /\ Exit
    /\ UNCHANGED <<env, worker, journal, event, pollHealth, replay, database, used>>

\* Mutant: the health changes without a new generation.
SetDegradedSilently(d) ==
    /\ degraded' = [degraded EXCEPT ![owner] = d]
    /\ UNCHANGED <<input, generation, used>>

\* set_quota_acquisition_degraded(d) behind the commit fence.  An equal value
\* changes nothing; an error, the fence's included, is only logged.
SetDegraded(d) ==
    \/ /\ ~boundary /\ degraded[owner] # d
       /\ degraded' = [degraded EXCEPT ![owner] = d]
       /\ input' = [input EXCEPT ![owner] = IF @ = "absent" THEN "ok" ELSE @]
       /\ generation' = [generation EXCEPT ![owner] = @ + 1]
       /\ UNCHANGED used
    \/ /\ boundary \/ degraded[owner] = d
       /\ UNCHANGED <<degraded, input, generation, used>>
    \/ /\ Fault
       /\ UNCHANGED <<degraded, input, generation>>

\* sync_quota_poll_health
SyncPollHealth(health) ==
    /\ IF health = "unknown"
         THEN UNCHANGED <<degraded, input, generation, used>>
         ELSE SetDegraded(health = "failed")
    /\ UNCHANGED <<receipts, staged, projected>>

\* Mutant: a health that could not be stored is not stored again.
MainHealthOnce ==
    /\ At("health")
    /\ mpc' = "acknowledge"
    /\ UNCHANGED <<env, process, worker, journal, event, pollHealth, replay, database, used>>

MainHealth ==
    /\ At("health")
    /\ SyncPollHealth(pollHealth)
    /\ mpc' = "acknowledge"
    /\ UNCHANGED <<env, process, worker, journal, event, pollHealth, replay>>

\* The new generation is acknowledged in the recorder state file; an error
\* here, unlike the others, ends main.
MainAcknowledge ==
    /\ At("acknowledge")
    /\ \/ mpc' = "drain" /\ UNCHANGED <<process, used>>
       \/ ~EpochMatches /\ Exit /\ UNCHANGED used
       \/ Fault /\ Exit
    /\ UNCHANGED <<env, worker, journal, event, pollHealth, replay, database>>

\* QuotaPoller::latest drains the queue; only the last result will matter.
MainDrain ==
    /\ At("drain")
    /\ event' = IF queue = <<>> THEN event ELSE queue[Len(queue)]
    /\ queue' = <<>>
    /\ mpc' = "session"
    /\ UNCHANGED <<env, process, wpc, poll, active, journal, pollHealth, replay, database, used>>

\* Session collection, which may find that the account changed.
MainSession ==
    /\ At("session")
    /\ \/ mpc' = "event" /\ UNCHANGED process
       \/ ~EpochMatches /\ Exit
    /\ UNCHANGED <<env, worker, journal, event, pollHealth, replay, database, used>>

\* mark_quota_input_degraded: commit_quota_receipts(&[], true).
MarkInputDegraded ==
    \/ /\ ~boundary /\ input[owner] # "failed"
       /\ input' = [input EXCEPT ![owner] = "failed"]
       /\ generation' = [generation EXCEPT ![owner] = @ + 1]
       /\ UNCHANGED used
    \/ /\ boundary \/ input[owner] = "failed"
       /\ UNCHANGED <<input, generation, used>>
    \/ /\ Fault
       /\ UNCHANGED <<input, generation>>

\* take_events().last(): check the epochs, take over the health, and record
\* that a stored response could not be interpreted.
MainEvent ==
    /\ At("event")
    /\ IF event.kind = "none"
         THEN /\ mpc' = "cycle"
              /\ UNCHANGED <<process, pollHealth, database, used>>
         ELSE IF ~EpochMatches \/ (event.kind # "failed" /\ event.epoch # auth)
                THEN Exit /\ UNCHANGED <<pollHealth, database, used>>
                ELSE /\ pollHealth' = IF event.kind = "failed" THEN "failed" ELSE "ready"
                     /\ IF event.kind = "stored"
                          THEN MarkInputDegraded
                          ELSE UNCHANGED <<input, generation, used>>
                     /\ mpc' = "sync"
                     /\ UNCHANGED <<process, receipts, staged, projected, degraded>>
    /\ UNCHANGED <<env, worker, journal, event, replay>>

\* The epoch is checked again, then the health is made durable; the cycle
\* waits for its next deadline.
MainSync ==
    /\ At("sync")
    /\ IF EpochMatches
         THEN SyncPollHealth(pollHealth) /\ mpc' = "cycle" /\ UNCHANGED process
         ELSE Exit /\ UNCHANGED <<database, used>>
    /\ event' = NoEvent
    /\ UNCHANGED <<env, worker, journal, pollHealth, replay>>

-----------------------------------------------------------------------------
(* The process: systemd starts it, stops it, or kills it.                   *)

\* SIGTERM is noticed where main looks at shutdown_requested().
Terminate ==
    /\ proc = "run" /\ mpc \in {"open", "cycle", "session"}
    /\ used.stops < MaxStops
    /\ Exit
    /\ used' = [used EXCEPT !.stops = @ + 1]
    /\ UNCHANGED <<env, worker, journal, event, pollHealth, replay, database>>

\* Everything that lives in memory is gone.
Vanish ==
    /\ proc' = "down"
    /\ boundary' = FALSE /\ recorders' = NoRecorders
    /\ wpc' = "idle" /\ poll' = NoPoll /\ active' = {} /\ queue' = <<>>
    /\ mpc' = "off" /\ event' = NoEvent /\ pollHealth' = "unknown"
    /\ cursor' = [a \in Accounts |-> NewCursor]
    /\ batch' = [a \in Accounts |-> NoBatch]
    /\ switched' = FALSE
    /\ UNCHANGED <<auth, server, owner, partitions, knows, journal, database>>

\* Mutant: main does not join the worker.
ExitedUnjoined ==
    /\ proc = "stopping"
    /\ Vanish
    /\ UNCHANGED used

\* The worker has been joined and main ends.
Exited ==
    /\ proc = "stopping" /\ wpc = "idle"
    /\ Vanish
    /\ UNCHANGED used

\* SIGKILL or power loss at any point.
Crash ==
    /\ proc # "down"
    /\ used.stops < MaxStops
    /\ Vanish
    /\ used' = [used EXCEPT !.stops = @ + 1]

\* A start admits the partition of the account that is logged in and starts
\* the worker before the account database is opened.  The binary may have
\* been upgraded or rolled back.
Start ==
    /\ proc = "down" /\ auth # LoggedOut
    /\ proc' = "run" /\ mpc' = "open"
    /\ owner' = auth
    /\ partitions' = partitions \cup {auth}
    /\ knows' \in Versions
    /\ UNCHANGED <<env, boundary, recorders, worker, journal, event, pollHealth, replay, database, used>>

-----------------------------------------------------------------------------

Init ==
    /\ auth \in Accounts
    /\ server = auth
    /\ switched = FALSE
    /\ proc = "down" /\ owner = auth /\ partitions = {} /\ knows \in Versions
    /\ boundary = FALSE /\ recorders = NoRecorders
    /\ wpc = "idle" /\ poll = NoPoll /\ active = {} /\ queue = <<>>
    /\ journal = <<>>
    /\ mpc = "off" /\ event = NoEvent /\ pollHealth = "unknown"
    /\ cursor = [a \in Accounts |-> NewCursor]
    /\ batch = [a \in Accounts |-> NoBatch]
    /\ receipts = [a \in Accounts |-> {}]
    /\ staged = [a \in Accounts |-> [s \in Ids |-> "none"]]
    /\ projected = [a \in Accounts |-> [m \in Minutes |-> 0]]
    /\ generation = [a \in Accounts |-> 0]
    /\ degraded = [a \in Accounts |-> FALSE]
    /\ input = [a \in Accounts |-> "absent"]
    /\ used = [polls |-> 0, switches |-> 0, stops |-> 0, faults |-> 0]

WorkerStep ==
    \/ ReadScope \/ Connect \/ AccountRead \/ RateLimits \/ RequestFails
    \/ SaveRaw \/ SaveFails \/ Recheck \/ SaveVerified \/ Notify

MainStep ==
    \/ OpenRecorder \/ CycleBegin \/ MainRead \/ MainStage \/ MainCommit
    \/ MainReplayFails \/ MainReplayRefused \/ MainHealth \/ MainAcknowledge \/ MainDrain
    \/ MainSession \/ MainEvent \/ MainSync

InactiveStep(a) ==
    InactiveRead(a) \/ InactiveStage(a) \/ InactiveCommit(a) \/ InactiveGivesUp(a)

Next ==
    \/ \E a \in Accounts \cup {LoggedOut} : Login(a)
    \/ ServerReload
    \/ PollBegin \/ WorkerStep
    \/ ThreadBoundary
    \/ MainStep
    \/ InactiveOpen \/ \E a \in Accounts : InactiveStep(a)
    \/ Terminate \/ Exited \/ Crash \/ Start

Spec == Init /\ [][Next]_vars

\* The worker and the main loop are threads the OS schedules; the inactive
\* job visits every partition in turn; Restart=always starts the process
\* again.  Nobody is obliged to log in, and no poll is obliged to begin.
Fairness ==
    /\ WF_vars(WorkerStep)
    /\ WF_vars(MainStep)
    /\ WF_vars(InactiveOpen) /\ \A a \in Accounts : WF_vars(InactiveStep(a))
    /\ WF_vars(Exited)
    /\ WF_vars(Start)

FairSpec == Spec /\ Fairness

-----------------------------------------------------------------------------
(* Types                                                                    *)

Scopes == Accounts \cup {NoScope}
Authorities == Accounts \cup {LoggedOut}

WorkerSteps == IdentityWindow \cup {"idle", "verify", "ready", "stored", "failed"}
MainSteps == {"off", "open", "cycle", "read", "stage", "commit", "health",
              "acknowledge", "drain", "session", "event", "sync"}

PollType == [id : {0} \cup Ids, before : Authorities, scope : Scopes,
             account : Authorities, payload : Authorities,
             format : Formats \cup {"none"}, minute : Minutes \cup {"none"},
             drift : 0..2]
RowType == [id : Ids, scope : Scopes, plan : Accounts, payload : Accounts,
            format : Formats, minute : Minutes, verified : BOOLEAN, drift : 0..2]
EventType == [kind : {"none", "ready", "stored", "failed"}, epoch : Authorities]
LatestType == [sequence : Nat, failed : BOOLEAN]
CursorType == [sequence : Nat, verifying : SUBSET Ids, latest : LatestType]
UsedType == [polls : 0..MaxPolls, switches : 0..MaxSwitches,
             stops : 0..MaxStops, faults : 0..MaxFaults]
BatchType == [phase : {"none", "read", "staged"}, inputs : SUBSET Ids,
              receipts : SUBSET Ids, next : CursorType]

\* Every variable of the lane keeps its type: the journal never outgrows the
\* polls, the queue its channel, and the three databases of rows their keys.
TypeOK ==
    /\ auth \in Authorities /\ server \in Authorities
    /\ proc \in {"down", "run", "stopping"} /\ owner \in Accounts
    /\ partitions \subseteq Accounts /\ knows \in Versions
    /\ boundary \in BOOLEAN /\ switched \in BOOLEAN
    /\ recorders \in [opened : BOOLEAN, accounts : SUBSET Accounts]
    /\ wpc \in WorkerSteps /\ poll \in PollType
    /\ active \subseteq Ids
    /\ journal \in Seq(RowType) /\ Len(journal) <= used.polls
    /\ queue \in Seq(EventType) /\ Len(queue) <= QueueCap
    /\ mpc \in MainSteps /\ event \in EventType
    /\ pollHealth \in {"unknown", "ready", "failed"}
    /\ cursor \in [Accounts -> CursorType]
    /\ batch \in [Accounts -> BatchType]
    /\ receipts \in [Accounts -> SUBSET Ids]
    /\ staged \in [Accounts -> [Ids -> {"none", "period", "barrier"}]]
    /\ projected \in [Accounts -> [Minutes -> Nat]]
    /\ generation \in [Accounts -> Nat]
    /\ degraded \in [Accounts -> BOOLEAN]
    /\ input \in [Accounts -> {"absent", "ok", "failed"}]
    /\ used \in UsedType

-----------------------------------------------------------------------------
(* Safety                                                                   *)

\* read_since, commit_quota_receipts: an account database holds a receipt
\* only for a journal row of that very account which was verified.
ReceiptsFromVerified ==
    \A a \in Accounts : \A s \in receipts[a] :
        s \in DOMAIN journal /\ journal[s].verified /\ journal[s].scope = a

\* read_since: a row the in-memory cursor has passed is either still awaited
\* by name, or settled for good: applied if this version can read it, or
\* abandoned by an owner that can no longer verify it.  Nothing is skipped.
CursorSound ==
    \A a \in Accounts : \A s \in DOMAIN journal :
        journal[s].scope = a /\ s <= cursor[a].sequence =>
            \/ journal[s].id \in cursor[a].verifying
            \/ journal[s].verified /\ (Interpretable(s) => s \in receipts[a])
            \/ ~journal[s].verified /\ journal[s].id \notin active

\* replay_quota_journal: period evidence is staged in its own transaction
\* before the receipt, so no kill leaves a receipt without its evidence.
AppliedAreStaged ==
    \A a \in Accounts : \A s \in receipts[a] : staged[a][s] # "none"

\* project_exact_minute: a history minute shows the accepted receipt acquired
\* last, also when a newer version applies old receipts after newer ones.
ProjectionLatest ==
    \A a \in Accounts, m \in Minutes :
        LET accepted == AtMinute(receipts[a], m)
        IN  projected[a][m] = IF accepted = {} THEN 0 ELSE Maximum(accepted)

\* ReplayCursor::settle, commit_quota_receipts: the database never reports
\* readable input while the newest settled row of the account is not.
NeverOptimistic ==
    \A a \in Accounts : LET latest == cursor[a].latest IN
        /\ latest.failed => input[a] = "failed"
        /\ \A s \in DOMAIN journal :
              /\ journal[s].scope = a
              /\ s <= cursor[a].sequence
              /\ journal[s].id \notin cursor[a].verifying
              => /\ s <= latest.sequence
                 /\ s = latest.sequence =>
                      latest.failed = ~(journal[s].verified /\ Interpretable(s))

\* AccountIdentityWindow: one change of account inside the window is always
\* noticed, and without a change the response belongs to the row's scope.
AdmittedAttribution ==
    \A s \in DOMAIN journal : journal[s].verified =>
        /\ journal[s].drift # 1
        /\ journal[s].drift = 0 =>
              journal[s].payload = journal[s].scope /\ journal[s].plan = journal[s].scope

\* The comment on AccountIdentityWindow: the identity "must remain unchanged
\* from the first account/read through the final account/read".
IdentityNeverChanged ==
    \A s \in DOMAIN journal : journal[s].verified => journal[s].payload = journal[s].plan

VisibleStep(a) ==
    \/ generation'[a] > generation[a]
    \/ /\ receipts'[a] = receipts[a] /\ projected'[a] = projected[a]
       /\ degraded'[a] = degraded[a]
       /\ (input'[a] = "failed") = (input[a] = "failed")

\* commit_quota_receipts, set_quota_acquisition_degraded: readers poll the
\* generation, so whatever they can see changes only together with it.
VisibleChangesAdvance == [][\A a \in Accounts : VisibleStep(a)]_vars

KeepsResponse(id) ==
    \/ \E s \in DOMAIN journal' : journal'[s].id = id
    \/ used'.stops > used.stops

\* QuotaPoller::drop, persist_quota_receipt: a response leaves memory only
\* once it is in the journal, however the process ends short of a kill.
ResponseOutlivesStop == [][\A id \in active \ active' : KeepsResponse(id)]_vars

-----------------------------------------------------------------------------
(* Liveness                                                                 *)

Pending(s) ==
    /\ s \in DOMAIN journal /\ journal[s].verified
    /\ journal[s].scope \in partitions

\* The inactive job could not open the database of the row's account.
LeftOut(s) == recorders.opened /\ journal[s].scope \in Inactive \ recorders.accounts

\* A verified response is applied to its own account's database: also after a
\* kill, a failed commit or an account switch, as long as someone is logged
\* in, the running version can read it and could open that database.
VerifiedIsApplied ==
    \A s \in Ids :
        Pending(s) ~> \/ \E a \in Accounts : s \in receipts[a]
                      \/ s \in DOMAIN journal /\ (~Interpretable(s) \/ LeftOut(s))
                      \/ auth = LoggedOut

\* Once polls and faults have ended, both stored health flags of the running
\* owner are what they should be: input is what the newest settled row says,
\* although MainEvent may apply an InputStored of an older poll after the
\* replay, and degraded is the health of the last poll, although
\* set_quota_acquisition_degraded may fail and is then only logged.
HealthSettles ==
    <>[](proc = "run" =>
            LET latest == cursor[owner].latest
            IN  /\ latest.sequence # 0 => input[owner] = InputHealth(latest.failed)
                /\ pollHealth # "unknown" => degraded[owner] = (pollHealth = "failed"))

-----------------------------------------------------------------------------
(* The inductive strengthening behind CursorSound and ReceiptsFromVerified. *)

Unsaved   == {"scope", "connect", "account", "limits", "raw"}
Owning    == {"raw", "recheck", "verify"}
Identified == {"limits", "raw", "recheck", "verify"}

\* Ownership: the worker owns exactly the receipt of its poll, from with_id
\* to drop; ids are allocated in order and the journal has each at most once.
WorkerInv ==
    /\ active = IF wpc \in Owning THEN {poll.id} ELSE {}
    /\ wpc # "idle" => poll.id = used.polls /\ poll.id \in Ids
    /\ wpc \in Identified => poll.account \in Accounts
    /\ wpc \in Owning => /\ poll.payload \in Accounts
                         /\ poll.format \in Formats
                         /\ poll.minute \in Minutes
    /\ wpc \in Unsaved => /\ Len(journal) < used.polls
                          /\ \A s \in DOMAIN journal : journal[s].id < poll.id
    /\ wpc \in {"recheck", "verify"} => \E s \in DOMAIN journal : journal[s].id = poll.id
    /\ \A s \in DOMAIN journal : journal[s].id <= used.polls

\* What a cursor with the given applied receipts guarantees for account a.
Covers(a, c, applied) ==
    /\ c.sequence <= Len(journal)
    /\ \A s \in DOMAIN journal :
         journal[s].scope = a /\ s <= c.sequence =>
            \/ journal[s].id \in c.verifying
            \/ journal[s].verified /\ (Interpretable(s) => s \in applied)
            \/ ~journal[s].verified /\ journal[s].id \notin active

VerifiedRowsOf(a) ==
    {s \in DOMAIN journal : journal[s].verified /\ journal[s].scope = a}

\* A batch in flight stays good until its commit, whatever the worker does.
BatchInv(a) ==
    /\ batch[a].receipts \subseteq batch[a].inputs
    /\ batch[a].inputs \subseteq VerifiedRowsOf(a)
    /\ Covers(a, batch[a].next, receipts[a] \cup batch[a].receipts)
    /\ batch[a].phase = "staged" => \A s \in batch[a].inputs : staged[a][s] # "none"

ReplayInv ==
    /\ \A a \in Accounts :
         /\ receipts[a] \subseteq VerifiedRowsOf(a)
         /\ \A s \in receipts[a] : staged[a][s] # "none"
         /\ Covers(a, cursor[a], receipts[a])
         /\ BatchInv(a)
    /\ proc = "down" => /\ wpc = "idle"
                        /\ cursor = [a \in Accounts |-> NewCursor]
                        /\ batch = [a \in Accounts |-> NoBatch]

\* The replay is sound in every reachable state: the three parts together are
\* preserved by every step of every thread, which none of them is alone.
IndInv == TypeOK /\ WorkerInv /\ ReplayInv

-----------------------------------------------------------------------------
(* The strengthening behind NeverOptimistic and AdmittedAttribution.        *)

\* What the latest settled row of a cursor says about the rows it passed.
Tracks(a, c) ==
    /\ c.latest.sequence = 0 => ~c.latest.failed
    /\ \A s \in DOMAIN journal :
         /\ journal[s].scope = a
         /\ s <= c.sequence
         /\ journal[s].id \notin c.verifying
         => /\ s <= c.latest.sequence
            /\ s = c.latest.sequence =>
                 c.latest.failed = ~(journal[s].verified /\ Interpretable(s))

\* A cursor that was read carries its latest row until the commit, which
\* makes the stored input health agree with it.
HealthInv ==
    \A a \in Accounts : /\ Tracks(a, cursor[a])
                        /\ Tracks(a, batch[a].next)
                        /\ cursor[a].latest.failed => input[a] = "failed"

Connected == {"account", "limits", "raw", "recheck"}

\* The identity window: as long as auth.json was not rewritten, everything the
\* poll has read belongs to the account it began with; one rewrite leaves
\* another account there; and the stored row is the one the poll holds.
WindowInv ==
    /\ wpc \in IdentityWindow => /\ poll.drift = 0 => auth = poll.before
                                 /\ poll.drift = 1 => auth # poll.before
    /\ wpc = "verify" => poll.drift # 1
    /\ poll.drift = 0 =>
         /\ wpc \in Connected \cup {"connect", "verify"} => poll.scope \in {NoScope, poll.before}
         /\ wpc \in Connected => server = poll.before
         /\ wpc \in Identified => poll.account = poll.before
         /\ wpc \in Owning => poll.payload = poll.before
    /\ wpc \in {"recheck", "verify"} =>
         \A s \in DOMAIN journal : journal[s].id = poll.id =>
            /\ journal[s].scope = poll.scope
            /\ journal[s].plan = poll.account
            /\ journal[s].payload = poll.payload

\* Everything above together, which every step preserves.
LaneInv ==
    /\ IndInv
    /\ ProjectionLatest
    /\ HealthInv
    /\ WindowInv /\ AdmittedAttribution

=============================================================================
