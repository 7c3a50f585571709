----------------------- MODULE QuotaLaneHealthProofs -----------------------
(***************************************************************************)
(* Proofs about what the quota lane lets a reader see: the receipt each    *)
(* history minute shows, the stored input health, and the account that a   *)
(* verified response is attributed to.  They build on QuotaLaneProofs: the *)
(* soundness of the replay (IndInv) is what makes a settled row final.     *)
(***************************************************************************)
EXTENDS QuotaLaneProofs

-----------------------------------------------------------------------------
(* What a step may do to the journal and to the databases.                  *)

\* Only the worker's two saves write the journal.
LEMMA JournalWriters ==
    ASSUME [Next]_vars
    PROVE  UNCHANGED journal \/ SaveRaw \/ SaveVerified
<1>1. CASE WorkerStep
  BY <1>1 DEF WorkerStep, ReadScope, Connect, AccountRead, RateLimits, RequestFails, SaveFails,
     Recheck, Notify
<1>2. CASE MainStep
  BY <1>2 DEF MainStep, OpenRecorder, CycleBegin, MainRead, MainStage, MainCommit, MainReplayFails,
     MainReplayRefused, MainHealth, MainAcknowledge, MainDrain, MainSession, MainEvent, MainSync,
     ReplayRead, ReplayStage, ReplayCommit, ReplayFails
<1>3. ASSUME NEW a \in Accounts, InactiveStep(a) PROVE UNCHANGED journal
  BY <1>3 DEF InactiveStep, InactiveRead, InactiveStage, InactiveCommit, InactiveGivesUp,
     ReplayRead, ReplayStage, ReplayCommit, ReplayFails
<1>4. CASE \/ \E x \in Accounts \cup {LoggedOut} : Login(x)
           \/ ServerReload \/ PollBegin \/ ThreadBoundary \/ InactiveOpen \/ Terminate
           \/ Exited \/ Crash \/ Start \/ UNCHANGED vars
  BY <1>4 DEF Login, ServerReload, PollBegin, ThreadBoundary, InactiveOpen, Terminate, Exited,
     Crash, Vanish, Start, vars
<1> QED BY <1>1, <1>2, <1>3, <1>4 DEF Next

\* Rows never leave the journal and never change their minute.
RowsStay == \A s \in DOMAIN journal : s \in DOMAIN journal' /\ journal'[s].minute = journal[s].minute

\* Every step keeps the rows and their minutes.
LEMMA RowsAreKept == IndInv /\ [Next]_vars => RowsStay
<1> SUFFICES ASSUME TypeOK, WorkerInv, [Next]_vars PROVE RowsStay
  BY DEF IndInv
<1>1. CASE UNCHANGED journal
  BY <1>1 DEF RowsStay
<1>2. CASE SaveEffect
  <2>1. DOMAIN journal \subseteq DOMAIN journal'
    BY <1>2 DEF SaveEffect, TypeOK
  <2> QED BY <1>2, <2>1 DEF SaveEffect, RowsStay
<1>3. CASE SaveRaw
  BY <1>2, <1>3, SaveRawEffect DEF SaveRaw
<1>4. CASE SaveVerified
  BY <1>2, <1>4, SaveVerifiedEffect DEF SaveVerified
<1> QED BY <1>1, <1>3, <1>4, JournalWriters

\* Only the commit of a replay changes receipts and projections.
LEMMA DatabaseWriters ==
    ASSUME [Next]_vars, owner \in Accounts
    PROVE  UNCHANGED <<receipts, projected>> \/ \E a \in Accounts : ReplayCommit(a)
<1>1. CASE WorkerStep
  BY <1>1 DEF WorkerStep, ReadScope, Connect, AccountRead, RateLimits, RequestFails, SaveFails,
     SaveRaw, SaveVerified, Recheck, Notify, database
<1>2. CASE MainStep
  BY <1>2 DEF MainStep, OpenRecorder, CycleBegin, MainRead, MainStage, MainCommit, MainReplayFails,
     MainReplayRefused, MainHealth, MainAcknowledge, MainDrain, MainSession, MainEvent, MainSync,
     ReplayRead, ReplayStage, ReplayFails, SyncPollHealth, database
<1>3. ASSUME NEW a \in Accounts, InactiveStep(a)
      PROVE  UNCHANGED <<receipts, projected>> \/ ReplayCommit(a)
  BY <1>3 DEF InactiveStep, InactiveRead, InactiveStage, InactiveCommit, InactiveGivesUp,
     ReplayRead, ReplayStage, ReplayFails, database
<1>4. CASE \/ \E x \in Accounts \cup {LoggedOut} : Login(x)
           \/ ServerReload \/ PollBegin \/ ThreadBoundary \/ InactiveOpen \/ Terminate
           \/ Exited \/ Crash \/ Start \/ UNCHANGED vars
  BY <1>4 DEF Login, ServerReload, PollBegin, ThreadBoundary, InactiveOpen, Terminate, Exited,
     Crash, Vanish, Start, vars, database
<1> QED BY <1>1, <1>2, <1>3, <1>4 DEF Next

-----------------------------------------------------------------------------
(* The projection of a history minute.                                      *)

\* What a minute shows for a set of accepted receipts.
Shown(set, m) == LET at == AtMinute(set, m) IN IF at = {} THEN 0 ELSE Maximum(at)

\* One step keeps ProjectionLatest: receipts that are already there keep their
\* minute, and a commit projects again exactly the minutes it adds to.
LEMMA ProjectionStep == IndInv /\ ProjectionLatest /\ [Next]_vars => ProjectionLatest'
<1> SUFFICES ASSUME IndInv, ProjectionLatest, [Next]_vars,
                    NEW a \in Accounts, NEW m \in Minutes
             PROVE  projected'[a][m] = Shown(receipts[a], m)'
  BY DEF ProjectionLatest, Shown
<1>1. /\ projected[a][m] = Shown(receipts[a], m)
      /\ receipts[a] \subseteq DOMAIN journal
      /\ receipts \in [Accounts -> SUBSET Ids]
      /\ projected \in [Accounts -> [Minutes -> Nat]]
      /\ owner \in Accounts
  BY DEF ProjectionLatest, Shown, IndInv, TypeOK, ReplayInv, VerifiedRowsOf
<1>2. CASE UNCHANGED <<receipts, projected>>
  <2>1. AtMinute(receipts[a], m)' = AtMinute(receipts[a], m)
    BY <1>1, <1>2, RowsAreKept DEF RowsStay, AtMinute
  <2> QED BY <1>1, <1>2, <2>1 DEF Shown
<1>3. ASSUME NEW b \in Accounts, ReplayCommit(b) PROVE projected'[a][m] = Shown(receipts[a], m)'
  <2> DEFINE new == batch[b].receipts \ receipts[b]
             accepted == receipts[b] \cup batch[b].receipts
  <2>1. /\ receipts' = [receipts EXCEPT ![b] = accepted]
        /\ projected' = [projected EXCEPT ![b] = Project(b, accepted, new)]
        /\ UNCHANGED journal
    BY <1>3 DEF ReplayCommit
  <2>2. CASE a # b
    <3>1. receipts'[a] = receipts[a] /\ projected'[a] = projected[a]
      BY <1>1, <2>1, <2>2
    <3> QED BY <1>1, <2>1, <3>1 DEF Shown, AtMinute
  <2>3. CASE a = b
    <3>1. receipts'[a] = accepted /\ projected'[a] = Project(a, accepted, new)
      BY <1>1, <2>1, <2>3
    <3>2. Shown(receipts[a], m)' = Shown(accepted, m)
      BY <2>1, <3>1 DEF Shown, AtMinute
    <3>3. CASE AtMinute(new, m) # {}
      <4>1. AtMinute(accepted, m) # {}
        BY <3>3 DEF AtMinute
      <4> QED BY <3>1, <3>2, <3>3, <4>1 DEF Project, Shown
    <3>4. CASE AtMinute(new, m) = {}
      <4>1. AtMinute(accepted, m) = AtMinute(receipts[a], m)
        BY <2>3, <3>4 DEF AtMinute
      <4> QED BY <1>1, <3>1, <3>2, <3>4, <4>1 DEF Project, Shown
    <3> QED BY <3>3, <3>4
  <2> QED BY <2>2, <2>3
<1> QED BY <1>1, <1>2, <1>3, DatabaseWriters

-----------------------------------------------------------------------------
(* The input health and the latest settled row.                             *)

\* Every step but a start, which comes with fresh cursors, is a JournalStep.
LEMMA JournalSteps == IndInv /\ [Next]_vars => JournalStep \/ Start
<1> SUFFICES ASSUME TypeOK, WorkerInv, [Next]_vars PROVE JournalStep \/ Start
  BY DEF IndInv
<1>1. CASE UNCHANGED <<journal, knows, active>>
  BY <1>1, QuietStep
<1>2. CASE UNCHANGED <<journal, knows>> /\ active' \subseteq active
  BY <1>2, QuietStep
<1>3. CASE WorkerStep
  <2>1. CASE ReadScope \/ AccountRead \/ SaveFails \/ Notify
    BY <1>1, <2>1 DEF ReadScope, AccountRead, SaveFails, Notify, process
  <2>2. CASE Connect \/ RequestFails \/ Recheck
    BY <1>2, <2>2 DEF Connect, RequestFails, Recheck, Abandon, process
  <2>3. CASE RateLimits
    <3>1. \A s \in DOMAIN journal : journal[s].id # poll.id
      <4>1. wpc = "limits" /\ poll.id \in Nat
        BY <2>3 DEF RateLimits, WorkerInv, Ids
      <4> QED BY <4>1, TypeFacts DEF WorkerInv, Unsaved
    <3> QED BY <2>3, <3>1, QuietStep DEF RateLimits, process
  <2>4. CASE SaveRaw
    <3>1. SaveEffect /\ active = {poll.id} /\ UNCHANGED <<active, knows>>
      BY <2>4, SaveRawEffect DEF SaveRaw, WorkerInv, Owning, process
    <3> QED BY <3>1 DEF SaveEffect, JournalStep, TypeOK
  <2>5. CASE SaveVerified
    <3>1. SaveEffect /\ active = {poll.id} /\ active' \subseteq active /\ UNCHANGED knows
      BY <2>5, SaveVerifiedEffect DEF SaveVerified, WorkerInv, Owning, process
    <3> QED BY <3>1 DEF SaveEffect, JournalStep, TypeOK
  <2> QED BY <1>3, <2>1, <2>2, <2>3, <2>4, <2>5 DEF WorkerStep
<1>4. CASE MainStep
  <2>1. CASE MainRead \/ MainStage \/ MainCommit \/ MainReplayFails
    BY <1>1, <2>1 DEF MainRead, MainStage, MainCommit, MainReplayFails, ReplayRead, ReplayStage,
       ReplayCommit, ReplayFails, process, worker
  <2>2. CASE OpenRecorder \/ CycleBegin \/ MainReplayRefused \/ MainAcknowledge
    BY <1>1, <2>2 DEF OpenRecorder, CycleBegin, MainReplayRefused, MainAcknowledge, Exit, process, worker
  <2>3. CASE MainHealth \/ MainDrain \/ MainSession
    BY <1>1, <2>3 DEF MainHealth, MainDrain, MainSession, Exit, process, worker
  <2>4. CASE MainEvent
    BY <1>1, <2>4 DEF MainEvent, Exit, process, worker
  <2>5. CASE MainSync
    BY <1>1, <2>5 DEF MainSync, Exit, process, worker
  <2> QED BY <1>4, <2>1, <2>2, <2>3, <2>4, <2>5 DEF MainStep
<1>5. ASSUME NEW a \in Accounts, InactiveStep(a) PROVE JournalStep
  <2>1. UNCHANGED <<journal, process, worker>>
    BY <1>5 DEF InactiveStep, InactiveRead, InactiveStage, InactiveCommit, InactiveGivesUp,
       ReplayRead, ReplayStage, ReplayCommit, ReplayFails
  <2> QED BY <2>1, QuietStep DEF process, worker
<1>6. CASE \/ \E x \in Accounts \cup {LoggedOut} : Login(x)
           \/ ServerReload \/ PollBegin \/ ThreadBoundary \/ InactiveOpen \/ Terminate
           \/ UNCHANGED vars
  BY <1>1, <1>6 DEF Login, ServerReload, PollBegin, ThreadBoundary, InactiveOpen, Terminate, Exit,
     vars, process, worker
<1>7. CASE Exited \/ Crash
  BY <1>2, <1>7 DEF Exited, Crash, Vanish
<1> QED BY <1>3, <1>4, <1>5, <1>6, <1>7 DEF Next

\* Outside a commit, a failed input health stays failed.
InputStays == \A a \in Accounts : input[a] = "failed" => input'[a] = "failed"

\* The steps that neither read nor commit a replay and keep the process.
CursorsStay ==
    /\ InputStays
    /\ UNCHANGED cursor
    /\ \A a \in Accounts : batch'[a].next \in {batch[a].next, NewCursor}

\* Cursors and batches of a process that has just started or is gone.
CursorsFresh ==
    /\ InputStays
    /\ cursor' = [a \in Accounts |-> NewCursor]
    /\ batch' = [a \in Accounts |-> NoBatch]

\* What a step may do to cursors, batches and the input health.
LEMMA HealthWriters == IndInv /\ [Next]_vars =>
    \/ CursorsStay /\ ~Start
    \/ CursorsFresh
    \/ \E a \in Accounts : (ReplayRead(a) \/ ReplayCommit(a)) /\ ~Start
<1> SUFFICES ASSUME TypeOK, ReplayInv, [Next]_vars
             PROVE  \/ CursorsStay /\ ~Start
                    \/ CursorsFresh
                    \/ \E a \in Accounts : (ReplayRead(a) \/ ReplayCommit(a)) /\ ~Start
  BY DEF IndInv
<1> USE DEF CursorsStay, CursorsFresh, InputStays
<1>1. CASE Start
  <2>1. UNCHANGED <<cursor, batch, input>> /\ proc = "down"
    BY <1>1 DEF Start, replay, database
  <2> QED BY <2>1 DEF ReplayInv
<1>2. CASE Exited \/ Crash
  BY <1>2 DEF Exited, Crash, Vanish, database
<1>3. ASSUME ~Start, UNCHANGED <<cursor, batch, input>> PROVE CursorsStay
  BY <1>3
<1>4. ASSUME ~Start, NEW a \in Accounts, batch' = [batch EXCEPT ![a] = NoBatch], UNCHANGED <<cursor, input>>
      PROVE  CursorsStay
  BY <1>4 DEF NoBatch, TypeOK
<1>5. ASSUME ~Start, NEW a \in Accounts, ReplayStage(a) PROVE CursorsStay
  <2>1. /\ batch' = [batch EXCEPT ![a] = [batch[a] EXCEPT !.phase = "staged"]]
        /\ UNCHANGED <<cursor, input>>
    BY <1>5 DEF ReplayStage
  <2>2. ASSUME NEW x \in Accounts PROVE batch'[x].next = batch[x].next
    <3>1. batch[x] \in BatchType
      BY DEF TypeOK
    <3> QED BY <2>1, <3>1 DEF BatchType, TypeOK
  <2> QED BY <2>1, <2>2
<1>6. ASSUME ~Start, NEW h, SyncPollHealth(h), UNCHANGED replay PROVE CursorsStay
  BY <1>6 DEF SyncPollHealth, SetDegraded, replay, TypeOK
<1>7. ASSUME ~Start, MarkInputDegraded, UNCHANGED replay PROVE CursorsStay
  BY <1>7 DEF MarkInputDegraded, replay, TypeOK
<1>8. CASE ~Start /\ WorkerStep
  BY <1>3, <1>8 DEF WorkerStep, ReadScope, Connect, AccountRead, RateLimits, RequestFails, SaveFails,
     SaveRaw, SaveVerified, Recheck, Notify, replay, database
<1>9. CASE ~Start /\ MainStep
  <2>1. owner \in Accounts
    BY DEF TypeOK
  <2>2. CASE MainRead \/ MainCommit
    BY <1>9, <2>1, <2>2 DEF MainRead, MainCommit
  <2>3. CASE MainStage
    BY <1>5, <1>9, <2>1, <2>3 DEF MainStage
  <2>4. CASE MainReplayFails
    BY <1>4, <1>9, <2>1, <2>4 DEF MainReplayFails, ReplayFails, database
  <2>5. CASE MainHealth
    BY <1>6, <1>9, <2>5 DEF MainHealth
  <2>6. CASE MainSync
    BY <1>3, <1>6, <1>9, <2>6 DEF MainSync, replay, database
  <2>7. CASE MainEvent
    BY <1>3, <1>7, <1>9, <2>7 DEF MainEvent, replay, database
  <2>8. CASE OpenRecorder \/ CycleBegin \/ MainReplayRefused \/ MainAcknowledge \/ MainDrain \/ MainSession
    BY <1>3, <1>9, <2>8 DEF OpenRecorder, CycleBegin, MainReplayRefused, MainAcknowledge, MainDrain,
       MainSession, replay, database
  <2> QED BY <1>9, <2>2, <2>3, <2>4, <2>5, <2>6, <2>7, <2>8 DEF MainStep
<1>10. ASSUME ~Start, NEW a \in Accounts, InactiveStep(a)
       PROVE  CursorsStay \/ ReplayRead(a) \/ ReplayCommit(a)
  BY <1>4, <1>5, <1>10 DEF InactiveStep, InactiveRead, InactiveStage, InactiveCommit,
     InactiveGivesUp, ReplayFails, database
<1>11. CASE /\ ~Start
            /\ \/ \E x \in Accounts \cup {LoggedOut} : Login(x)
               \/ ServerReload \/ PollBegin \/ ThreadBoundary \/ InactiveOpen \/ Terminate
               \/ UNCHANGED vars
  BY <1>3, <1>11 DEF Login, ServerReload, PollBegin, ThreadBoundary, InactiveOpen, Terminate, vars,
     replay, database
<1> QED BY <1>1, <1>2, <1>8, <1>9, <1>10, <1>11 DEF Next

\* Tracks in the next state, for a cursor that is given.
StillTracks(a, c) ==
    /\ c.latest.sequence = 0 => ~c.latest.failed
    /\ \A s \in DOMAIN journal' :
         /\ journal'[s].scope = a
         /\ s <= c.sequence
         /\ journal'[s].id \notin c.verifying
         => /\ s <= c.latest.sequence
            /\ s = c.latest.sequence =>
                 c.latest.failed = ~(journal'[s].verified /\ journal'[s].format \in knows')

\* A row that a sound cursor has passed and does not await is final, so the
\* worker cannot change what the latest row says.
LEMMA TracksFrame ==
    ASSUME JournalStep, NEW a, NEW c, NEW applied,
           c.sequence \in Nat, Covers(a, c, applied), Tracks(a, c)
    PROVE  StillTracks(a, c)
<1>1. \A s \in DOMAIN journal' : s <= c.sequence => s \in DOMAIN journal
  BY DEF Covers, JournalStep
<1>2. ASSUME NEW s \in DOMAIN journal, journal[s].scope = a, s <= c.sequence,
             journal[s].id \notin c.verifying
      PROVE  journal'[s].verified <=> journal[s].verified
  BY <1>2 DEF Covers, JournalStep
<1> QED BY <1>1, <1>2 DEF Tracks, StillTracks, JournalStep, Interpretable

\* A new cursor has passed nothing.
LEMMA NewTracks ==
    ASSUME TypeOK', NEW a
    PROVE  StillTracks(a, NewCursor)
<1>1. DOMAIN journal' = 1..Len(journal') /\ Len(journal') \in Nat
  BY DEF TypeOK
<1> QED BY <1>1 DEF StillTracks, NewCursor

\* read_since: the new cursor's latest row is the last settled one.
LEMMA ReadSinceTracks ==
    ASSUME TypeOK, ReplayInv, NEW a \in Accounts, Tracks(a, cursor[a])
    PROVE  Tracks(a, ReadSince(a).next)
<1> DEFINE c == cursor[a]
           rows == RowsToRead(a, c)
           settled == {s \in rows : Settled(s)}
           last == Maximum(settled)
           next == NextCursor(c, rows)
<1>1. ReadSince(a).next = next
  BY DEF ReadSince
<1>2. /\ c.sequence \in Nat /\ c.latest.sequence \in Nat
      /\ DOMAIN journal = 1..Len(journal) /\ Len(journal) \in Nat
      /\ rows \subseteq 1..Len(journal)
  BY TypeFacts DEF TypeOK, CursorType, LatestType, RowsToRead
<1>3. /\ next.latest = LatestSettled(c, rows)
      /\ next.verifying = (c.verifying \ {journal[r].id : r \in rows})
                            \cup {journal[r].id : r \in {r \in rows : ~Settled(r)}}
  BY DEF NextCursor
<1>4. ASSUME NEW s \in DOMAIN journal, journal[s].scope = a, s \notin rows
      PROVE  s <= c.sequence /\ journal[s].id \notin c.verifying
  BY <1>2, <1>4 DEF RowsToRead
<1>5. ASSUME NEW s \in rows, journal[s].id \notin next.verifying PROVE s \in settled
  BY <1>3, <1>5
<1>6. settled # {} => /\ last \in settled /\ last \in Nat /\ last # 0
                      /\ \A s \in settled : s <= last
  <2>1. settled \subseteq 0..Len(journal) /\ settled \subseteq 1..Len(journal)
    BY <1>2
  <2> HIDE DEF settled
  <2>2. settled # {} => last \in settled /\ \A s \in settled : s <= last
    BY <1>2, <2>1, MaximumExists
  <2>3. last \in settled => last \in 1..Len(journal)
    BY <2>1
  <2> HIDE DEF last
  <2>4. last \in 1..Len(journal) => last \in Nat /\ last # 0
    BY <1>2
  <2> QED BY <2>2, <2>3, <2>4
<1>7. ASSUME NEW s \in DOMAIN journal, journal[s].scope = a, s \notin rows
      PROVE  /\ s <= c.latest.sequence
             /\ s = c.latest.sequence =>
                  c.latest.failed = ~(journal[s].verified /\ Interpretable(s))
  BY <1>4, <1>7 DEF Tracks
<1>8. CASE settled = {} \/ last < c.latest.sequence
  <2>1. next.latest = c.latest
    BY <1>3, <1>8 DEF LatestSettled
  <2>2. ASSUME NEW s \in settled PROVE s < c.latest.sequence
    <3>1. s \in Nat /\ s <= last /\ last \in Nat /\ last < c.latest.sequence
      BY <1>2, <1>6, <1>8, <2>2
    <3> HIDE DEF last, c
    <3> QED BY <1>2, <3>1
  <2>3. c.latest.sequence = 0 => ~c.latest.failed
    BY DEF Tracks
  <2>4. ASSUME NEW s \in DOMAIN journal, journal[s].scope = a, journal[s].id \notin next.verifying
        PROVE  /\ s <= c.latest.sequence
               /\ s = c.latest.sequence =>
                    c.latest.failed = ~(journal[s].verified /\ Interpretable(s))
    <3>1. CASE s \in rows
      <4>1. s < c.latest.sequence /\ s \in Nat
        BY <1>2, <1>5, <2>2, <2>4, <3>1
      <4> QED BY <1>2, <4>1
    <3>2. CASE s \notin rows
      BY <1>7, <2>4, <3>2
    <3> QED BY <3>1, <3>2
  <2> HIDE DEF settled, rows, c, next, last
  <2> QED BY <1>1, <2>1, <2>3, <2>4 DEF Tracks
<1>9. CASE ~(settled = {} \/ last < c.latest.sequence)
  <2>1. /\ next.latest.sequence = last
        /\ next.latest.failed = ~(journal[last].verified /\ Interpretable(last))
    BY <1>3, <1>9 DEF LatestSettled
  <2>2. last \in rows /\ c.latest.sequence <= last /\ last # 0
    BY <1>2, <1>6, <1>9
  <2>3. \A s \in settled : s <= last
    BY <1>6, <1>9
  <2>4. ASSUME NEW s \in DOMAIN journal, journal[s].scope = a, journal[s].id \notin next.verifying
        PROVE  s <= last
    <3>1. CASE s \in rows
      BY <1>5, <2>3, <2>4, <3>1
    <3>2. CASE s \notin rows
      <4>1. s <= c.latest.sequence /\ s \in Nat /\ last \in Nat
        BY <1>2, <1>6, <1>7, <1>9, <2>4, <3>2
      <4> HIDE DEF last, c
      <4> QED BY <1>2, <2>2, <4>1
    <3> QED BY <3>1, <3>2
  <2> HIDE DEF settled, rows, c, next, last
  <2> QED BY <1>1, <2>1, <2>2, <2>4 DEF Tracks
<1> QED BY <1>8, <1>9

\* One step keeps the latest settled row of every cursor and the stored input
\* health in agreement.
LEMMA HealthStep == IndInv /\ HealthInv /\ [Next]_vars => HealthInv'
<1> SUFFICES ASSUME IndInv, HealthInv, [Next]_vars, NEW x \in Accounts
             PROVE  /\ StillTracks(x, cursor'[x]) /\ StillTracks(x, batch'[x].next)
                    /\ cursor'[x].latest.failed => input'[x] = "failed"
  BY DEF HealthInv, Tracks, StillTracks, Interpretable
<1>1. /\ TypeOK /\ WorkerInv /\ ReplayInv /\ TypeOK'
      /\ Tracks(x, cursor[x]) /\ Tracks(x, batch[x].next)
      /\ cursor[x].latest.failed => input[x] = "failed"
  BY TypeStep DEF IndInv, HealthInv
<1>2. /\ cursor \in [Accounts -> CursorType] /\ batch \in [Accounts -> BatchType]
      /\ input \in [Accounts -> {"absent", "ok", "failed"}]
  BY <1>1 DEF TypeOK
<1>3. JournalStep \/ Start
  BY JournalSteps
<1>4. /\ cursor[x].sequence \in Nat /\ batch[x].next.sequence \in Nat
      /\ Covers(x, cursor[x], receipts[x])
      /\ Covers(x, batch[x].next, receipts[x] \cup batch[x].receipts)
  BY <1>1, <1>2 DEF CursorType, BatchType, ReplayInv, BatchInv
<1>5. JournalStep => StillTracks(x, cursor[x]) /\ StillTracks(x, batch[x].next)
  BY <1>1, <1>4, TracksFrame
<1>6. StillTracks(x, NewCursor) /\ ~NewCursor.latest.failed
  BY <1>1, NewTracks DEF NewCursor
<1>7. CASE CursorsStay /\ ~Start
  BY <1>1, <1>3, <1>5, <1>6, <1>7 DEF CursorsStay, InputStays
<1>8. CASE CursorsFresh
  BY <1>6, <1>8 DEF CursorsFresh, NoBatch
<1>9. ASSUME NEW a \in Accounts, ReplayRead(a), ~Start
      PROVE  /\ StillTracks(x, cursor'[x]) /\ StillTracks(x, batch'[x].next)
             /\ cursor'[x].latest.failed => input'[x] = "failed"
  <2>1. /\ batch' = [batch EXCEPT ![a] = ReadSince(a)]
        /\ UNCHANGED <<journal, knows, cursor, input>>
    BY <1>9 DEF ReplayRead, process, database
  <2>2. a = x => Tracks(x, ReadSince(a).next)
    BY <1>1, ReadSinceTracks
  <2>3. a = x => StillTracks(x, ReadSince(a).next)
    BY <2>1, <2>2 DEF Tracks, StillTracks, Interpretable
  <2>4. batch'[x] = IF x = a THEN ReadSince(a) ELSE batch[x]
    BY <1>2, <2>1
  <2> QED BY <1>1, <1>3, <1>5, <1>9, <2>1, <2>3, <2>4
<1>10. ASSUME NEW a \in Accounts, ReplayCommit(a), ~Start
       PROVE  /\ StillTracks(x, cursor'[x]) /\ StillTracks(x, batch'[x].next)
              /\ cursor'[x].latest.failed => input'[x] = "failed"
  <2> DEFINE latest == batch[a].next.latest
             health == IF latest.sequence = 0 THEN input[a] ELSE InputHealth(latest.failed)
  <2>1. /\ batch' = [batch EXCEPT ![a] = NoBatch]
        /\ cursor' = [cursor EXCEPT ![a] = batch[a].next]
        /\ input' = [input EXCEPT ![a] = health]
    BY <1>10 DEF ReplayCommit
  <2>2. CASE a # x
    <3>1. batch'[x] = batch[x] /\ cursor'[x] = cursor[x] /\ input'[x] = input[x]
      BY <1>2, <2>1, <2>2
    <3> QED BY <1>1, <1>3, <1>5, <1>10, <3>1
  <2>3. CASE a = x
    <3>1. batch'[x] = NoBatch /\ cursor'[x] = batch[x].next /\ input'[x] = health
      BY <1>2, <2>1, <2>3
    <3>2. latest.failed => health = "failed"
      BY <1>1, <2>3 DEF Tracks, InputHealth
    <3> QED BY <1>3, <1>5, <1>6, <1>10, <2>3, <3>1, <3>2 DEF NoBatch
  <2> QED BY <2>2, <2>3
<1> QED BY <1>7, <1>8, <1>9, <1>10, HealthWriters

-----------------------------------------------------------------------------
(* The identity window.                                                     *)

\* The first save stores what the poll holds, unverified, under a new id.
LEMMA RawRow ==
    ASSUME TypeOK, WorkerInv, wpc = "raw", Save(FALSE)
    PROVE  /\ DOMAIN journal' = 1..(Len(journal) + 1)
           /\ \A s \in DOMAIN journal : journal'[s] = journal[s] /\ journal[s].id # poll.id
           /\ journal'[Len(journal) + 1] = Row(FALSE)
<1> DEFINE row == Row(FALSE)
<1>1. row \in RowType
  BY DEF TypeOK, WorkerInv, Owning, Identified, PollType, RowType, Row
<1>2. \A s \in DOMAIN journal : journal[s].id # poll.id
  <2>1. poll.id \in Nat /\ \A s \in DOMAIN journal : journal[s].id < poll.id
    BY DEF WorkerInv, Unsaved, Ids
  <2> QED BY <2>1, TypeFacts
<1>3. journal' = Append(journal, row)
  BY <1>2 DEF Save
<1>4. journal \in Seq(RowType) /\ DOMAIN journal = 1..Len(journal) /\ Len(journal) \in Nat
  BY DEF TypeOK
<1> HIDE DEF row
<1>5. /\ Len(journal') = Len(journal) + 1 /\ journal' \in Seq(RowType)
      /\ \A s \in DOMAIN journal : journal'[s] = journal[s]
      /\ journal'[Len(journal) + 1] = row
  BY <1>1, <1>3, <1>4, AppendElements
<1> QED BY <1>2, <1>4, <1>5 DEF row

\* The second save raises account_verified of the poll's own row and takes
\* over how often the account changed; every other row stays.
LEMMA VerifiedRow ==
    ASSUME TypeOK, WorkerInv, wpc = "verify", Save(TRUE)
    PROVE  /\ DOMAIN journal' = DOMAIN journal
           /\ \A s \in DOMAIN journal :
                 /\ journal'[s].id = journal[s].id
                 /\ journal'[s].scope = journal[s].scope
                 /\ journal'[s].plan = journal[s].plan
                 /\ journal'[s].payload = journal[s].payload
                 /\ \/ journal'[s] = journal[s]
                    \/ /\ journal[s].id = poll.id /\ poll.scope # NoScope
                       /\ journal'[s].drift = poll.drift
<1> DEFINE stored == {s \in DOMAIN journal : journal[s].id = poll.id}
           rewritten(s) == IF s \in stored /\ poll.scope # NoScope /\ ~journal[s].verified
                             THEN [journal[s] EXCEPT !.verified = TRUE, !.drift = poll.drift]
                             ELSE journal[s]
<1>1. stored # {}
  BY DEF WorkerInv
<1>2. journal' = [s \in DOMAIN journal |-> rewritten(s)]
  BY <1>1 DEF Save
<1>3. ASSUME NEW s \in DOMAIN journal
      PROVE  /\ rewritten(s).id = journal[s].id
             /\ rewritten(s).scope = journal[s].scope
             /\ rewritten(s).plan = journal[s].plan
             /\ rewritten(s).payload = journal[s].payload
             /\ \/ rewritten(s) = journal[s]
                \/ /\ journal[s].id = poll.id /\ poll.scope # NoScope
                   /\ rewritten(s).drift = poll.drift
  <2>1. journal[s] \in RowType
    BY TypeFacts
  <2> QED BY <2>1 DEF RowType
<1> HIDE DEF rewritten
<1> QED BY <1>2, <1>3

\* What a step that touches neither the poll nor what it has seen preserves.
LEMMA WindowFrame ==
    ASSUME WindowInv, AdmittedAttribution, UNCHANGED <<auth, server, wpc, poll, journal>>
    PROVE  WindowInv' /\ AdmittedAttribution'
<1>1. WindowInv'
  BY DEF WindowInv
<1> QED BY <1>1 DEF AdmittedAttribution

\* A poll that is over, or has not begun, has no window.
LEMMA NoWindow ==
    ASSUME AdmittedAttribution, UNCHANGED journal, wpc' \in {"idle", "ready", "stored", "failed"}
    PROVE  WindowInv' /\ AdmittedAttribution'
<1>1. WindowInv'
  BY DEF WindowInv, IdentityWindow, Connected, Identified, Owning
<1> QED BY <1>1 DEF AdmittedAttribution

\* The steps that leave auth.json, app-server, poll and journal alone.
LEMMA Bystanders ==
    ASSUME [Next]_vars
    PROVE  \/ \E a \in Accounts \cup {LoggedOut} : Login(a)
           \/ ServerReload \/ PollBegin \/ WorkerStep \/ Exited \/ Crash
           \/ UNCHANGED <<auth, server, wpc, poll, journal>>
<1>1. CASE MainStep
  <2>1. CASE MainRead \/ MainStage \/ MainCommit \/ MainReplayFails
    BY <2>1 DEF MainRead, MainStage, MainCommit, MainReplayFails, ReplayRead, ReplayStage,
       ReplayCommit, ReplayFails, env, worker
  <2>2. CASE OpenRecorder \/ CycleBegin \/ MainReplayRefused \/ MainAcknowledge
    BY <2>2 DEF OpenRecorder, CycleBegin, MainReplayRefused, MainAcknowledge, env, worker
  <2>3. CASE MainHealth \/ MainDrain \/ MainSession \/ MainEvent \/ MainSync
    BY <2>3 DEF MainHealth, MainDrain, MainSession, MainEvent, MainSync, env, worker
  <2> QED BY <1>1, <2>1, <2>2, <2>3 DEF MainStep
<1>2. ASSUME NEW a \in Accounts, InactiveStep(a) PROVE UNCHANGED <<auth, server, wpc, poll, journal>>
  <2>1. UNCHANGED <<env, worker, journal>>
    BY <1>2 DEF InactiveStep, InactiveRead, InactiveStage, InactiveCommit, InactiveGivesUp,
       ReplayRead, ReplayStage, ReplayCommit, ReplayFails
  <2> QED BY <2>1 DEF env, worker
<1>3. CASE ThreadBoundary \/ InactiveOpen \/ Terminate \/ Start \/ UNCHANGED vars
  BY <1>3 DEF ThreadBoundary, InactiveOpen, Terminate, Start, vars, env, worker
<1> QED BY <1>1, <1>2, <1>3 DEF Next

\* One step of the worker keeps what the poll has read and what is stored in
\* agreement with the account the poll began with.
LEMMA WindowWorkerStep ==
    ASSUME IndInv, WindowInv, AdmittedAttribution, WorkerStep
    PROVE  WindowInv' /\ AdmittedAttribution'
<1> USE AccountsAssumption
<1>a. TypeOK /\ WorkerInv /\ poll \in PollType /\ poll.drift \in 0..2
  BY DEF IndInv, TypeOK, PollType
<1>1. CASE ReadScope
  <2>1. PICK scope \in {NoScope} \cup ({auth} \cap Accounts) : poll' = [poll EXCEPT !.scope = scope]
    BY <1>1 DEF ReadScope
  <2>2. /\ poll'.scope = scope /\ poll'.drift = poll.drift /\ poll'.before = poll.before
        /\ UNCHANGED <<auth, journal>> /\ wpc = "scope" /\ wpc' = "connect"
    BY <1>1, <1>a, <2>1 DEF ReadScope, PollType, env
  <2>3. WindowInv'
    BY <2>2 DEF WindowInv, IdentityWindow, Connected, Identified, Owning
  <2> QED BY <2>2, <2>3 DEF AdmittedAttribution
<1>2. CASE Connect
  <2>1. CASE wpc' = "account"
    <3>1. WindowInv'
      BY <1>2, <2>1 DEF Connect, Abandon, WindowInv, IdentityWindow, Connected, Identified, Owning
    <3> QED BY <1>2, <3>1 DEF Connect, AdmittedAttribution
  <2>2. CASE wpc' = "failed"
    BY <1>2, <2>2, NoWindow DEF Connect
  <2> QED BY <1>2, <2>1, <2>2 DEF Connect, Abandon
<1>3. CASE AccountRead
  <2>1. /\ poll'.scope = poll.scope /\ poll'.drift = poll.drift /\ poll'.before = poll.before
        /\ poll'.account = server
        /\ UNCHANGED <<auth, server, journal>> /\ wpc = "account" /\ wpc' = "limits"
    BY <1>3, <1>a DEF AccountRead, PollType, env
  <2>2. WindowInv'
    BY <2>1 DEF WindowInv, IdentityWindow, Connected, Identified, Owning
  <2> QED BY <2>1, <2>2 DEF AdmittedAttribution
<1>4. CASE RateLimits
  <2>1. PICK f \in Formats, m \in Minutes :
           poll' = [poll EXCEPT !.payload = server, !.format = f, !.minute = m]
    BY <1>4 DEF RateLimits
  <2>2. /\ poll'.scope = poll.scope /\ poll'.drift = poll.drift /\ poll'.before = poll.before
        /\ poll'.account = poll.account /\ poll'.payload = server
        /\ UNCHANGED <<auth, server, journal>> /\ wpc = "limits" /\ wpc' = "raw"
    BY <1>4, <1>a, <2>1 DEF RateLimits, PollType, env
  <2>3. WindowInv'
    BY <2>2 DEF WindowInv, IdentityWindow, Connected, Identified, Owning
  <2> QED BY <2>2, <2>3 DEF AdmittedAttribution
<1>5. CASE RequestFails
  BY <1>5, NoWindow DEF RequestFails, Abandon
<1>6. CASE SaveRaw
  <2>1. UNCHANGED <<auth, server, poll>> /\ wpc = "raw" /\ wpc' = "recheck" /\ Save(FALSE)
    BY <1>6 DEF SaveRaw, env
  <2>2. /\ DOMAIN journal' = 1..(Len(journal) + 1)
        /\ \A s \in DOMAIN journal : journal'[s] = journal[s] /\ journal[s].id # poll.id
        /\ journal'[Len(journal) + 1] = Row(FALSE)
        /\ DOMAIN journal = 1..Len(journal) /\ Len(journal) \in Nat
    BY <1>a, <2>1, RawRow, TypeFacts
  <2>3. ASSUME NEW s \in DOMAIN journal'
        PROVE  s \in DOMAIN journal \/ s = Len(journal) + 1
    BY <2>2
  <2>4. /\ Row(FALSE).verified = FALSE /\ Row(FALSE).scope = poll.scope
        /\ Row(FALSE).plan = poll.account /\ Row(FALSE).payload = poll.payload
    BY DEF Row
  <2>5. AdmittedAttribution'
    BY <2>2, <2>3, <2>4 DEF AdmittedAttribution
  <2>6. \A s \in DOMAIN journal' : journal'[s].id = poll'.id =>
            /\ journal'[s].scope = poll'.scope
            /\ journal'[s].plan = poll'.account
            /\ journal'[s].payload = poll'.payload
    BY <2>1, <2>2, <2>3, <2>4
  <2>7. WindowInv'
    BY <2>1, <2>6 DEF WindowInv, IdentityWindow, Connected, Identified, Owning
  <2> QED BY <2>5, <2>7
<1>7. CASE SaveFails
  BY <1>7, WindowFrame DEF SaveFails, env
<1>8. CASE Recheck
  <2>1. CASE wpc' = "verify"
    <3>1. /\ auth = poll.before /\ wpc = "recheck"
          /\ UNCHANGED <<auth, server, poll, journal>>
      BY <1>8, <2>1 DEF Recheck, Abandon, env
    <3>2. poll.drift # 1
      BY <3>1 DEF WindowInv, IdentityWindow
    <3>3. WindowInv'
      BY <2>1, <3>1, <3>2 DEF WindowInv, IdentityWindow, Connected, Identified, Owning
    <3> QED BY <3>1, <3>3 DEF AdmittedAttribution
  <2>2. CASE wpc' = "failed"
    BY <1>8, <2>2, NoWindow DEF Recheck
  <2> QED BY <1>8, <2>1, <2>2 DEF Recheck, Abandon
<1>9. CASE SaveVerified
  <2>1. wpc = "verify" /\ Save(TRUE) /\ wpc' \in {"ready", "stored"}
    BY <1>9 DEF SaveVerified
  <2>2. /\ DOMAIN journal' = DOMAIN journal
        /\ \A s \in DOMAIN journal :
              /\ journal'[s].id = journal[s].id
              /\ journal'[s].scope = journal[s].scope
              /\ journal'[s].plan = journal[s].plan
              /\ journal'[s].payload = journal[s].payload
              /\ \/ journal'[s] = journal[s]
                 \/ /\ journal[s].id = poll.id /\ poll.scope # NoScope
                    /\ journal'[s].drift = poll.drift
    BY <1>a, <2>1, VerifiedRow
  <2>3. /\ poll.drift # 1
        /\ poll.drift = 0 /\ poll.scope # NoScope =>
             poll.scope = poll.before /\ poll.account = poll.before /\ poll.payload = poll.before
    BY <2>1 DEF WindowInv, Identified, Owning
  <2>4. \A s \in DOMAIN journal : journal[s].id = poll.id =>
            /\ journal[s].scope = poll.scope
            /\ journal[s].plan = poll.account
            /\ journal[s].payload = poll.payload
    BY <2>1 DEF WindowInv
  <2>5. AdmittedAttribution'
    BY <2>2, <2>3, <2>4 DEF AdmittedAttribution
  <2>6. WindowInv'
    BY <2>1 DEF WindowInv, IdentityWindow, Connected, Identified, Owning
  <2> QED BY <2>5, <2>6
<1>10. CASE Notify
  BY <1>10, NoWindow DEF Notify
<1> QED BY <1>1, <1>2, <1>3, <1>4, <1>5, <1>6, <1>7, <1>8, <1>9, <1>10 DEF WorkerStep

\* One step keeps the identity window and the attribution of stored rows.
LEMMA WindowStep ==
    IndInv /\ WindowInv /\ AdmittedAttribution /\ [Next]_vars => WindowInv' /\ AdmittedAttribution'
<1> SUFFICES ASSUME IndInv, WindowInv, AdmittedAttribution, [Next]_vars
             PROVE  WindowInv' /\ AdmittedAttribution'
  OBVIOUS
<1>1. ASSUME NEW a \in Accounts \cup {LoggedOut}, Login(a) PROVE WindowInv' /\ AdmittedAttribution'
  <2> DEFINE d == IF wpc \in IdentityWindow /\ poll.drift < 2 THEN poll.drift + 1 ELSE poll.drift
  <2>1. poll \in PollType /\ poll.drift \in 0..2
    BY DEF IndInv, TypeOK, PollType
  <2>2. /\ poll' = [poll EXCEPT !.drift = d] /\ auth # auth' /\ UNCHANGED <<server, wpc, journal>>
    BY <1>1 DEF Login
  <2>3. /\ d \in 0..2
        /\ wpc \notin IdentityWindow => d = poll.drift
        /\ wpc \in IdentityWindow => d # 0 /\ (d = 1 => poll.drift = 0)
    BY <2>1
  <2> HIDE DEF d
  <2>4. /\ poll'.drift = d /\ poll'.before = poll.before /\ poll'.scope = poll.scope
        /\ poll'.account = poll.account /\ poll'.payload = poll.payload /\ poll'.id = poll.id
    BY <2>1, <2>2 DEF PollType
  <2>5. WindowInv'
    <3>1. CASE wpc \in IdentityWindow
      BY <2>2, <2>3, <2>4, <3>1 DEF WindowInv, IdentityWindow
    <3>2. CASE wpc \notin IdentityWindow
      BY <2>2, <2>3, <2>4, <3>2 DEF WindowInv, IdentityWindow, Connected
    <3> QED BY <3>1, <3>2
  <2> QED BY <2>2, <2>5 DEF AdmittedAttribution
<1>2. CASE ServerReload
  <2>1. /\ wpc \in {"account", "limits", "recheck"} /\ server' = auth
        /\ UNCHANGED <<auth, wpc, poll, journal>>
    BY <1>2 DEF ServerReload, worker
  <2>2. WindowInv'
    BY <2>1 DEF WindowInv, IdentityWindow
  <2> QED BY <2>1, <2>2 DEF AdmittedAttribution
<1>3. CASE PollBegin
  <2>1. CASE wpc' = "failed"
    BY <1>3, <2>1, NoWindow DEF PollBegin
  <2>2. CASE wpc' = "scope"
    <3>1. poll'.before = auth /\ poll'.drift = 0 /\ UNCHANGED <<auth, journal>>
      BY <1>3 DEF PollBegin, NoPoll, env
    <3>2. WindowInv'
      BY <2>2, <3>1 DEF WindowInv, IdentityWindow, Connected, Identified, Owning
    <3> QED BY <3>1, <3>2 DEF AdmittedAttribution
  <2> QED BY <1>3, <2>1, <2>2 DEF PollBegin
<1>4. CASE WorkerStep
  BY <1>4, WindowWorkerStep
<1>5. CASE Exited \/ Crash
  BY <1>5, NoWindow DEF Exited, Crash, Vanish
<1>6. CASE UNCHANGED <<auth, server, wpc, poll, journal>>
  BY <1>6, WindowFrame
<1> QED BY <1>1, <1>2, <1>3, <1>4, <1>5, <1>6, Bystanders

-----------------------------------------------------------------------------
(* The theorems.                                                            *)

\* The start satisfies the whole invariant.
LEMMA InitLaneInv == Init => LaneInv
<1> SUFFICES ASSUME Init PROVE LaneInv
  OBVIOUS
<1>1. ProjectionLatest
  BY DEF Init, ProjectionLatest, AtMinute
<1>2. HealthInv
  BY DEF Init, HealthInv, Tracks, NewCursor, NoBatch
<1>3. WindowInv /\ AdmittedAttribution
  BY DEF Init, WindowInv, AdmittedAttribution, IdentityWindow, Connected, Identified, Owning
<1> QED BY <1>1, <1>2, <1>3, InitIndInv DEF LaneInv

\* Replay, projection, input health and identity window stay sound together.
THEOREM LaneIsSound == Spec => []LaneInv
<1>1. LaneInv /\ [Next]_vars => LaneInv'
  BY TypeStep, ReplayStep, ProjectionStep, HealthStep, WindowStep DEF LaneInv, IndInv
<1> QED BY <1>1, InitLaneInv, PTL DEF Spec

\* A history minute shows the accepted receipt that was acquired last, in
\* whatever order and by whatever version the receipts were applied.
THEOREM MinutesShowTheLatest == Spec => []ProjectionLatest
<1>1. LaneInv => ProjectionLatest
  BY DEF LaneInv
<1> QED BY <1>1, LaneIsSound, PTL

\* The database never reports readable input while the newest settled row of
\* the account is unreadable, also when older rows settle after newer ones.
THEOREM HealthIsNeverOptimistic == Spec => []NeverOptimistic
<1>1. LaneInv => NeverOptimistic
  BY DEF LaneInv, HealthInv, Tracks, NeverOptimistic
<1> QED BY <1>1, LaneIsSound, PTL

\* A verified row did not see exactly one change of account, and without a
\* change its response and its plan belong to the account it is filed under.
THEOREM ResponsesBelongToTheirScope == Spec => []AdmittedAttribution
<1>1. LaneInv => AdmittedAttribution
  BY DEF LaneInv
<1> QED BY <1>1, LaneIsSound, PTL

=============================================================================
