-------------------------- MODULE QuotaLaneProofs --------------------------
(***************************************************************************)
(* Proofs about QuotaLane, for any set of accounts, any number of polls,   *)
(* kills, logins and storage faults.                                       *)
(*                                                                         *)
(* The argument: the worker owns one receipt at a time (WorkerInv), so a   *)
(* row whose owner is gone can never become verified; hence a cursor that  *)
(* remembers the rows it passed while they were owned misses nothing, and  *)
(* a batch read from it stays good until its commit (ReplayInv).           *)
(***************************************************************************)
EXTENDS QuotaLane, WellFoundedInduction, TLAPS

-----------------------------------------------------------------------------
(* Maximum is a maximum.                                                    *)

LessThan == {p \in Nat \X Nat : p[1] < p[2]}

\* The order on naturals, as a relation, has no infinite descent.
LEMMA LessThanWellFounded == IsWellFoundedOn(LessThan, Nat)
<1>1. OpToRel(<, Nat) = LessThan
  BY DEF OpToRel, LessThan
<1> QED BY <1>1, NatLessThanWellFounded

\* A nonempty set of journal sequences (bounded by n) has a maximum, so the
\* cursor position, the last settled row and a minute's projection exist.
LEMMA MaximumExists ==
    ASSUME NEW n \in Nat, NEW S, S \subseteq 0..n, S # {}
    PROVE  /\ Maximum(S) \in S
           /\ \A s \in S : s <= Maximum(S)
<1> DEFINE T == {k \in 0..n : n - k \in S}
<1>1. ASSUME NEW s \in S PROVE s \in 0..n /\ n - s \in T
  <2>1. s \in 0..n /\ n - s \in 0..n /\ n - (n - s) = s
    OBVIOUS
  <2> QED BY <2>1
<1>2. T \subseteq Nat
  OBVIOUS
<1>3. PICK x \in T : \A y \in T : ~(<<y, x>> \in LessThan)
  <2>1. T # {}
    <3> PICK s \in S : TRUE
      OBVIOUS
    <3> HIDE DEF T
    <3> QED BY <1>1
  <2> HIDE DEF T
  <2> QED BY <1>2, <2>1, LessThanWellFounded, WFMin
<1>4. \A y \in T : ~(y < x)
  BY <1>2, <1>3 DEF LessThan
<1>5. n - x \in S /\ x \in 0..n
  BY <1>3
<1>6. \A s \in S : s <= n - x
  BY <1>1, <1>4, <1>5
<1> QED BY <1>5, <1>6 DEF Maximum

-----------------------------------------------------------------------------
(* Types and ownership.                                                     *)

\* The values that stand for nothing are of the types of the variables.
LEMMA EmptyTypes ==
    /\ NewCursor \in CursorType
    /\ NoBatch \in BatchType
    /\ NoPoll \in PollType
    /\ NoEvent \in EventType
    /\ Failed \in EventType
<1>1. NewCursor \in CursorType
  BY DEF NewCursor, CursorType, LatestType
<1> QED BY <1>1 DEF NoBatch, BatchType, NoPoll, PollType, NoEvent, Failed, EventType,
                    Authorities, Scopes

\* What the types say about counters and journal.
LEMMA TypeFacts ==
    ASSUME TypeOK
    PROVE  /\ used \in UsedType
           /\ used.polls \in 0..MaxPolls /\ used.switches \in 0..MaxSwitches
           /\ used.stops \in 0..MaxStops /\ used.faults \in 0..MaxFaults
           /\ used.polls \in Nat /\ MaxPolls \in Nat
           /\ journal \in Seq(RowType) /\ Len(journal) \in Nat
           /\ DOMAIN journal = 1..Len(journal)
           /\ Len(journal) <= used.polls
           /\ \A s \in DOMAIN journal : journal[s] \in RowType
           /\ \A s \in DOMAIN journal : journal[s].id \in Nat
<1> USE BoundsAssumption
<1>1. used \in UsedType /\ journal \in Seq(RowType) /\ Len(journal) <= used.polls
  BY DEF TypeOK
<1>2. \A s \in DOMAIN journal : journal[s] \in RowType
  BY <1>1
<1> QED BY <1>1, <1>2 DEF UsedType, RowType, Ids

\* A kill or a requested stop only spends its bound.
LEMMA StopType ==
    ASSUME TypeOK, used.stops < MaxStops, used' = [used EXCEPT !.stops = @ + 1]
    PROVE  used' \in UsedType /\ used'.polls = used.polls
<1>1. used \in UsedType /\ used.stops + 1 \in 0..MaxStops
  BY TypeFacts, BoundsAssumption
<1> QED BY <1>1 DEF UsedType

\* A storage fault only spends its bound.
LEMMA FaultType ==
    ASSUME TypeOK, Fault
    PROVE  used' \in UsedType /\ used'.polls = used.polls
<1>1. used \in UsedType /\ used.faults < MaxFaults /\ used.faults + 1 \in 0..MaxFaults
  BY TypeFacts, BoundsAssumption DEF Fault
<1> QED BY <1>1 DEF Fault, UsedType

\* The start of the lane satisfies the inductive invariant.
LEMMA InitIndInv == Init => IndInv
<1> SUFFICES ASSUME Init PROVE IndInv
  OBVIOUS
<1> USE AccountsAssumption, VersionsAssumption, BoundsAssumption DEF Init
<1>5. TypeOK
  <2>1. journal \in Seq(RowType) /\ Len(journal) <= used.polls
    OBVIOUS
  <2>2. queue \in Seq(EventType) /\ Len(queue) <= QueueCap
    OBVIOUS
  <2>3. auth \in Authorities /\ server \in Authorities /\ owner \in Accounts
    BY DEF Authorities
  <2>4. wpc \in WorkerSteps /\ mpc \in MainSteps
    BY DEF WorkerSteps, MainSteps
  <2>5. used \in UsedType
    BY DEF UsedType
  <2>6. recorders \in [opened : BOOLEAN, accounts : SUBSET Accounts]
    BY DEF NoRecorders
  <2> QED BY EmptyTypes, <2>1, <2>2, <2>3, <2>4, <2>5, <2>6 DEF TypeOK
<1>6. WorkerInv
  BY DEF WorkerInv, Owning, Unsaved, Identified
<1>7. ReplayInv
  BY DEF ReplayInv, VerifiedRowsOf, Covers, BatchInv, NewCursor, NoBatch
<1> QED BY <1>5, <1>6, <1>7 DEF IndInv

\* Appending to a sequence, by element.
LEMMA AppendElements ==
    ASSUME NEW S, NEW q \in Seq(S), NEW e \in S
    PROVE  /\ Append(q, e) \in Seq(S)
           /\ Len(Append(q, e)) = Len(q) + 1
           /\ \A i \in 1..Len(q) : Append(q, e)[i] = q[i]
           /\ Append(q, e)[Len(q) + 1] = e
  OBVIOUS

\* try_send never overfills the notification channel.
LEMMA TrySendType ==
    ASSUME queue \in Seq(EventType), Len(queue) <= QueueCap,
           NEW e \in EventType, TrySend(e)
    PROVE  queue' \in Seq(EventType) /\ Len(queue') <= QueueCap
<1> USE BoundsAssumption
<1>1. CASE Len(queue) < QueueCap
  <2>1. queue' = Append(queue, e)
    BY <1>1 DEF TrySend
  <2> QED BY <1>1, <2>1, AppendElements
<1>2. CASE ~(Len(queue) < QueueCap)
  BY <1>2 DEF TrySend
<1> QED BY <1>1, <1>2

\* What QuotaReceipt::save does to the journal: it grows by at most the
\* worker's own row, keeps every other field, and verifies only that row.
SaveEffect ==
    /\ journal' \in Seq(RowType)
    /\ Len(journal') >= Len(journal)
    /\ \A s \in DOMAIN journal :
         /\ journal'[s].id = journal[s].id
         /\ journal'[s].scope = journal[s].scope
         /\ journal'[s].format = journal[s].format
         /\ journal'[s].minute = journal[s].minute
         /\ journal[s].verified => journal'[s].verified
         /\ journal'[s].verified /\ ~journal[s].verified => journal[s].id = poll.id

\* The first save appends the row of the poll, unverified.
LEMMA SaveRawEffect ==
    ASSUME TypeOK, WorkerInv, wpc = "raw", Save(FALSE)
    PROVE  /\ SaveEffect
           /\ Len(journal') = Len(journal) + 1
           /\ journal'[Len(journal) + 1].id = poll.id
<1> DEFINE row == Row(FALSE)
<1>1. row \in RowType /\ row.id = poll.id
  BY DEF TypeOK, WorkerInv, Owning, Identified, PollType, RowType, Row
<1>2. {s \in DOMAIN journal : journal[s].id = poll.id} = {}
  <2>1. poll.id \in Nat /\ \A s \in DOMAIN journal : journal[s].id < poll.id
    BY DEF WorkerInv, Unsaved, Ids
  <2> QED BY <2>1, TypeFacts
<1>3. journal' = Append(journal, row)
  BY <1>2 DEF Save
<1>4. journal \in Seq(RowType) /\ DOMAIN journal = 1..Len(journal) /\ Len(journal) \in Nat
  BY DEF TypeOK
<1> HIDE DEF row
<1>5. /\ journal' \in Seq(RowType) /\ Len(journal') = Len(journal) + 1
      /\ \A s \in DOMAIN journal : journal'[s] = journal[s]
      /\ journal'[Len(journal) + 1] = row
  BY <1>1, <1>3, <1>4, AppendElements
<1> QED BY <1>1, <1>4, <1>5 DEF SaveEffect

\* The second save verifies the row of the poll, or nothing without a scope.
LEMMA SaveVerifiedEffect ==
    ASSUME TypeOK, WorkerInv, wpc = "verify", Save(TRUE)
    PROVE  SaveEffect /\ Len(journal') = Len(journal)
<1> DEFINE stored == {s \in DOMAIN journal : journal[s].id = poll.id}
           rewritten(s) == IF s \in stored /\ poll.scope # NoScope /\ ~journal[s].verified
                             THEN [journal[s] EXCEPT !.verified = TRUE, !.drift = poll.drift]
                             ELSE journal[s]
<1>1. stored # {}
  BY DEF WorkerInv
<1>2. journal' = [s \in DOMAIN journal |-> rewritten(s)]
  BY <1>1 DEF Save
<1>3. journal \in Seq(RowType) /\ DOMAIN journal = 1..Len(journal) /\ Len(journal) \in Nat
  BY DEF TypeOK
<1>4. ASSUME NEW s \in DOMAIN journal
      PROVE  /\ rewritten(s) \in RowType
             /\ rewritten(s).id = journal[s].id
             /\ rewritten(s).scope = journal[s].scope
             /\ rewritten(s).format = journal[s].format
             /\ rewritten(s).minute = journal[s].minute
             /\ journal[s].verified => rewritten(s).verified
             /\ rewritten(s).verified /\ ~journal[s].verified => journal[s].id = poll.id
  <2>1. journal[s] \in RowType /\ poll.drift \in 0..2
    BY <1>3 DEF TypeOK, PollType
  <2> QED BY <2>1 DEF RowType
<1> HIDE DEF rewritten
<1>5. journal' \in Seq(RowType) /\ Len(journal') = Len(journal)
  BY <1>2, <1>3, <1>4
<1> QED BY <1>2, <1>3, <1>4, <1>5 DEF SaveEffect

-----------------------------------------------------------------------------
(* Every step keeps the types and the ownership of receipts.                *)

\* A batch read from well-typed state is well typed; this is where the
\* cursor's new position needs a maximum.
LEMMA ReadSinceType ==
    ASSUME TypeOK, NEW a \in Accounts, cursor[a].sequence <= Len(journal)
    PROVE  /\ ReadSince(a) \in BatchType
           /\ ReadSince(a).next.sequence <= Len(journal)
<1> DEFINE c == cursor[a]
           rows == RowsToRead(a, c)
           settled == {s \in rows : Settled(s)}
<1>1. /\ c \in CursorType /\ c.sequence \in Nat
      /\ c.verifying \subseteq Ids /\ c.latest \in LatestType
      /\ c.sequence <= Len(journal)
  BY DEF TypeOK, CursorType
<1>2. /\ journal \in Seq(RowType) /\ Len(journal) \in Nat
      /\ DOMAIN journal = 1..Len(journal) /\ Len(journal) <= MaxPolls /\ MaxPolls \in Nat
  BY TypeFacts
<1>3. /\ \A s \in rows : s \in 1..Len(journal) /\ s \in 0..Len(journal) /\ s \in Ids
      /\ rows \subseteq Ids
  BY <1>2 DEF RowsToRead, Ids
<1>4. \A s \in rows : journal[s].id \in Ids /\ journal[s].verified \in BOOLEAN
  <2>1. \A s \in rows : journal[s] \in RowType
    BY <1>2, <1>3
  <2> QED BY <2>1 DEF RowType
<1> HIDE DEF rows, c
<1>5. Maximum({c.sequence} \cup rows) \in 0..Len(journal)
  <2>1. {c.sequence} \cup rows \subseteq 0..Len(journal)
    BY <1>1, <1>2, <1>3
  <2> QED BY <1>2, <2>1, MaximumExists
<1>6. LatestSettled(c, rows) \in LatestType
  <2>1. CASE settled = {} \/ Maximum(settled) < c.latest.sequence
    BY <1>1, <2>1 DEF LatestSettled
  <2>2. CASE ~(settled = {} \/ Maximum(settled) < c.latest.sequence)
    <3>1. settled \subseteq 0..Len(journal)
      BY <1>3
    <3>2. Maximum(settled) \in settled
      BY <1>2, <2>2, <3>1, MaximumExists
    <3>3. Maximum(settled) \in Nat
      BY <3>1, <3>2
    <3>4. (~(journal[Maximum(settled)].verified /\ Interpretable(Maximum(settled)))) \in BOOLEAN
      BY <1>4, <3>2 DEF Interpretable
    <3>5. LatestSettled(c, rows) =
            [sequence |-> Maximum(settled),
             failed |-> ~(journal[Maximum(settled)].verified /\ Interpretable(Maximum(settled)))]
      BY <2>2 DEF LatestSettled
    <3> HIDE DEF settled
    <3> QED BY <3>3, <3>4, <3>5 DEF LatestType
  <2> QED BY <2>1, <2>2
<1>7. NextCursor(c, rows) \in CursorType /\ NextCursor(c, rows).sequence <= Len(journal)
  BY <1>1, <1>2, <1>4, <1>5, <1>6 DEF NextCursor, CursorType
<1>8. ReadSince(a) = [phase |-> "read", inputs |-> {s \in rows : journal[s].verified},
                     receipts |-> {s \in {t \in rows : journal[t].verified} : Interpretable(s)},
                     next |-> NextCursor(c, rows)]
  BY DEF ReadSince, rows, c
<1>9. /\ {s \in rows : journal[s].verified} \in SUBSET Ids
      /\ {s \in {t \in rows : journal[t].verified} : Interpretable(s)} \in SUBSET Ids
  BY <1>3
<1> QED BY <1>7, <1>8, <1>9 DEF BatchType

\* Each cursor stays inside the journal: part of Covers, used for typing.
LEMMA CursorBounded ==
    ASSUME ReplayInv, NEW a \in Accounts
    PROVE  cursor[a].sequence <= Len(journal)
  BY DEF ReplayInv, Covers

\* One step keeps TypeOK and WorkerInv.
LEMMA TypeStep == IndInv /\ [Next]_vars => TypeOK' /\ WorkerInv'
<1> SUFFICES ASSUME TypeOK, WorkerInv, ReplayInv, [Next]_vars
             PROVE  TypeOK' /\ WorkerInv'
  BY DEF IndInv
<1> USE AccountsAssumption, VersionsAssumption, BoundsAssumption
<1>1. ASSUME NEW a \in Accounts \cup {LoggedOut}, Login(a) PROVE TypeOK' /\ WorkerInv'
  <2>1. poll' \in PollType /\ poll'.id = poll.id /\ poll'.account = poll.account
        /\ poll'.payload = poll.payload /\ poll'.format = poll.format /\ poll'.minute = poll.minute
    <3>1. poll \in PollType /\ poll.drift \in 0..2
      BY DEF TypeOK, PollType
    <3> DEFINE d == IF wpc \in IdentityWindow /\ poll.drift < 2 THEN poll.drift + 1 ELSE poll.drift
    <3>2. d \in 0..2
      BY <3>1
    <3>3. poll' = [poll EXCEPT !.drift = d]
      BY <1>1 DEF Login
    <3> HIDE DEF d
    <3> QED BY <3>1, <3>2, <3>3 DEF PollType
  <2>2. used' \in UsedType /\ used'.polls = used.polls
    <3>1. used.switches + 1 \in 0..MaxSwitches /\ used' = [used EXCEPT !.switches = @ + 1]
      BY <1>1, TypeFacts DEF Login
    <3> QED BY <3>1, TypeFacts DEF UsedType
  <2>3. auth' \in Authorities /\ switched' \in BOOLEAN
    BY <1>1 DEF Login, Authorities
  <2>4. UNCHANGED <<server, process, wpc, active, queue, journal, main, replay, database>>
    BY <1>1 DEF Login
  <2> QED BY <2>1, <2>2, <2>3, <2>4 DEF TypeOK, WorkerInv, process, main, replay, database
<1>2. CASE ServerReload
  BY <1>2 DEF ServerReload, TypeOK, WorkerInv, process, worker, main, replay, database
<1>3. CASE PollBegin
  <2>1. poll' \in PollType /\ poll'.id = used.polls + 1
    <3>1. NoPoll \in PollType
      BY DEF NoPoll, PollType, Authorities, Scopes
    <3>2. used.polls + 1 \in Ids /\ auth \in Authorities
      <4>1. used.polls < MaxPolls /\ auth \in Authorities
        BY <1>3 DEF PollBegin, TypeOK
      <4> QED BY <4>1, TypeFacts DEF Ids
    <3>3. poll' = [NoPoll EXCEPT !.id = used.polls + 1, !.before = auth]
      BY <1>3 DEF PollBegin
    <3> HIDE DEF NoPoll
    <3>4. \A n \in Ids, x \in Authorities :
             /\ [NoPoll EXCEPT !.id = n, !.before = x] \in PollType
             /\ [NoPoll EXCEPT !.id = n, !.before = x].id = n
      BY <3>1 DEF PollType
    <3> QED BY <3>2, <3>3, <3>4
  <2>2. used' \in UsedType /\ used'.polls = used.polls + 1
    <3>1. used.polls + 1 \in 0..MaxPolls /\ used' = [used EXCEPT !.polls = @ + 1]
      BY <1>3, TypeFacts DEF PollBegin
    <3> QED BY <3>1, TypeFacts DEF UsedType
  <2>3. wpc' \in {"failed", "scope"}
    BY <1>3 DEF PollBegin
  <2>4. UNCHANGED <<env, process, active, queue, journal, main, replay, database>> /\ wpc = "idle"
    BY <1>3 DEF PollBegin
  <2>5. TypeOK'
    <3>1. Len(journal') <= used'.polls
      BY <2>2, <2>4, TypeFacts
    <3> QED BY <2>1, <2>2, <2>3, <2>4, <3>1
            DEF TypeOK, env, process, main, replay, database, WorkerSteps, IdentityWindow
  <2>7. WorkerInv'
    <3>1. used.polls + 1 \in Ids
      BY <1>3, TypeFacts DEF PollBegin, Ids
    <3>2. Len(journal') < used'.polls
      BY <2>2, <2>4, TypeFacts
    <3>3. \A s \in DOMAIN journal : journal[s].id < used.polls + 1 /\ journal[s].id <= used.polls + 1
      BY TypeFacts DEF WorkerInv
    <3> QED BY <2>1, <2>2, <2>3, <2>4, <3>1, <3>2, <3>3 DEF WorkerInv, Owning, Unsaved, Identified
  <2> QED BY <2>5, <2>7
<1>4. CASE ReadScope
  <2>1. PICK scope \in Scopes : poll' = [poll EXCEPT !.scope = scope]
    BY <1>4 DEF ReadScope, Scopes
  <2>2. /\ poll' \in PollType /\ poll'.id = poll.id
        /\ UNCHANGED <<env, process, active, queue, journal, main, replay, database, used>>
        /\ wpc = "scope" /\ wpc' = "connect"
    BY <1>4, <2>1 DEF ReadScope, TypeOK, PollType
  <2>4. TypeOK'
    BY <2>1, <2>2 DEF TypeOK, WorkerSteps, IdentityWindow, env, process, main, replay, database
  <2>5. WorkerInv'
    BY <2>1, <2>2 DEF WorkerInv, Owning, Unsaved, Identified
  <2> QED BY <2>4, <2>5
<1>5. CASE Connect
  <2>1. TypeOK'
    BY <1>5 DEF Connect, Abandon, Authorities, WorkerInv, Owning, TypeOK, WorkerSteps, IdentityWindow, env, process, worker, main, replay, database
  <2>2. WorkerInv'
    BY <1>5 DEF Connect, Abandon, Authorities, TypeOK, WorkerInv, Owning, Unsaved, Identified, WorkerSteps, IdentityWindow, env, process, worker, main, replay, database
  <2> QED BY <2>1, <2>2
<1>6. CASE AccountRead
  <2>1. server \in Accounts /\ poll' = [poll EXCEPT !.account = server]
    BY <1>6 DEF AccountRead, TypeOK, Authorities
  <2>2. /\ poll' \in PollType /\ poll'.id = poll.id /\ poll'.account = server
        /\ UNCHANGED <<env, process, active, queue, journal, main, replay, database, used>>
        /\ wpc = "account" /\ wpc' = "limits"
    BY <1>6, <2>1 DEF AccountRead, TypeOK, PollType, Authorities
  <2>4. TypeOK'
    BY <2>1, <2>2 DEF TypeOK, WorkerSteps, IdentityWindow, env, process, main, replay, database
  <2>5. WorkerInv'
    BY <2>1, <2>2 DEF WorkerInv, Owning, Unsaved, Identified
  <2> QED BY <2>4, <2>5
<1>7. CASE RateLimits
  <2>1. PICK f \in Formats, m \in Minutes :
             poll' = [poll EXCEPT !.payload = server, !.format = f, !.minute = m]
    BY <1>7 DEF RateLimits
  <2>2. /\ poll' \in PollType /\ poll'.id = poll.id /\ poll'.account = poll.account
        /\ poll'.payload \in Accounts /\ poll'.format \in Formats /\ poll'.minute \in Minutes
        /\ UNCHANGED <<env, process, queue, journal, main, replay, database, used>>
        /\ wpc = "limits" /\ wpc' = "raw" /\ active' = active \cup {poll.id} /\ poll.id \in Ids
    BY <1>7, <2>1 DEF RateLimits, TypeOK, PollType, Authorities, WorkerInv
  <2>4. TypeOK'
    BY <2>1, <2>2 DEF TypeOK, WorkerSteps, IdentityWindow, env, process, main, replay, database
  <2>5. WorkerInv'
    BY <2>1, <2>2 DEF WorkerInv, Owning, Unsaved, Identified
  <2> QED BY <2>4, <2>5
<1>8. CASE RequestFails
  <2>1. TypeOK'
    BY <1>8 DEF RequestFails, Abandon, WorkerInv, Owning, TypeOK, WorkerSteps, IdentityWindow, env, process, worker, main, replay, database
  <2>2. WorkerInv'
    BY <1>8 DEF RequestFails, Abandon, TypeOK, WorkerInv, Owning, Unsaved, Identified, WorkerSteps, IdentityWindow, env, process, worker, main, replay, database
  <2> QED BY <2>1, <2>2
<1>9. CASE Recheck
  <2>1. TypeOK'
    BY <1>9 DEF Recheck, Abandon, WorkerInv, Owning, TypeOK, WorkerSteps, IdentityWindow, env, process, worker, main, replay, database
  <2>2. WorkerInv'
    BY <1>9 DEF Recheck, Abandon, TypeOK, WorkerInv, Owning, Unsaved, Identified, WorkerSteps, IdentityWindow, env, process, worker, main, replay, database
  <2> QED BY <2>1, <2>2
<1>10. CASE SaveRaw
  <2>1. /\ SaveEffect /\ Len(journal') = Len(journal) + 1
        /\ journal'[Len(journal) + 1].id = poll.id
    BY <1>10, SaveRawEffect DEF SaveRaw
  <2>2. /\ UNCHANGED <<env, process, poll, active, queue, main, replay, database, used>>
        /\ wpc = "raw" /\ wpc' = "recheck"
    BY <1>10 DEF SaveRaw
  <2>3. /\ Len(journal) < used.polls /\ Len(journal) \in Nat /\ used.polls \in Nat
        /\ DOMAIN journal = 1..Len(journal) /\ DOMAIN journal' = 1..(Len(journal) + 1)
    <3>1. Len(journal) < used.polls
      BY <2>2 DEF WorkerInv, Unsaved
    <3>2. DOMAIN journal' = 1..Len(journal')
      BY <2>1 DEF SaveEffect
    <3> QED BY <2>1, <3>1, <3>2, TypeFacts
  <2>4. TypeOK'
    BY <2>1, <2>2, <2>3 DEF SaveEffect, TypeOK, WorkerSteps, IdentityWindow, env, process, worker, main, replay, database
  <2>5. \A s \in DOMAIN journal' : journal'[s].id <= used.polls
    <3> SUFFICES ASSUME NEW s \in DOMAIN journal' PROVE journal'[s].id <= used.polls
      OBVIOUS
    <3>1. CASE s \in DOMAIN journal
      BY <2>1, <3>1 DEF SaveEffect, WorkerInv
    <3>2. CASE s = Len(journal) + 1
      BY <2>1, <2>2, <2>3, <3>2 DEF WorkerInv
    <3> QED BY <2>3, <3>1, <3>2
  <2>6. \E s \in DOMAIN journal' : journal'[s].id = poll.id
    BY <2>1, <2>3
  <2>7. WorkerInv'
    BY <2>2, <2>5, <2>6 DEF WorkerInv, Owning, Unsaved, Identified
  <2> QED BY <2>4, <2>7
<1>11. CASE SaveFails
  <2>1. Failed \in EventType
    BY DEF Failed, EventType, Authorities
  <2>2. queue' \in Seq(EventType) /\ Len(queue') <= QueueCap
    BY <1>11, <2>1, TrySendType DEF SaveFails, TypeOK
  <2>3. used' \in UsedType /\ used'.polls = used.polls
    BY <1>11, FaultType DEF SaveFails
  <2>4. UNCHANGED <<env, process, wpc, poll, active, journal, main, replay, database>>
    BY <1>11 DEF SaveFails
  <2>5. TypeOK'
    BY <2>2, <2>3, <2>4 DEF TypeOK, env, process, worker, main, replay, database
  <2>6. WorkerInv'
    BY <2>3, <2>4 DEF WorkerInv
  <2> QED BY <2>5, <2>6
<1>12. CASE SaveVerified
  <2>1. SaveEffect /\ Len(journal') = Len(journal)
    BY <1>12, SaveVerifiedEffect DEF SaveVerified
  <2>2. /\ UNCHANGED <<env, process, poll, queue, main, replay, database, used>>
        /\ wpc = "verify" /\ wpc' \in {"ready", "stored"} /\ active' = active \ {poll.id}
    BY <1>12 DEF SaveVerified
  <2>3. DOMAIN journal = 1..Len(journal) /\ DOMAIN journal' = 1..Len(journal)
    BY <2>1 DEF TypeOK, SaveEffect
  <2>4. TypeOK'
    BY <2>1, <2>2, <2>3 DEF SaveEffect, TypeOK, WorkerSteps, IdentityWindow, env, process, worker, main, replay, database
  <2>5. \A s \in DOMAIN journal' : journal'[s].id <= used.polls
    BY <2>1, <2>3 DEF SaveEffect, WorkerInv
  <2>6. WorkerInv'
    BY <2>2, <2>5 DEF WorkerInv, Owning, Unsaved, Identified
  <2> QED BY <2>4, <2>6
<1>13. CASE Notify
  <2>1. /\ Failed \in EventType
        /\ wpc \in {"ready", "stored"} => [kind |-> wpc, epoch |-> poll.before] \in EventType
    BY DEF Failed, EventType, Authorities, TypeOK, PollType
  <2>2. queue' \in Seq(EventType) /\ Len(queue') <= QueueCap
    BY <1>13, <2>1, TrySendType DEF Notify, TypeOK
  <2>3. NoPoll \in PollType
    BY DEF NoPoll, PollType, Authorities, Scopes
  <2>4. /\ UNCHANGED <<env, process, active, journal, main, replay, database, used>>
        /\ wpc \in {"ready", "stored", "failed"} /\ wpc' = "idle" /\ poll' = NoPoll
    BY <1>13 DEF Notify
  <2>5. TypeOK'
    BY <2>2, <2>3, <2>4 DEF TypeOK, WorkerSteps, env, process, worker, main, replay, database
  <2>6. WorkerInv'
    BY <2>4 DEF WorkerInv, Owning, Unsaved, Identified
  <2> QED BY <2>5, <2>6
<1>14. ASSUME NEW a \in Accounts, ReplayRead(a), mpc' \in MainSteps, UNCHANGED <<event, pollHealth>>
      PROVE  TypeOK' /\ WorkerInv'
  <2>1. ReadSince(a) \in BatchType
    BY CursorBounded, ReadSinceType
  <2>2. /\ batch' = [batch EXCEPT ![a] = ReadSince(a)]
        /\ UNCHANGED <<env, process, worker, journal, cursor, database, used>>
    BY <1>14 DEF ReplayRead
  <2> QED BY <1>14, <2>1, <2>2 DEF TypeOK, WorkerInv, env, process, worker, main, replay, database
<1>15. ASSUME NEW a \in Accounts, ReplayStage(a), mpc' \in MainSteps, UNCHANGED <<event, pollHealth>>
      PROVE  TypeOK' /\ WorkerInv'
  <2>1. batch' \in [Accounts -> BatchType]
    <3>0. batch[a] \in BatchType
      BY DEF TypeOK
    <3>1. [batch[a] EXCEPT !.phase = "staged"] \in BatchType
      BY <3>0 DEF BatchType
    <3>2. batch' = [batch EXCEPT ![a] = [batch[a] EXCEPT !.phase = "staged"]]
      BY <1>15 DEF ReplayStage, TypeOK
    <3> QED BY <3>1, <3>2 DEF TypeOK
  <2>2. staged' \in [Accounts -> [Ids -> {"none", "period", "barrier"}]]
    BY <1>15 DEF ReplayStage, TypeOK
  <2>3. UNCHANGED <<env, process, worker, journal, cursor, receipts, projected,
                   generation, degraded, input, used>>
    BY <1>15 DEF ReplayStage
  <2> QED BY <1>15, <2>1, <2>2, <2>3 DEF TypeOK, WorkerInv, env, process, worker, main, replay, database
<1>16. ASSUME NEW a \in Accounts, ReplayCommit(a), mpc' \in MainSteps, UNCHANGED <<event, pollHealth>>
      PROVE  TypeOK' /\ WorkerInv'
  <2>1. batch[a] \in BatchType /\ batch[a].receipts \subseteq Ids /\ batch[a].next \in CursorType
    BY DEF TypeOK, BatchType
  <2>2. NoBatch \in BatchType
    BY EmptyTypes
  <2>3. /\ receipts' \in [Accounts -> SUBSET Ids] /\ cursor' \in [Accounts -> CursorType]
        /\ batch' \in [Accounts -> BatchType]
    BY <1>16, <2>1, <2>2 DEF ReplayCommit, TypeOK
  <2>4. input' \in [Accounts -> {"absent", "ok", "failed"}] /\ generation' \in [Accounts -> Nat]
    BY <1>16 DEF ReplayCommit, TypeOK, InputHealth
  <2>5. projected' \in [Accounts -> [Minutes -> Nat]]
    <3> DEFINE accepted == receipts[a] \cup batch[a].receipts
               new == batch[a].receipts \ receipts[a]
    <3>1. accepted \subseteq Ids
      BY <2>1 DEF TypeOK
    <3>2. ASSUME NEW m \in Minutes, AtMinute(new, m) # {} PROVE Maximum(AtMinute(accepted, m)) \in Nat
      <4> DEFINE shown == AtMinute(accepted, m)
      <4>1. shown # {} /\ shown \subseteq 0..MaxPolls /\ (\A t \in shown : t \in Nat)
        BY <3>1, <3>2 DEF AtMinute, Ids
      <4> HIDE DEF shown
      <4>2. Maximum(shown) \in shown
        BY <4>1, MaximumExists
      <4>3. Maximum(shown) \in Nat
        BY <4>1, <4>2
      <4> QED BY <4>3 DEF shown
    <3>3. Project(a, accepted, new) \in [Minutes -> Nat]
      <4>1. projected[a] \in [Minutes -> Nat]
        BY DEF TypeOK
      <4> HIDE DEF accepted, new
      <4> QED BY <3>2, <4>1 DEF Project
    <3>4. projected' = [projected EXCEPT ![a] = Project(a, accepted, new)]
      BY <1>16 DEF ReplayCommit
    <3> QED BY <3>3, <3>4 DEF TypeOK
  <2>6. UNCHANGED <<env, process, worker, journal, staged, degraded, used>>
    BY <1>16 DEF ReplayCommit
  <2>7. mpc' \in MainSteps /\ UNCHANGED <<event, pollHealth>>
    BY <1>16
  <2>8. TypeOK'
    BY <2>3, <2>4, <2>5, <2>6, <2>7 DEF TypeOK, env, process, worker
  <2> QED BY <2>6, <2>8 DEF WorkerInv, worker
<1>17. ASSUME NEW a \in Accounts, batch' = [batch EXCEPT ![a] = NoBatch], UNCHANGED used \/ Fault,
             UNCHANGED <<env, process, worker, journal, cursor, database>>,
             mpc' \in MainSteps, UNCHANGED <<event, pollHealth>>
      PROVE  TypeOK' /\ WorkerInv'
  <2>1. NoBatch \in BatchType
    BY EmptyTypes
  <2>2. used' \in UsedType /\ used'.polls = used.polls
    BY <1>17, FaultType, TypeFacts
  <2> QED BY <1>17, <2>1, <2>2 DEF TypeOK, WorkerInv, env, process, worker, main, replay, database
<1>18. ASSUME NEW a \in Accounts, InactiveStep(a) PROVE TypeOK' /\ WorkerInv'
  <2>1. CASE InactiveRead(a)
    BY <1>14, <2>1 DEF InactiveRead, main, TypeOK
  <2>2. CASE InactiveStage(a)
    BY <1>15, <2>2 DEF InactiveStage, main, TypeOK
  <2>3. CASE InactiveCommit(a)
    BY <1>16, <2>3 DEF InactiveCommit, main, TypeOK
  <2>4. CASE InactiveGivesUp(a)
    BY <1>17, <2>4 DEF InactiveGivesUp, ReplayFails, main, TypeOK
  <2> QED BY <1>18, <2>1, <2>2, <2>3, <2>4 DEF InactiveStep
<1>19. CASE MainStep
  <2>1. CASE OpenRecorder
    <3>1. used' \in UsedType /\ used'.polls = used.polls
      BY <2>1, FaultType DEF OpenRecorder, TypeOK
    <3> QED BY <2>1, <3>1 DEF OpenRecorder, Exit, TypeOK, WorkerInv, MainSteps, env, process, worker, main, replay, database
  <2>2. CASE CycleBegin
    BY <2>2 DEF CycleBegin, Exit, TypeOK, WorkerInv, MainSteps, env, process, worker, main, replay, database
  <2>3. CASE MainReplayRefused
    BY <2>3 DEF MainReplayRefused, Exit, TypeOK, WorkerInv, MainSteps, env, process, worker, main, replay, database
  <2>4. CASE MainSession
    BY <2>4 DEF MainSession, Exit, TypeOK, WorkerInv, MainSteps, env, process, worker, main, replay, database
  <2>5. CASE MainRead
    BY <1>14, <2>5 DEF MainRead, MainSteps, TypeOK
  <2>6. CASE MainStage
    BY <1>15, <2>6 DEF MainStage, MainSteps, TypeOK
  <2>7. CASE MainCommit
    BY <1>16, <2>7 DEF MainCommit, MainSteps, TypeOK
  <2>8. CASE MainReplayFails
    BY <1>17, <2>8 DEF MainReplayFails, ReplayFails, MainSteps, TypeOK
  <2>9. ASSUME NEW h, SyncPollHealth(h)
        PROVE  /\ degraded' \in [Accounts -> BOOLEAN] /\ generation' \in [Accounts -> Nat]
               /\ input' \in [Accounts -> {"absent", "ok", "failed"}]
               /\ used' \in UsedType
               /\ used'.polls = used.polls
               /\ UNCHANGED <<receipts, staged, projected>>
    <3>1. CASE UNCHANGED <<degraded, input, generation, used>>
      BY <2>9, <3>1 DEF SyncPollHealth, TypeOK
    <3>2. CASE Fault /\ UNCHANGED <<degraded, input, generation>>
      BY <2>9, <3>2, FaultType DEF SyncPollHealth, TypeOK
    <3>3. ASSUME NEW d \in BOOLEAN,
                 degraded' = [degraded EXCEPT ![owner] = d],
                 input' = [input EXCEPT ![owner] = IF @ = "absent" THEN "ok" ELSE @],
                 generation' = [generation EXCEPT ![owner] = @ + 1],
                 UNCHANGED used
          PROVE  /\ degraded' \in [Accounts -> BOOLEAN] /\ generation' \in [Accounts -> Nat]
                 /\ input' \in [Accounts -> {"absent", "ok", "failed"}]
                 /\ used' \in UsedType /\ used'.polls = used.polls
      BY <3>3, TypeFacts DEF TypeOK
    <3>4. (h = "failed") \in BOOLEAN
      OBVIOUS
    <3> QED BY <2>9, <3>1, <3>2, <3>3, <3>4 DEF SyncPollHealth, SetDegraded
  <2>10. CASE MainHealth
    BY <2>9, <2>10 DEF MainHealth, MainSteps, TypeOK, WorkerInv, env, process, worker, main, replay, database
  <2>11. CASE MainDrain
    <3>1. event' \in EventType
      <4>1. queue # <<>> => Len(queue) \in 1..Len(queue) /\ queue[Len(queue)] \in EventType
        BY DEF TypeOK
      <4> QED BY <2>11, <4>1 DEF MainDrain, TypeOK
    <3>2. queue' \in Seq(EventType) /\ Len(queue') <= QueueCap
      BY <2>11 DEF MainDrain
    <3> QED BY <2>11, <3>1, <3>2 DEF MainDrain, MainSteps, TypeOK, WorkerInv, env, process, worker, main, replay, database
  <2>12. CASE MainEvent
    <3>1. ASSUME MarkInputDegraded
          PROVE  /\ generation' \in [Accounts -> Nat]
                 /\ input' \in [Accounts -> {"absent", "ok", "failed"}]
                 /\ used' \in UsedType
                 /\ used'.polls = used.polls
      <4>1. CASE UNCHANGED <<input, generation, used>>
        BY <4>1 DEF TypeOK
      <4>2. CASE Fault /\ UNCHANGED <<input, generation>>
        BY <4>2, FaultType DEF TypeOK
      <4>3. CASE /\ input' = [input EXCEPT ![owner] = "failed"]
                 /\ generation' = [generation EXCEPT ![owner] = @ + 1]
                 /\ UNCHANGED used
        BY <4>3, TypeFacts DEF TypeOK
      <4> QED BY <3>1, <4>1, <4>2, <4>3 DEF MarkInputDegraded
    <3>2. /\ generation' \in [Accounts -> Nat]
          /\ input' \in [Accounts -> {"absent", "ok", "failed"}]
          /\ used' \in UsedType
          /\ used'.polls = used.polls
      BY <2>12, <3>1 DEF MainEvent, database, TypeOK
    <3>3. /\ proc' \in {"down", "run", "stopping"} /\ mpc' \in MainSteps
          /\ pollHealth' \in {"unknown", "ready", "failed"}
          /\ UNCHANGED <<owner, partitions, knows, boundary, recorders>>
      BY <2>12 DEF MainEvent, Exit, At, process, MainSteps, TypeOK
    <3>4. UNCHANGED <<env, worker, journal, event, replay, receipts, staged, projected, degraded>>
      BY <2>12 DEF MainEvent, database
    <3>5. TypeOK'
      BY <3>2, <3>3, <3>4 DEF TypeOK, env, worker, replay
    <3> QED BY <3>2, <3>4, <3>5 DEF WorkerInv, worker
  <2>13. CASE MainSync
    <3>1. NoEvent \in EventType
      BY EmptyTypes
    <3>2. /\ degraded' \in [Accounts -> BOOLEAN] /\ generation' \in [Accounts -> Nat]
          /\ input' \in [Accounts -> {"absent", "ok", "failed"}]
          /\ used' \in UsedType
          /\ used'.polls = used.polls
          /\ UNCHANGED <<receipts, staged, projected>>
      BY <2>9, <2>13 DEF MainSync, database, TypeOK
    <3>3. /\ proc' \in {"down", "run", "stopping"} /\ mpc' \in MainSteps
          /\ UNCHANGED <<owner, partitions, knows, boundary, recorders>>
      BY <2>13 DEF MainSync, Exit, At, process, MainSteps
    <3>4. UNCHANGED <<env, worker, journal, pollHealth, replay>> /\ event' = NoEvent
      BY <2>13 DEF MainSync
    <3>5. TypeOK'
      BY <3>1, <3>2, <3>3, <3>4 DEF TypeOK, env, worker, replay
    <3> QED BY <3>2, <3>4, <3>5 DEF WorkerInv, worker
  <2>14. CASE MainAcknowledge
    <3>1. used' \in UsedType /\ used'.polls = used.polls
      BY <2>14, FaultType DEF MainAcknowledge, TypeOK
    <3> QED BY <2>14, <3>1 DEF MainAcknowledge, Exit, MainSteps, TypeOK, WorkerInv, env, process, worker, main, replay, database
  <2> QED BY <1>19, <2>1, <2>2, <2>3, <2>4, <2>5, <2>6, <2>7, <2>8, <2>10, <2>11, <2>12, <2>13, <2>14 DEF MainStep
<1>20. CASE Terminate
  <2>1. used' \in UsedType /\ used'.polls = used.polls
    BY <1>20, StopType DEF Terminate
  <2> QED BY <1>20, <2>1 DEF Terminate, Exit, MainSteps, TypeOK, WorkerInv, env, process, worker, main, replay, database
<1>21. ASSUME Vanish, UNCHANGED used \/ (used.stops < MaxStops /\ used' = [used EXCEPT !.stops = @ + 1]) PROVE TypeOK' /\ WorkerInv'
  <2>1. NoBatch \in BatchType /\ NewCursor \in CursorType
    BY EmptyTypes
  <2>2. NoPoll \in PollType /\ NoEvent \in EventType
    BY EmptyTypes
  <2>3. used' \in UsedType /\ used'.polls = used.polls
    BY <1>21, StopType, TypeFacts
  <2>4. TypeOK'
    <3>1. cursor' \in [Accounts -> CursorType] /\ batch' \in [Accounts -> BatchType]
      BY <1>21, <2>1 DEF Vanish
    <3>4. queue' \in Seq(EventType) /\ Len(queue') <= QueueCap
      BY <1>21 DEF Vanish
    <3>2. /\ active' \subseteq Ids /\ wpc' \in WorkerSteps /\ mpc' \in MainSteps
          /\ proc' \in {"down", "run", "stopping"}
          /\ boundary' \in BOOLEAN /\ switched' \in BOOLEAN
          /\ poll' \in PollType /\ event' \in EventType
          /\ pollHealth' \in {"unknown", "ready", "failed"}
      BY <1>21, <2>2 DEF Vanish, MainSteps, WorkerSteps
    <3>5. recorders' \in [opened : BOOLEAN, accounts : SUBSET Accounts]
      BY <1>21 DEF Vanish, NoRecorders
    <3>3. UNCHANGED <<auth, server, owner, partitions, knows, journal, receipts, staged,
                      projected, generation, degraded, input>>
      BY <1>21 DEF Vanish, database
    <3> QED BY <2>3, <3>1, <3>2, <3>3, <3>4, <3>5 DEF TypeOK
  <2>5. WorkerInv'
    BY <1>21, <2>3 DEF Vanish, WorkerInv, Owning, Unsaved, Identified
  <2> QED BY <2>4, <2>5
<1>22. CASE Exited
  BY <1>21, <1>22 DEF Exited
<1>23. CASE Crash
  BY <1>21, <1>23 DEF Crash
<1>24. CASE Start
  BY <1>24 DEF Start, Authorities, MainSteps, TypeOK, WorkerInv, env, process, worker, main, replay, database
<1>26. CASE ThreadBoundary
  BY <1>26 DEF ThreadBoundary, TypeOK, WorkerInv, env, process, worker, main, replay, database
<1>27. CASE InactiveOpen
  <2>1. used' \in UsedType /\ used'.polls = used.polls
    BY <1>27, FaultType DEF InactiveOpen, TypeOK
  <2>2. recorders' \in [opened : BOOLEAN, accounts : SUBSET Accounts]
    <3>1. Inactive \subseteq Accounts
      BY DEF Inactive, TypeOK
    <3>2. PICK opened \in SUBSET Accounts :
             recorders' = [opened |-> TRUE, accounts |-> opened]
      <4>1. CASE recorders' = [opened |-> TRUE, accounts |-> Inactive]
        BY <3>1, <4>1
      <4>2. CASE \E a \in Inactive : recorders' = [opened |-> TRUE, accounts |-> Inactive \ {a}]
        BY <3>1, <4>2
      <4> QED BY <1>27, <4>1, <4>2 DEF InactiveOpen
    <3> QED BY <3>2
  <2> QED BY <1>27, <2>1, <2>2 DEF InactiveOpen, TypeOK, WorkerInv, env, worker, main, replay, database
<1>25. CASE UNCHANGED vars
  BY <1>25 DEF vars, TypeOK, WorkerInv, env, process, worker, main, replay, database
<1> QED BY <1>1, <1>2, <1>3, <1>4, <1>5, <1>6, <1>7, <1>8, <1>9, <1>10, <1>11, <1>12, <1>13, <1>18, <1>19, <1>20, <1>22, <1>23, <1>24, <1>25, <1>26, <1>27 DEF Next, WorkerStep

-----------------------------------------------------------------------------
(* Every step keeps the replay sound.                                       *)

\* What the steps outside the replay may do to what the replay relies on: the
\* journal only grows, rows keep their scope and format, and a row becomes
\* verified, or loses its owner, but is never owned a second time.
JournalStep ==
    /\ journal \in Seq(RowType) /\ journal' \in Seq(RowType)
    /\ Len(journal') >= Len(journal)
    /\ \A s \in DOMAIN journal :
         /\ journal'[s].id = journal[s].id
         /\ journal'[s].scope = journal[s].scope
         /\ journal'[s].format = journal[s].format
         /\ journal[s].verified => journal'[s].verified
         /\ journal'[s].verified /\ ~journal[s].verified => journal[s].id \in active
         /\ journal'[s].id \in active' => journal'[s].id \in active
    /\ knows' = knows

\* Covers in the next state, for a cursor and receipts that are given.
Kept(a, c, applied) ==
    /\ c.sequence <= Len(journal')
    /\ \A s \in DOMAIN journal' :
         journal'[s].scope = a /\ s <= c.sequence =>
            \/ journal'[s].id \in c.verifying
            \/ journal'[s].verified /\ (journal'[s].format \in knows' => s \in applied)
            \/ ~journal'[s].verified /\ journal'[s].id \notin active'

\* A cursor that covers the journal still covers it after such a step: a row
\* that is verified now was owned before, so its id was being awaited.
LEMMA CoversFrame ==
    ASSUME JournalStep, NEW a, NEW c, NEW applied,
           c.sequence \in Nat, Covers(a, c, applied)
    PROVE  Kept(a, c, applied)
<1>1. c.sequence <= Len(journal')
  BY DEF Covers, JournalStep
<1>2. \A s \in DOMAIN journal' : s <= c.sequence => s \in DOMAIN journal
  BY <1>1 DEF Covers, JournalStep
<1> QED BY <1>1, <1>2 DEF Covers, Kept, JournalStep, Interpretable

\* The steps that leave cursors, batches and databases alone keep the replay
\* sound.
LEMMA ReplayFrame ==
    ASSUME TypeOK, ReplayInv, JournalStep, UNCHANGED <<replay, receipts, staged>>,
           proc' = "down" => proc = "down" /\ wpc' = "idle"
    PROVE  ReplayInv'
<1>1. ASSUME NEW a \in Accounts
      PROVE  /\ cursor[a].sequence \in Nat
             /\ batch[a].next.sequence \in Nat
  <2>1. cursor[a] \in CursorType /\ batch[a] \in BatchType
    BY DEF TypeOK
  <2>2. batch[a].next \in CursorType
    BY <2>1 DEF BatchType
  <2> QED BY <2>1, <2>2 DEF CursorType
<1>2. ASSUME NEW a \in Accounts
      PROVE  VerifiedRowsOf(a) \subseteq VerifiedRowsOf(a)'
  <2>1. DOMAIN journal \subseteq DOMAIN journal'
    BY DEF JournalStep
  <2> QED BY <2>1 DEF JournalStep, VerifiedRowsOf
<1>3. ASSUME NEW a \in Accounts
      PROVE  Covers(a, cursor[a], receipts[a])'
  <2> DEFINE c == cursor[a]
             applied == receipts[a]
  <2>1. Covers(a, c, applied) /\ c.sequence \in Nat
    BY <1>1 DEF ReplayInv
  <2>2. cursor'[a] = c /\ receipts'[a] = applied
    BY DEF replay
  <2> HIDE DEF c, applied
  <2>3. Kept(a, c, applied)
    BY <2>1, CoversFrame
  <2> QED BY <2>2, <2>3 DEF Covers, Interpretable, Kept
<1>4. ASSUME NEW a \in Accounts
      PROVE  Covers(a, batch[a].next, receipts[a] \cup batch[a].receipts)'
  <2> DEFINE c == batch[a].next
             applied == receipts[a] \cup batch[a].receipts
  <2>1. Covers(a, c, applied) /\ c.sequence \in Nat
    BY <1>1 DEF ReplayInv, BatchInv
  <2>2. batch'[a].next = c /\ receipts'[a] \cup batch'[a].receipts = applied
    BY DEF replay
  <2> HIDE DEF c, applied
  <2>3. Kept(a, c, applied)
    BY <2>1, CoversFrame
  <2> QED BY <2>2, <2>3 DEF Covers, Interpretable, Kept
<1>5. ASSUME NEW a \in Accounts
      PROVE  BatchInv(a)' /\ receipts'[a] \subseteq VerifiedRowsOf(a)'
  BY <1>2, <1>4 DEF ReplayInv, BatchInv, replay
<1> QED BY <1>3, <1>5 DEF ReplayInv, replay

\* A step that leaves the journal alone and gives nobody a stored receipt is
\* a JournalStep.
LEMMA QuietStep ==
    ASSUME TypeOK, UNCHANGED <<journal, knows>>,
           \A s \in DOMAIN journal : journal[s].id \in active' => journal[s].id \in active
    PROVE  JournalStep
  BY DEF JournalStep, TypeOK

\* Without cursors and batches there is nothing to keep sound but the
\* databases: the state of a process that has just started or is gone.
LEMMA FreshReplay ==
    ASSUME TypeOK', ReplayInv, UNCHANGED <<journal, receipts, staged>>, wpc' = "idle",
           cursor' = [a \in Accounts |-> NewCursor],
           batch' = [a \in Accounts |-> NoBatch]
    PROVE  ReplayInv'
<1>1. journal' \in Seq(RowType) /\ DOMAIN journal' = 1..Len(journal') /\ Len(journal') \in Nat
  BY DEF TypeOK
<1>2. ASSUME NEW a \in Accounts
      PROVE  /\ Covers(a, cursor[a], receipts[a])'
             /\ Covers(a, batch[a].next, receipts[a] \cup batch[a].receipts)'
  <2>1. cursor'[a].sequence = 0 /\ batch'[a].next.sequence = 0
    BY DEF NewCursor, NoBatch
  <2> QED BY <1>1, <2>1 DEF Covers
<1>3. ASSUME NEW a \in Accounts PROVE BatchInv(a)'
  BY <1>2 DEF BatchInv, NoBatch
<1>4. ASSUME NEW a \in Accounts
      PROVE  receipts'[a] \subseteq VerifiedRowsOf(a)' /\ \A s \in receipts'[a] : staged'[a][s] # "none"
  BY DEF ReplayInv, VerifiedRowsOf
<1> QED BY <1>2, <1>3, <1>4 DEF ReplayInv

\* read_since: the batch and its cursor cover every row up to the new
\* position, because a row in between is read now, was applied before, or
\* belonged to an owner who is gone.
LEMMA ReadSinceSound ==
    ASSUME TypeOK, ReplayInv, NEW a \in Accounts
    PROVE  LET b == ReadSince(a) IN
           /\ b.phase = "read"
           /\ b.receipts \subseteq b.inputs
           /\ b.inputs \subseteq VerifiedRowsOf(a)
           /\ Covers(a, b.next, receipts[a] \cup b.receipts)
<1> DEFINE c == cursor[a]
           rows == RowsToRead(a, c)
           next == NextCursor(c, rows)
           taken == {s \in {t \in rows : journal[t].verified} : Interpretable(s)}
<1>1. ReadSince(a) = [phase |-> "read", inputs |-> {s \in rows : journal[s].verified},
                     receipts |-> taken, next |-> next]
  BY DEF ReadSince
<1>2. Covers(a, c, receipts[a]) /\ c.sequence \in Nat /\ c.sequence <= Len(journal)
  BY DEF ReplayInv, Covers, TypeOK, CursorType
<1>3. ReadSince(a).next.sequence <= Len(journal)
  BY <1>2, ReadSinceType
<1>4. ASSUME NEW s \in DOMAIN journal, journal[s].scope = a
      PROVE  \/ journal[s].id \in next.verifying
             \/ journal[s].verified /\ (Interpretable(s) => s \in receipts[a] \cup taken)
             \/ ~journal[s].verified /\ journal[s].id \notin active
  <2>1. next.verifying = (c.verifying \ {journal[r].id : r \in rows})
                           \cup {journal[r].id : r \in {r \in rows : ~Settled(r)}}
    BY DEF NextCursor
  <2>2. CASE s \in rows
    BY <2>1, <2>2 DEF Settled
  <2>3. CASE s \notin rows
    <3>1. s <= c.sequence /\ journal[s].id \notin c.verifying
      BY <1>2, <1>4, <2>3, TypeFacts DEF RowsToRead
    <3> QED BY <1>2, <1>4, <3>1 DEF Covers
  <2> QED BY <2>2, <2>3
<1>5. rows \subseteq DOMAIN journal /\ \A s \in rows : journal[s].scope = a
  BY DEF RowsToRead
<1> HIDE DEF rows, next, c
<1> QED BY <1>1, <1>3, <1>4, <1>5 DEF Covers, VerifiedRowsOf

\* One step keeps ReplayInv.
LEMMA ReplayStep == IndInv /\ [Next]_vars => ReplayInv'
<1> SUFFICES ASSUME TypeOK, WorkerInv, ReplayInv, [Next]_vars, TypeOK'
             PROVE  ReplayInv'
  BY TypeStep DEF IndInv
<1>1. ASSUME NEW a \in Accounts \cup {LoggedOut}, Login(a) PROVE ReplayInv'
  BY <1>1, QuietStep, ReplayFrame DEF Login, process, replay, database, ReplayInv
<1>2. CASE ServerReload
  BY <1>2, QuietStep, ReplayFrame DEF ServerReload, process, worker, replay, database, ReplayInv
<1>3. CASE PollBegin
  BY <1>3, QuietStep, ReplayFrame DEF PollBegin, process, replay, database
<1>4. CASE WorkerStep
  <2>1. CASE ReadScope
    BY <2>1, QuietStep, ReplayFrame DEF ReadScope, process, replay, database, ReplayInv
  <2>2. CASE Connect
    BY <2>2, QuietStep, ReplayFrame DEF Connect, Abandon, process, replay, database, ReplayInv
  <2>3. CASE AccountRead
    BY <2>3, QuietStep, ReplayFrame DEF AccountRead, process, replay, database, ReplayInv
  <2>4. CASE RateLimits
    <3>1. \A s \in DOMAIN journal : journal[s].id # poll.id
      <4>1. wpc = "limits" /\ poll.id \in Nat
        BY <2>4 DEF RateLimits, WorkerInv, Ids
      <4> QED BY <4>1, TypeFacts DEF WorkerInv, Unsaved
    <3>2. JournalStep
      BY <2>4, <3>1, QuietStep DEF RateLimits, process
    <3> QED BY <2>4, <3>2, ReplayFrame DEF RateLimits, process, replay, database, ReplayInv
  <2>5. CASE RequestFails
    BY <2>5, QuietStep, ReplayFrame DEF RequestFails, Abandon, process, replay, database, ReplayInv
  <2>6. CASE SaveRaw
    <3>1. SaveEffect /\ active = {poll.id} /\ UNCHANGED <<active, knows>>
      BY <2>6, SaveRawEffect DEF SaveRaw, WorkerInv, Owning, process
    <3>2. JournalStep
      BY <3>1 DEF SaveEffect, JournalStep, TypeOK
    <3> QED BY <2>6, <3>2, ReplayFrame DEF SaveRaw, process, replay, database, ReplayInv
  <2>7. CASE SaveFails
    BY <2>7, QuietStep, ReplayFrame DEF SaveFails, process, replay, database, ReplayInv
  <2>8. CASE Recheck
    BY <2>8, QuietStep, ReplayFrame DEF Recheck, Abandon, process, replay, database, ReplayInv
  <2>9. CASE SaveVerified
    <3>1. SaveEffect /\ active = {poll.id} /\ active' \subseteq active /\ UNCHANGED knows
      BY <2>9, SaveVerifiedEffect DEF SaveVerified, WorkerInv, Owning, process
    <3>2. JournalStep
      BY <3>1 DEF SaveEffect, JournalStep, TypeOK
    <3> QED BY <2>9, <3>2, ReplayFrame DEF SaveVerified, process, replay, database, ReplayInv
  <2>10. CASE Notify
    BY <2>10, QuietStep, ReplayFrame DEF Notify, process, replay, database, ReplayInv
  <2> QED BY <1>4, <2>1, <2>2, <2>3, <2>4, <2>5, <2>6, <2>7, <2>8, <2>9, <2>10 DEF WorkerStep
<1>5. ASSUME NEW a \in Accounts, ReplayRead(a), proc # "down" PROVE ReplayInv'
  <2>1. /\ ReadSince(a).phase = "read"
        /\ ReadSince(a).receipts \subseteq ReadSince(a).inputs
        /\ ReadSince(a).inputs \subseteq VerifiedRowsOf(a)
        /\ Covers(a, ReadSince(a).next, receipts[a] \cup ReadSince(a).receipts)
    BY ReadSinceSound
  <2> DEFINE b == ReadSince(a)
  <2>2. batch' = [batch EXCEPT ![a] = b] /\ batch \in [Accounts -> BatchType]
        /\ UNCHANGED <<proc, knows, active, journal, cursor, receipts, staged>>
    BY <1>5 DEF ReplayRead, TypeOK, process, worker, database
  <2> HIDE DEF b
  <2>3. ASSUME NEW x \in Accounts PROVE BatchInv(x)'
    <3>1. CASE x = a
      BY <2>1, <2>2, <3>1 DEF b, BatchInv, Covers, VerifiedRowsOf, Interpretable
    <3>2. CASE x # a
      <4>1. BatchInv(x) /\ batch'[x] = batch[x]
        BY <2>2, <3>2 DEF ReplayInv
      <4> QED BY <2>2, <4>1 DEF BatchInv, Covers, VerifiedRowsOf, Interpretable
    <3> QED BY <3>1, <3>2
  <2> QED BY <1>5, <2>2, <2>3 DEF ReplayInv, Covers, VerifiedRowsOf, Interpretable
<1>6. ASSUME NEW a \in Accounts, ReplayStage(a), proc # "down" PROVE ReplayInv'
  <2>1. /\ batch' = [batch EXCEPT ![a] = [batch[a] EXCEPT !.phase = "staged"]]
        /\ batch \in [Accounts -> BatchType]
        /\ UNCHANGED <<proc, knows, active, journal, cursor, receipts>>
    BY <1>6 DEF ReplayStage, TypeOK, process, worker
  <2>2. ASSUME NEW x \in Accounts
        PROVE  /\ \A s \in Ids : staged[x][s] # "none" => staged'[x][s] # "none"
               /\ x = a => \A s \in batch[a].inputs : s \in Ids => staged'[x][s] # "none"
    BY <1>6 DEF ReplayStage, TypeOK
  <2>3. ASSUME NEW x \in Accounts
        PROVE  /\ batch'[x].inputs = batch[x].inputs
               /\ batch'[x].receipts = batch[x].receipts
               /\ batch'[x].next = batch[x].next
               /\ batch[x].inputs \subseteq Ids /\ receipts[x] \subseteq Ids
               /\ x # a => batch'[x].phase = batch[x].phase
    <3>1. batch[x] \in BatchType
      BY DEF TypeOK
    <3> QED BY <2>1, <3>1 DEF BatchType, TypeOK
  <2>4. ASSUME NEW x \in Accounts PROVE BatchInv(x)'
    <3>1. BatchInv(x)
      BY DEF ReplayInv
    <3>2. /\ batch'[x].receipts \subseteq batch'[x].inputs
          /\ batch'[x].inputs \subseteq VerifiedRowsOf(x)'
          /\ Covers(x, batch[x].next, receipts[x] \cup batch[x].receipts)'
      BY <2>1, <2>3, <3>1 DEF BatchInv, Covers, VerifiedRowsOf, Interpretable
    <3>3. batch'[x].phase = "staged" => \A s \in batch'[x].inputs : staged'[x][s] # "none"
      BY <2>2, <2>3, <3>1 DEF BatchInv
    <3> QED BY <3>2, <3>3 DEF BatchInv
  <2>5. ASSUME NEW x \in Accounts
        PROVE  \A s \in receipts'[x] : staged'[x][s] # "none"
    BY <2>1, <2>2, <2>3 DEF ReplayInv
  <2> QED BY <1>6, <2>1, <2>4, <2>5 DEF ReplayInv, Covers, VerifiedRowsOf, Interpretable
<1>7. ASSUME NEW a \in Accounts, ReplayCommit(a), proc # "down" PROVE ReplayInv'
  <2>1. /\ batch' = [batch EXCEPT ![a] = NoBatch]
        /\ cursor' = [cursor EXCEPT ![a] = batch[a].next]
        /\ receipts' = [receipts EXCEPT ![a] = receipts[a] \cup batch[a].receipts]
        /\ batch[a].phase = "staged"
        /\ UNCHANGED <<proc, knows, active, journal, staged>>
    BY <1>7 DEF ReplayCommit, process, worker
  <2>2. /\ batch \in [Accounts -> BatchType] /\ cursor \in [Accounts -> CursorType]
        /\ receipts \in [Accounts -> SUBSET Ids] /\ Len(journal) \in Nat /\ DOMAIN journal = 1..Len(journal)
    BY DEF TypeOK
  <2>3. ASSUME NEW x \in Accounts
        PROVE  /\ receipts'[x] \subseteq VerifiedRowsOf(x)'
               /\ \A s \in receipts'[x] : staged'[x][s] # "none"
               /\ Covers(x, cursor[x], receipts[x])'
               /\ BatchInv(x)'
    <3>1. /\ BatchInv(x) /\ Covers(x, cursor[x], receipts[x])
          /\ receipts[x] \subseteq VerifiedRowsOf(x)
          /\ \A s \in receipts[x] : staged[x][s] # "none"
      BY DEF ReplayInv
    <3>2. CASE x # a
      <4>1. batch'[x] = batch[x] /\ cursor'[x] = cursor[x] /\ receipts'[x] = receipts[x]
        BY <2>1, <2>2, <3>2
      <4> QED BY <2>1, <3>1, <4>1 DEF BatchInv, Covers, VerifiedRowsOf, Interpretable
    <3>3. CASE x = a
      <4>1. /\ batch'[x] = NoBatch /\ cursor'[x] = batch[x].next
            /\ receipts'[x] = receipts[x] \cup batch[x].receipts
        BY <2>1, <2>2, <3>3
      <4>2. BatchInv(x)'
        <5>1. /\ batch'[x].inputs = {} /\ batch'[x].receipts = {}
              /\ batch'[x].phase = "none" /\ batch'[x].next.sequence = 0
          BY <4>1 DEF NoBatch, NewCursor
        <5>2. Covers(x, batch[x].next, receipts[x] \cup batch[x].receipts)'
          BY <2>1, <2>2, <5>1 DEF Covers
        <5> QED BY <5>1, <5>2 DEF BatchInv
      <4>3. /\ receipts'[x] \subseteq VerifiedRowsOf(x)'
            /\ \A s \in receipts'[x] : staged'[x][s] # "none"
        BY <2>1, <3>1, <3>3, <4>1 DEF BatchInv, VerifiedRowsOf
      <4>4. Covers(x, cursor[x], receipts[x])'
        BY <2>1, <3>1, <4>1 DEF BatchInv, Covers, Interpretable
      <4> QED BY <4>2, <4>3, <4>4
    <3> QED BY <3>2, <3>3
  <2> QED BY <1>7, <2>1, <2>3 DEF ReplayInv
<1>8. ASSUME NEW a \in Accounts, batch' = [batch EXCEPT ![a] = NoBatch], proc # "down",
             UNCHANGED <<proc, knows, active, journal, cursor, receipts, staged>>
      PROVE  ReplayInv'
  <2>1. batch \in [Accounts -> BatchType] /\ Len(journal) \in Nat /\ DOMAIN journal = 1..Len(journal)
    BY DEF TypeOK
  <2>2. ASSUME NEW x \in Accounts PROVE BatchInv(x)'
    <3>1. CASE x # a
      <4>1. BatchInv(x) /\ batch'[x] = batch[x]
        BY <1>8, <2>1, <3>1 DEF ReplayInv
      <4> QED BY <1>8, <4>1 DEF BatchInv, Covers, VerifiedRowsOf, Interpretable
    <3>2. CASE x = a
      <4>1. /\ batch'[x].inputs = {} /\ batch'[x].receipts = {}
            /\ batch'[x].phase = "none" /\ batch'[x].next.sequence = 0
        BY <1>8, <2>1, <3>2 DEF NoBatch, NewCursor
      <4>2. Covers(x, batch[x].next, receipts[x] \cup batch[x].receipts)'
        BY <1>8, <2>1, <4>1 DEF Covers
      <4> QED BY <4>1, <4>2 DEF BatchInv
    <3> QED BY <3>1, <3>2
  <2> QED BY <1>8, <2>2 DEF ReplayInv, Covers, VerifiedRowsOf, Interpretable
<1>9. ASSUME NEW a \in Accounts, InactiveStep(a) PROVE ReplayInv'
  <2>1. CASE InactiveRead(a)
    BY <1>5, <2>1 DEF InactiveRead, JobRuns
  <2>2. CASE InactiveStage(a) \/ InactiveCommit(a) \/ InactiveGivesUp(a)
    <3>1. batch[a].phase # "none"
      BY <2>2 DEF InactiveStage, InactiveCommit, InactiveGivesUp, ReplayStage, ReplayCommit
    <3>2. proc # "down"
      BY <3>1 DEF ReplayInv, NoBatch
    <3> QED BY <1>6, <1>7, <1>8, <2>2, <3>2 DEF InactiveStage, InactiveCommit, InactiveGivesUp,
              ReplayFails, process, worker, database
  <2> QED BY <1>9, <2>1, <2>2 DEF InactiveStep
<1>10. CASE MainStep
  <2>1. owner \in Accounts
    BY DEF TypeOK
  <2>2. CASE MainRead
    BY <1>5, <2>1, <2>2 DEF MainRead, At
  <2>3. CASE MainStage
    BY <1>6, <2>1, <2>3 DEF MainStage, At
  <2>4. CASE MainCommit
    BY <1>7, <2>1, <2>4 DEF MainCommit, At
  <2>5. CASE MainReplayFails
    BY <1>8, <2>1, <2>5 DEF MainReplayFails, ReplayFails, process, worker, database
  <2>6. CASE OpenRecorder \/ CycleBegin \/ MainReplayRefused \/ MainAcknowledge \/ MainSession
    BY <2>6, QuietStep, ReplayFrame DEF OpenRecorder, MainAcknowledge, CycleBegin, MainReplayRefused, MainSession,
       Exit, At, process, worker, replay, database
  <2>7. CASE MainHealth
    BY <2>7, QuietStep, ReplayFrame DEF MainHealth, SyncPollHealth, At, process, worker, replay
  <2>8. CASE MainDrain
    BY <2>8, QuietStep, ReplayFrame DEF MainDrain, At, process, replay, database
  <2>9. CASE MainEvent
    BY <2>9, QuietStep, ReplayFrame DEF MainEvent, Exit, At, process, worker, replay, database
  <2>10. CASE MainSync
    BY <2>10, QuietStep, ReplayFrame DEF MainSync, SyncPollHealth, Exit, At, process, worker, replay, database
  <2> QED BY <1>10, <2>2, <2>3, <2>4, <2>5, <2>6, <2>7, <2>8, <2>9, <2>10 DEF MainStep
<1>11. CASE Terminate
  BY <1>11, QuietStep, ReplayFrame DEF Terminate, Exit, process, worker, replay, database
<1>12. CASE Exited \/ Crash
  BY <1>12, FreshReplay DEF Exited, Crash, Vanish, database
<1>13. CASE Start
  BY <1>13, FreshReplay DEF Start, ReplayInv, worker, replay, database
<1>15. CASE ThreadBoundary
  BY <1>15, QuietStep, ReplayFrame DEF ThreadBoundary, worker, replay, database
<1>16. CASE InactiveOpen
  <2>1. UNCHANGED <<proc, knows, worker, journal, replay, database>>
    BY <1>16 DEF InactiveOpen
  <2> QED BY <1>16, <2>1, QuietStep, ReplayFrame DEF worker, replay, database, InactiveOpen, JobRuns
<1>14. CASE UNCHANGED vars
  BY <1>14, QuietStep, ReplayFrame DEF vars, process, worker, replay, database, ReplayInv
<1> QED BY <1>1, <1>2, <1>3, <1>4, <1>9, <1>10, <1>11, <1>12, <1>13, <1>14, <1>15, <1>16 DEF Next

-----------------------------------------------------------------------------
(* The theorems.                                                            *)

\* The quota lane keeps the inductive invariant, whatever the number of
\* accounts, polls, kills, restarts, upgrades and storage faults.
THEOREM ReplayIsSound == Spec => []IndInv
<1>1. IndInv /\ [Next]_vars => IndInv'
  BY TypeStep, ReplayStep DEF IndInv
<1> QED BY <1>1, InitIndInv, PTL DEF Spec

\* The variables keep their types: the journal holds at most one row per
\* poll and the notification channel never exceeds its capacity.
THEOREM TypesHold == Spec => []TypeOK
<1>1. IndInv => TypeOK
  BY DEF IndInv
<1> QED BY <1>1, ReplayIsSound, PTL

\* No database holds a receipt of another account, of an unverified response
\* or of a row that the journal does not have.
THEOREM ReceiptsAreVerified == Spec => []ReceiptsFromVerified
<1>1. IndInv => ReceiptsFromVerified
  BY DEF IndInv, ReplayInv, VerifiedRowsOf, ReceiptsFromVerified
<1> QED BY <1>1, ReplayIsSound, PTL

\* The incremental cursor never skips a row that is or may become verified.
THEOREM NothingIsSkipped == Spec => []CursorSound
<1>1. IndInv => CursorSound
  BY DEF IndInv, ReplayInv, Covers, CursorSound
<1> QED BY <1>1, ReplayIsSound, PTL

\* No receipt is ever in a database without its period evidence.
THEOREM EvidenceComesFirst == Spec => []AppliedAreStaged
<1>1. IndInv => AppliedAreStaged
  BY DEF IndInv, ReplayInv, AppliedAreStaged
<1> QED BY <1>1, ReplayIsSound, PTL

\* Whatever a reader can see of an account database changes only with its
\* collection generation.
THEOREM ReadersNoticeChanges == Spec => VisibleChangesAdvance
<1>1. ASSUME TypeOK, [Next]_vars, NEW a \in Accounts PROVE VisibleStep(a)
  <2>1. CASE UNCHANGED database
    BY <2>1 DEF VisibleStep, database
  <2>2. CASE UNCHANGED <<receipts, projected, generation, degraded, input>>
    BY <2>2 DEF VisibleStep
  <2>3. ASSUME NEW b \in Accounts, ReplayCommit(b) PROVE VisibleStep(a)
    <3>1. a # b => UNCHANGED <<receipts[a], projected[a], degraded[a], input[a]>>
      BY <1>1, <2>3 DEF ReplayCommit, TypeOK
    <3>2. a = b => \/ generation'[a] > generation[a]
                   \/ UNCHANGED <<receipts[a], projected[a], degraded[a]>>
                      /\ (input'[a] = "failed") = (input[a] = "failed")
      BY <1>1, <2>3 DEF ReplayCommit, TypeOK, Project, InputHealth, AtMinute
    <3> QED BY <3>1, <3>2 DEF VisibleStep
  <2>4. ASSUME NEW h, SyncPollHealth(h) PROVE VisibleStep(a)
    BY <1>1, <2>4 DEF SyncPollHealth, SetDegraded, VisibleStep, TypeOK
  <2>5. ASSUME MarkInputDegraded, UNCHANGED <<receipts, staged, projected, degraded>>
        PROVE  VisibleStep(a)
    BY <1>1, <2>5 DEF MarkInputDegraded, VisibleStep, TypeOK
  <2>6. CASE WorkerStep
    BY <2>1, <2>6 DEF WorkerStep, ReadScope, Connect, AccountRead, RateLimits, RequestFails, SaveRaw,
       SaveFails, Recheck, SaveVerified, Notify
  <2>7. ASSUME NEW b \in Accounts, InactiveStep(b) PROVE VisibleStep(a)
    BY <2>1, <2>2, <2>3, <2>7 DEF InactiveStep, InactiveRead, InactiveStage, InactiveCommit,
       InactiveGivesUp, ReplayRead, ReplayStage, ReplayFails
  <2>8. CASE MainStep
    <3>1. owner \in Accounts
      BY <1>1 DEF TypeOK
    <3>2. CASE MainRead \/ MainStage \/ MainCommit \/ MainReplayFails
      BY <2>1, <2>2, <2>3, <3>1, <3>2 DEF MainRead, MainStage, MainCommit, MainReplayFails,
         ReplayRead, ReplayStage, ReplayFails
    <3>3. CASE MainHealth \/ MainSync
      BY <2>1, <2>4, <3>3 DEF MainHealth, MainSync
    <3>4. CASE MainEvent
      BY <2>1, <2>2, <2>5, <3>4 DEF MainEvent
    <3>5. CASE OpenRecorder \/ CycleBegin \/ MainReplayRefused \/ MainAcknowledge \/ MainDrain \/ MainSession
      BY <2>1, <3>5 DEF OpenRecorder, MainAcknowledge, CycleBegin, MainReplayRefused, MainDrain, MainSession
    <3> QED BY <2>8, <3>2, <3>3, <3>4, <3>5 DEF MainStep
  <2>9. CASE \/ \E x \in Accounts \cup {LoggedOut} : Login(x)
             \/ ServerReload \/ PollBegin \/ ThreadBoundary \/ InactiveOpen \/ Terminate \/ Exited \/ Crash \/ Start
    BY <2>1, <2>9 DEF ThreadBoundary, InactiveOpen, Login, ServerReload, PollBegin, Terminate, Exited, Crash, Vanish, Start
  <2>10. CASE UNCHANGED vars
    BY <2>1, <2>10 DEF vars
  <2> QED BY <1>1, <2>6, <2>7, <2>8, <2>9, <2>10 DEF Next
<1>2. TypeOK /\ [Next]_vars => [\A a \in Accounts : VisibleStep(a)]_vars
  BY <1>1
<1> QED BY <1>2, TypesHold, PTL DEF Spec, VisibleChangesAdvance

\* A response the worker holds leaves memory only through the journal, or
\* with a kill of the process.
THEOREM ResponsesAreKept == Spec => ResponseOutlivesStop
<1>1. ASSUME TypeOK, WorkerInv, [Next]_vars, NEW id \in active \ active' PROVE KeepsResponse(id)
  <2>1. id = poll.id /\ wpc \in Owning
    BY <1>1 DEF WorkerInv
  <2>2. CASE UNCHANGED active
    BY <1>1, <2>2
  <2>3. CASE wpc \in {"recheck", "verify"} /\ UNCHANGED journal
    BY <1>1, <2>1, <2>3 DEF WorkerInv, KeepsResponse
  <2>4. CASE SaveVerified
    <3>1. SaveEffect /\ Len(journal') = Len(journal) /\ wpc = "verify"
      BY <1>1, <2>4, SaveVerifiedEffect DEF SaveVerified
    <3>2. DOMAIN journal' = DOMAIN journal
      BY <1>1, <3>1 DEF SaveEffect, TypeOK
    <3> QED BY <1>1, <2>1, <3>1, <3>2 DEF SaveEffect, WorkerInv, KeepsResponse
  <2>5. CASE WorkerStep
    BY <2>1, <2>2, <2>3, <2>4, <2>5 DEF WorkerStep, ReadScope, Connect, AccountRead, RateLimits,
       RequestFails, SaveRaw, SaveFails, Recheck, Notify, Owning
  <2>6. CASE Exited
    BY <2>1, <2>6 DEF Exited, Owning
  <2>7. CASE Crash
    <3>1. used \in UsedType /\ used.stops \in Nat /\ used' = [used EXCEPT !.stops = @ + 1]
      BY <1>1, <2>7, TypeFacts DEF Crash
    <3>2. used'.stops = used.stops + 1
      BY <3>1 DEF UsedType
    <3> QED BY <3>1, <3>2 DEF KeepsResponse
  <2>8. CASE \/ \E x \in Accounts : InactiveStep(x)
             \/ MainStep
    BY <2>2, <2>8 DEF InactiveStep, InactiveRead, InactiveStage, InactiveCommit, InactiveGivesUp,
       ReplayRead, ReplayStage, ReplayCommit, ReplayFails, worker,
       MainStep, OpenRecorder, CycleBegin, MainRead, MainStage, MainCommit, MainReplayFails,
       MainReplayRefused, MainHealth, MainAcknowledge, MainDrain, MainSession, MainEvent, MainSync
  <2>9. CASE \/ \E x \in Accounts \cup {LoggedOut} : Login(x)
             \/ ServerReload \/ PollBegin \/ ThreadBoundary \/ InactiveOpen \/ Terminate \/ Start
    BY <2>2, <2>9 DEF ThreadBoundary, InactiveOpen, Login, ServerReload, PollBegin, Terminate, Start, worker
  <2>10. CASE UNCHANGED vars
    BY <2>2, <2>10 DEF vars, worker
  <2> QED BY <1>1, <2>5, <2>6, <2>7, <2>8, <2>9, <2>10 DEF Next
<1>2. IndInv /\ [Next]_vars => [\A id \in active \ active' : KeepsResponse(id)]_vars
  BY <1>1 DEF IndInv
<1> QED BY <1>2, ReplayIsSound, PTL DEF Spec, ResponseOutlivesStop

=============================================================================
