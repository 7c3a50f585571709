----------------------- MODULE SessionCollectionProofs -----------------------
(***************************************************************************)
(* Proofs about SessionCollection: the types, the ownership of every       *)
(* charge, the idempotence of the writer, that nothing is charged twice or *)
(* for more than it was (so that the tables implement TokenLedger), and    *)
(* that totals called complete are, for every chunk size, number of        *)
(* records, replacements, failed commits, kills and account changes.       *)
(*                                                                         *)
(* The argument: the scan only compares counters of records it has seen in *)
(* the file, and charges a difference only inside one interval (ScanInv);  *)
(* a batch carries that to the tables, and what a repeated commit finds    *)
(* there is what it would write (SoundBatch).  The cursor, or the counter  *)
(* an open search waits for, is behind every charge (ScanLedger, LedgerInv)*)
(* so the next charge is new.  A charge is at most what was consumed       *)
(* between the two records compared, because no adjustment lies there      *)
(* (ScanPaid, AmountInv).  A record the scan does not charge consumed      *)
(* nothing, was charged before or leaves a row, and while no file is cut   *)
(* on its inode the writer deletes a row only when the open search is      *)
(* answered (ScanEvidence, EvidenceInv).                                   *)
(***************************************************************************)
EXTENDS SessionCollection, FiniteSetTheorems, WellFoundedInduction, TLAPS

-----------------------------------------------------------------------------
(* Induction over the records of a pass and over the cycles of cursors.     *)

LessThan == {p \in Nat \X Nat : p[1] < p[2]}

\* A nonempty set of naturals has a least element.
LEMMA LeastExists ==
    ASSUME NEW T, T \subseteq Nat, T # {}
    PROVE  \E x \in T : \A y \in T : x <= y
<1>1. OpToRel(<, Nat) = LessThan
  BY DEF OpToRel, LessThan
<1>2. IsWellFoundedOn(LessThan, Nat)
  BY <1>1, NatLessThanWellFounded
<1>3. PICK x \in T : \A y \in T : ~(<<y, x>> \in LessThan)
  BY <1>2, WFMin
<1>4. \A y \in T : ~(y < x)
  BY <1>3 DEF LessThan
<1> QED BY <1>4

\* f lists the states of a pass.
IsPass(f, s, n, m, from) ==
    /\ f[0] = s
    /\ \A k \in 1..(m - n) : f[k] = ScanRecord(f[k - 1], n + k, from)
    /\ Pass(s, n, m, from) = f[m - n]

\* The function a pass is defined by exists, so it satisfies its equation.
LEMMA PassEquation ==
    ASSUME NEW s, NEW n \in Nat, NEW m \in Nat, n <= m, NEW from
    PROVE  \E f : IsPass(f, s, n, m, from)
<1> DEFINE e(g, j) == [k \in 0..j |-> IF k = 0 THEN s ELSE ScanRecord(g[k - 1], n + k, from)]
           K == m - n
           Bad == {j \in Nat : ~\E g : g = e(g, j)}
<1>1. K \in Nat
  OBVIOUS
<1>2. \E g : g = e(g, K)
  <2> SUFFICES ASSUME K \in Bad PROVE FALSE
    BY <1>1
  <2>1. PICK j \in Bad : \A i \in Bad : j <= i
    BY LeastExists
  <2>2. CASE j = 0
    <3> DEFINE g == [k \in 0..0 |-> s]
    <3>1. \A k \in 0..0 : (IF k = 0 THEN s ELSE ScanRecord(g[k - 1], n + k, from)) = s
      OBVIOUS
    <3> DEFINE w == e(g, 0)
    <3>2. w = [k \in 0..0 |-> s]
      <4> HIDE DEF g
      <4> QED BY <3>1
    <3> HIDE DEF w
    <3>3. g = w
      BY <3>2
    <3> HIDE DEF g
    <3>4. g = e(g, 0)
      BY <3>3 DEF w
    <3>5. \E x : x = e(x, 0)
      BY <3>4
    <3> QED BY <2>1, <2>2, <3>5
  <2>3. CASE j # 0
    <3>1. j - 1 \in Nat /\ j - 1 \notin Bad
      <4>1. j \in Nat
        OBVIOUS
      <4> HIDE DEF Bad
      <4> QED BY <2>1, <2>3, <4>1
    <3>2. PICK g : g = e(g, j - 1)
      BY <3>1
    <3> DEFINE h == [k \in 0..j |-> IF k = j THEN ScanRecord(g[j - 1], n + j, from) ELSE g[k]]
    <3>3. \A k \in 0..(j - 1) : g[k] = IF k = 0 THEN s ELSE ScanRecord(g[k - 1], n + k, from)
      BY <3>2
    <3>4. ASSUME NEW k \in 0..j
          PROVE  h[k] = IF k = 0 THEN s ELSE ScanRecord(h[k - 1], n + k, from)
      <4>1. CASE k = j
        <5>1. j - 1 \in 0..j /\ j - 1 # j
          BY <2>3, <3>1
        <5>2. h[j - 1] = g[j - 1]
          BY <5>1
        <5> QED BY <2>3, <4>1, <5>2
      <4>2. CASE k # j
        <5>1. k \in 0..(j - 1)
          BY <3>1, <4>2
        <5>2. h[k] = g[k]
          BY <4>2
        <5>3. k # 0 => k - 1 \in 0..j /\ k - 1 # j
          BY <3>1, <5>1
        <5>4. k # 0 => h[k - 1] = g[k - 1]
          BY <5>3
        <5> QED BY <3>3, <5>1, <5>2, <5>4
      <4> QED BY <4>1, <4>2
    <3>5. h = e(h, j)
      <4> DEFINE w == e(h, j)
      <4>1. DOMAIN h = 0..j /\ DOMAIN w = 0..j
        OBVIOUS
      <4>2. \A k \in 0..j : w[k] = h[k]
        BY <3>4
      <4>3. h = [k \in 0..j |-> h[k]] /\ w = [k \in 0..j |-> w[k]]
        OBVIOUS
      <4> HIDE DEF h, w
      <4>4. h = w
        BY <4>2, <4>3
      <4> QED BY <4>4 DEF w
    <3> QED BY <2>1, <3>5
  <2> QED BY <2>2, <2>3
<1> DEFINE f == CHOOSE g : g = e(g, K)
<1>3. f = e(f, K)
  BY <1>2
<1>4. Pass(s, n, m, from) = f[m - n]
  BY DEF Pass
<1> HIDE DEF f
<1>5. \A k \in 0..K : f[k] = IF k = 0 THEN s ELSE ScanRecord(f[k - 1], n + k, from)
  BY <1>3
<1>6. f[0] = s /\ \A k \in 1..K : f[k] = ScanRecord(f[k - 1], n + k, from)
  BY <1>1, <1>5
<1>7. IsPass(f, s, n, m, from)
  BY <1>4, <1>6 DEF IsPass
<1> QED BY <1>7

-----------------------------------------------------------------------------
(* The scan: what holds after every record it reads.                        *)

ScanEvent == [id : Nat, delta : Nat \ {0}, before : Nat, at : Nat, covers : SUBSET Nat]
ScanType ==
    [known : BOOLEAN, previous : Nat, raw : Nat, full : BOOLEAN, seek : Nat,
     matched : BOOLEAN, rows : SUBSET Nat, events : SUBSET ScanEvent,
     resumed : BOOLEAN, first : Nat, last : Nat]

\* After p records: the scan compares with records that were written, the
\* counter it compares with is one it read, and every charge is sound.
ScanInv(s, p) ==
    /\ s \in ScanType
    /\ s.previous <= Len(log) /\ s.raw <= Len(log) /\ s.seek <= Len(log)
    /\ s.rows \subseteq DOMAIN file.ids
    /\ s.known => s.previous # None
    /\ s.raw # None => \E q \in 1..p : file.ids[q] = s.previous
    /\ s.seek # None => s.raw = None
    /\ \A e \in s.events : SoundEvent(e)

\* A scan keeps its bounds, and a search once ended stays ended.
SameScan(s, t) ==
    /\ s.resumed = t.resumed /\ s.first = t.first /\ s.last = t.last
    /\ s.seek # None => t.seek # None

\* What Typed says of the records.
LEMMA LogFacts ==
    ASSUME Typed
    PROVE  /\ log \in Seq(RecordType) /\ Len(log) \in Nat
           /\ DOMAIN log = 1..Len(log)
           /\ \A i \in DOMAIN log : log[i] \in RecordType /\ log[i].at \in 1..clock
           /\ clock \in 1..MaxTime /\ clock \in Nat
<1>1. log \in Seq(RecordType) /\ clock \in 1..MaxTime
      /\ \A i \in DOMAIN log : log[i].at \in 1..clock
  BY DEF Typed
<1>2. Len(log) \in Nat /\ DOMAIN log = 1..Len(log) /\ clock \in Nat
  BY <1>1
<1>3. \A i \in DOMAIN log : log[i] \in RecordType
  BY <1>1
<1> QED BY <1>1, <1>2, <1>3

\* What Typed says of the file.
LEMMA FileFacts ==
    ASSUME Typed
    PROVE  /\ file.inode \in Inodes /\ file.ids \in Seq(DOMAIN log) /\ file.ids \in Seq(Nat)
           /\ Len(file.ids) \in Nat /\ DOMAIN file.ids = 1..Len(file.ids)
<1>1. file \in [inode : Inodes, ids : Seq(DOMAIN log)]
  BY DEF Typed
<1>2. file.inode \in Inodes /\ file.ids \in Seq(DOMAIN log)
  BY <1>1
<1>3. DOMAIN log \subseteq Nat
  BY LogFacts
<1>4. file.ids \in Seq(Nat)
  BY <1>2, <1>3
<1> QED BY <1>2, <1>4

\* What Typed says of the intervals.
LEMMA IntervalFacts ==
    ASSUME Typed
    PROVE  /\ intervals \in Seq([start : Nat, end : Nat]) /\ intervals # <<>>
           /\ Len(intervals) \in Nat /\ DOMAIN intervals = 1..Len(intervals)
           /\ \A k \in DOMAIN intervals : intervals[k].start \in Nat /\ intervals[k].end \in Nat
<1>1. intervals \in Seq([start : Nat, end : Nat]) /\ intervals # <<>>
  BY DEF Typed
<1> DEFINE Interval == [start : Nat, end : Nat]
<1>2. \A k \in DOMAIN intervals : intervals[k] \in Interval
  <2>1. intervals \in Seq(Interval)
    BY <1>1
  <2> HIDE DEF Interval
  <2> QED BY <2>1
<1>3. \A k \in DOMAIN intervals : intervals[k].start \in Nat /\ intervals[k].end \in Nat
  BY <1>2
<1>4. Len(intervals) \in Nat /\ DOMAIN intervals = 1..Len(intervals)
  BY <1>1
<1> QED BY <1>1, <1>3, <1>4

\* The records between two counters of the file were written.
LEMMA BetweenWritten ==
    ASSUME Typed, NEW i, NEW j, NEW q \in DOMAIN file.ids, file.ids[q] = i,
           NEW p \in DOMAIN file.ids, file.ids[p] = j
    PROVE  Between(i, j) \subseteq DOMAIN log
<1> DEFINE at(id) == CHOOSE x \in DOMAIN file.ids : file.ids[x] = id
<1>1. at(i) \in DOMAIN file.ids /\ at(j) \in DOMAIN file.ids
  OBVIOUS
<1>2. Between(i, j) = {file.ids[x] : x \in (at(i) + 1)..at(j)}
  BY DEF Between
<1> HIDE DEF at
<1>3. file.ids \in Seq(DOMAIN log)
  BY DEF Typed
<1>4. (at(i) + 1)..at(j) \subseteq DOMAIN file.ids
  BY <1>1, <1>3
<1> QED BY <1>2, <1>3, <1>4

\* A record of the file.
LEMMA RecordOfFile ==
    ASSUME Typed, NEW p \in DOMAIN file.ids
    PROVE  /\ file.ids[p] \in DOMAIN log /\ file.ids[p] \in Nat \ {0}
           /\ file.ids[p] <= Len(log)
           /\ log[file.ids[p]] \in RecordType /\ log[file.ids[p]].at \in 1..clock
           /\ p \in Nat \ {0} /\ p <= Len(file.ids)
<1>1. file.ids \in Seq(DOMAIN log) /\ log \in Seq(RecordType)
  BY DEF Typed
<1>2. DOMAIN log = 1..Len(log) /\ DOMAIN file.ids = 1..Len(file.ids)
      /\ Len(log) \in Nat /\ Len(file.ids) \in Nat
  BY <1>1
<1>3. file.ids[p] \in DOMAIN log
  BY <1>1
<1>4. file.ids[p] \in Nat \ {0} /\ file.ids[p] <= Len(log)
  BY <1>2, <1>3
<1>5. log[file.ids[p]] \in RecordType
  BY <1>1, <1>3
<1>6. log[file.ids[p]].at \in 1..clock
  BY <1>3 DEF Typed
<1>7. p \in Nat \ {0} /\ p <= Len(file.ids)
  BY <1>2
<1> QED BY <1>3, <1>4, <1>5, <1>6, <1>7

\* One record preserves the scan's invariant, whatever its kind and owner.
LEMMA ScanRecordSound ==
    ASSUME Typed, NEW p \in DOMAIN file.ids, NEW s, ScanInv(s, p - 1), NEW from
    PROVE  ScanInv(ScanRecord(s, p, from), p) /\ SameScan(ScanRecord(s, p, from), s)
<1> DEFINE id == file.ids[p]
           t == ScanRecord(s, p, from)
<1>1. /\ id \in DOMAIN log /\ id \in Nat \ {0} /\ id <= Len(log)
      /\ log[id] \in RecordType /\ log[id].at \in 1..clock
      /\ p \in Nat \ {0} /\ p <= Len(file.ids)
  BY RecordOfFile
<1>2. s \in ScanType
  BY DEF ScanInv
<1>3. ASSUME t = s \/ t = Reject(s, p) PROVE ScanInv(t, p) /\ SameScan(t, s)
  <2> HIDE DEF t
  <2>1. /\ t \in ScanType /\ t.rows \subseteq s.rows \cup {p}
        /\ t.known = s.known /\ t.previous = s.previous /\ t.raw = s.raw
        /\ t.seek = s.seek /\ t.events = s.events
        /\ t.resumed = s.resumed /\ t.first = s.first /\ t.last = s.last
    <3>1. p \in Nat /\ p \in {p}
      BY <1>1
    <3>2. CASE t = s
      BY <1>2, <3>2 DEF ScanType
    <3>3. CASE t = Reject(s, p)
      BY <1>2, <3>1, <3>3 DEF Reject, ScanType
    <3> QED BY <1>3, <3>2, <3>3
  <2>2. t.raw # None => \E q \in 1..p : file.ids[q] = t.previous
    BY <1>1, <2>1 DEF ScanInv
  <2> QED BY <1>1, <2>1, <2>2 DEF ScanInv, SameScan
<1>4. ASSUME s.seek = None,
             t = Baseline(s, id) \/ t = Reject(Baseline(s, id), p)
      PROVE  ScanInv(t, p) /\ SameScan(t, s)
  <2> HIDE DEF t
  <2>1. /\ t \in ScanType /\ t.rows \subseteq s.rows \cup {p}
        /\ t.known = TRUE /\ t.previous = id /\ t.raw = id
        /\ t.seek = s.seek /\ t.events = s.events
        /\ t.resumed = s.resumed /\ t.first = s.first /\ t.last = s.last
    <3>1. p \in Nat /\ p \in {p} /\ id \in Nat
      BY <1>1
    <3> HIDE DEF id
    <3>2. CASE t = Baseline(s, id)
      BY <1>2, <3>1, <3>2 DEF Baseline, ScanType
    <3>3. CASE t = Reject(Baseline(s, id), p)
      BY <1>2, <3>1, <3>3 DEF Reject, Baseline, ScanType
    <3> QED BY <1>4, <3>2, <3>3
  <2>2. t.raw # None => \E q \in 1..p : file.ids[q] = t.previous
    BY <1>1, <2>1
  <2> QED BY <1>1, <1>4, <2>1, <2>2 DEF ScanInv, SameScan, None
<1>5. ASSUME s.seek # None, t = Seek(s, id) PROVE ScanInv(t, p) /\ SameScan(t, s)
  <2> HIDE DEF t
  <2>1. CASE SameCounter(id, s.seek)
    <3>1. /\ t \in ScanType /\ t.rows = s.rows
          /\ t.known = TRUE /\ t.previous = id /\ t.raw = id
          /\ t.seek = None /\ t.events = s.events
          /\ t.resumed = s.resumed /\ t.first = s.first /\ t.last = s.last
      BY <1>1, <1>2, <1>5, <2>1 DEF Seek, Baseline, ScanType, None
    <3>2. t.raw # None => \E q \in 1..p : file.ids[q] = t.previous
      BY <1>1, <3>1
    <3> QED BY <1>1, <1>5, <3>1, <3>2 DEF ScanInv, SameScan, None
  <2>2. CASE ~SameCounter(id, s.seek)
    <3>1. /\ t \in ScanType /\ t.rows = s.rows
          /\ t.known = TRUE /\ t.previous = id /\ t.raw = s.raw
          /\ t.seek = s.seek /\ t.events = s.events
          /\ t.resumed = s.resumed /\ t.first = s.first /\ t.last = s.last
      BY <1>1, <1>2, <1>5, <2>2 DEF Seek, ScanType
    <3>2. t.raw = None
      BY <1>5, <3>1 DEF ScanInv
    <3> QED BY <1>1, <1>5, <3>1, <3>2 DEF ScanInv, SameScan, None
  <2> QED BY <2>1, <2>2
<1>6. ASSUME s.seek = None, OwnedPair(s, id, from), t = Charge(s, id)
      PROVE  ScanInv(t, p) /\ SameScan(t, s)
  <2> DEFINE delta == log[id].total - log[s.previous].total
             event == [id |-> id, delta |-> delta, before |-> log[s.raw].at, at |-> log[id].at,
                       covers |-> Between(s.previous, id)]
  <2>1. PICK q \in 1..(p - 1) : file.ids[q] = s.previous
    BY <1>6 DEF OwnedPair, ScanInv
  <2>2. q \in DOMAIN file.ids /\ s.previous \in DOMAIN log /\ log[s.previous] \in RecordType
    <3>1. q \in DOMAIN file.ids
      BY <1>1, <2>1 DEF Typed
    <3> QED BY <2>1, <3>1, RecordOfFile
  <2>3. s.raw \in DOMAIN log /\ log[s.raw].at \in 1..clock
    <3>1. s.raw \in 1..Len(log)
      BY <1>2, <1>6 DEF OwnedPair, ScanInv, ScanType, None
    <3>2. DOMAIN log = 1..Len(log) /\ \A i \in DOMAIN log : log[i].at \in 1..clock
      BY LogFacts
    <3> QED BY <3>1, <3>2
  <2>4. Between(s.previous, id) \subseteq DOMAIN log
    BY <2>1, <2>2, BetweenWritten
  <2>5. DOMAIN log \subseteq Nat /\ clock \in Nat
    BY LogFacts
  <2>6. delta \in Int
    <3>1. \A r \in RecordType : r.total \in Nat
      BY DEF RecordType
    <3>2. log[id].total \in Nat /\ log[s.previous].total \in Nat
      BY <1>1, <2>2, <3>1
    <3> QED BY <3>2
  <2>7. OwnedSpan(log[s.raw].at, log[id].at)
    <3>1. SameInterval(log[s.raw].at, log[id].at, from)
      BY <1>6 DEF OwnedPair
    <3>2. \A k \in DOMAIN intervals : intervals[k].start \in Nat /\ intervals[k].end \in Nat
      BY IntervalFacts
    <3>3. PICK k \in DOMAIN intervals :
             /\ log[s.raw].at >= intervals[k].start /\ log[id].at >= intervals[k].start
             /\ intervals[k].end # None =>
                    log[s.raw].at < intervals[k].end /\ log[id].at < intervals[k].end
      BY <3>1 DEF SameInterval
    <3>4. log[s.raw].at \in Nat /\ log[id].at \in Nat
      <4>1. \A x \in 1..clock : x \in Nat
        BY <2>5
      <4> HIDE DEF id
      <4> QED BY <1>1, <2>3, <4>1
    <3> HIDE DEF id
    <3> QED BY <3>2, <3>3, <3>4 DEF OwnedSpan
  <2>8. t = [Baseline(s, id) EXCEPT !.events = IF delta > 0 THEN @ \cup {event} ELSE @]
    BY <1>6 DEF Charge
  <2>9. delta > 0 => event \in ScanEvent /\ SoundEvent(event)
    <3> HIDE DEF delta, id
    <3> SUFFICES ASSUME delta > 0 PROVE event \in ScanEvent /\ SoundEvent(event)
      OBVIOUS
    <3>1. delta \in Nat \ {0}
      BY <2>6
    <3>2. log[s.raw].at \in Nat /\ log[id].at \in Nat
          /\ log[s.raw].at <= clock /\ log[id].at <= clock
      BY <1>1, <2>3, <2>5
    <3> QED BY <1>1, <2>4, <2>5, <2>7, <3>1, <3>2 DEF ScanEvent, SoundEvent
  <2> HIDE DEF t, delta, event
  <2>10. /\ t.rows = s.rows /\ t.known = TRUE /\ t.previous = id /\ t.raw = id
         /\ t.seek = s.seek
         /\ t.events = IF delta > 0 THEN s.events \cup {event} ELSE s.events
         /\ t.resumed = s.resumed /\ t.first = s.first /\ t.last = s.last
         /\ t \in ScanType
    BY <1>1, <1>2, <2>8, <2>9 DEF Baseline, ScanType
  <2>11. t.raw # None => \E x \in 1..p : file.ids[x] = t.previous
    BY <1>1, <2>10
  <2>12. \A e \in t.events : SoundEvent(e)
    BY <2>9, <2>10 DEF ScanInv
  <2> QED BY <1>1, <1>6, <2>10, <2>11, <2>12 DEF ScanInv, SameScan, None
<1>7. \/ t = Reject(s, p)
      \/ s.seek # None /\ t = Seek(s, id)
      \/ s.seek = None /\ t = Baseline(s, id)
      \/ s.seek = None /\ t = Unowned(s, p, from)
      \/ s.seek = None /\ OwnedPair(s, id, from) /\ t = Charge(s, id)
  BY DEF ScanRecord
<1>8. Unowned(s, p, from) = Baseline(s, id) \/ Unowned(s, p, from) = Reject(Baseline(s, id), p)
  BY DEF Unowned
<1> HIDE DEF t, id
<1>9. ScanInv(t, p) /\ SameScan(t, s)
  BY <1>3, <1>4, <1>5, <1>6, <1>7, <1>8
<1> QED BY <1>9 DEF t

\* A pass over the records n + 1 to m preserves it too.
LEMMA PassSound ==
    ASSUME Typed, NEW n \in Nat, NEW m \in Nat, n <= m, m <= Len(file.ids),
           NEW s, ScanInv(s, n), NEW from
    PROVE  ScanInv(Pass(s, n, m, from), m) /\ SameScan(Pass(s, n, m, from), s)
<1>0. PICK f : IsPass(f, s, n, m, from)
  BY PassEquation
<1>1. /\ f[0] = s
      /\ \A k \in 1..(m - n) : f[k] = ScanRecord(f[k - 1], n + k, from)
      /\ Pass(s, n, m, from) = f[m - n]
  BY <1>0 DEF IsPass
<1> DEFINE Good(k) == ScanInv(f[k], n + k) /\ SameScan(f[k], s)
           Bad == {k \in 0..(m - n) : ~Good(k)}
<1>2. Good(0)
  BY <1>1 DEF SameScan
<1>3. ASSUME NEW k \in 1..(m - n), Good(k - 1) PROVE Good(k)
  <2>1. n + k \in DOMAIN file.ids
    BY DEF Typed
  <2>2. (n + k) - 1 = n + (k - 1)
    OBVIOUS
  <2>3. ScanInv(f[k - 1], (n + k) - 1)
    BY <1>3, <2>2
  <2>4. ScanInv(f[k], n + k) /\ SameScan(f[k], f[k - 1])
    BY <1>1, <2>1, <2>3, ScanRecordSound
  <2> QED BY <1>3, <2>4 DEF SameScan
<1> HIDE DEF Good
<1>4. Bad = {}
  <2> SUFFICES ASSUME Bad # {} PROVE FALSE
    OBVIOUS
  <2>0. Bad \subseteq Nat
    OBVIOUS
  <2>1. PICK k \in Bad : \A j \in Bad : k <= j
    <3> HIDE DEF Bad
    <3> QED BY <2>0, LeastExists
  <2>2. k \in 1..(m - n)
    BY <1>2
  <2>3. Good(k - 1)
    BY <2>1, <2>2
  <2> QED BY <1>3, <2>2, <2>3
<1>5. Good(m - n)
  BY <1>4
<1>6. n + (m - n) = m
  OBVIOUS
<1> QED BY <1>1, <1>5, <1>6 DEF Good

-----------------------------------------------------------------------------
(* The start of a scan and its outcome.                                     *)

\* A cut sequence keeps what is before the cut.
LEMMA CutAt ==
    ASSUME NEW u \in Seq(Nat), NEW n \in Nat, n <= Len(u), NEW q \in 1..n
    PROVE  SubSeq(u, 1, n)[q] = u[q]
OBVIOUS

\* The writing side of a checkpoint: what a stored one can be used for.
LEMMA StoredCheckpoint ==
    ASSUME Typed, SoundDb, NEW i \in Inodes, db.checkpoints[i] # NoCheckpoint
    PROVE  /\ db.checkpoints[i] \in CheckpointType
           /\ SoundCheckpoint(db.checkpoints[i])
           /\ db.checkpoints[i].cycle <= db.cycle
<1>1. db.checkpoints \in [Inodes -> CheckpointType \cup {NoCheckpoint}]
  BY DEF Typed, DbType
<1>2. db.checkpoints[i] \in CheckpointType
  BY <1>1
<1> QED BY <1>2 DEF SoundDb

\* prior_checkpoint finds a stored cursor, or there is none; without one of
\* this inode it is the newest.
LEMMA PriorStored ==
    ASSUME Typed, SoundDb
    PROVE  /\ \/ Prior = NoCheckpoint
              \/ /\ Prior # NoCheckpoint
                 /\ Prior \in CheckpointType /\ SoundCheckpoint(Prior)
           /\ db.checkpoints[file.inode] = NoCheckpoint =>
                 \/ Prior = NoCheckpoint /\ \A i \in Inodes : db.checkpoints[i] = NoCheckpoint
                 \/ \E i \in Inodes :
                        /\ Prior = db.checkpoints[i] /\ db.checkpoints[i] # NoCheckpoint
                        /\ \A j \in Inodes : db.checkpoints[j] # NoCheckpoint =>
                              db.checkpoints[j].cycle <= db.checkpoints[i].cycle
<1> DEFINE cps == db.checkpoints
           stored == {i \in Inodes : cps[i] # NoCheckpoint}
           newest == CHOOSE cp \in {cps[i] : i \in stored} :
                         \A i \in stored : cps[i].cycle <= cp.cycle
           delays == {db.cycle - cps[i].cycle : i \in stored}
<1>1. Prior = IF cps[file.inode] # NoCheckpoint THEN cps[file.inode]
              ELSE IF stored = {} THEN NoCheckpoint ELSE newest
  BY DEF Prior
<1>2. file.inode \in Inodes
  BY FileFacts
<1>3. ASSUME stored # {}
      PROVE  \E i \in stored : newest = cps[i] /\ \A j \in stored : cps[j].cycle <= cps[i].cycle
  <2>1. db.cycle \in Nat
    BY DEF Typed, DbType
  <2>2. \A i \in stored : cps[i].cycle \in Nat /\ cps[i].cycle <= db.cycle
    BY StoredCheckpoint DEF CheckpointType
  <2>3. delays \subseteq Nat /\ delays # {}
    <3> HIDE DEF cps, stored
    <3> QED BY <1>3, <2>1, <2>2
  <2>4. PICK d \in delays : \A y \in delays : d <= y
    <3> HIDE DEF delays
    <3> QED BY <2>3, LeastExists
  <2>5. PICK j \in stored : d = db.cycle - cps[j].cycle
    OBVIOUS
  <2> HIDE DEF stored
  <2>6. \A i \in stored : cps[i].cycle <= cps[j].cycle
    <3> TAKE i \in stored
    <3>1. db.cycle - cps[i].cycle \in delays
      OBVIOUS
    <3>2. d <= db.cycle - cps[i].cycle
      BY <2>4, <3>1
    <3> QED BY <2>1, <2>2, <2>5, <3>2
  <2>7. \E cp \in {cps[i] : i \in stored} : \A i \in stored : cps[i].cycle <= cp.cycle
    BY <2>6
  <2>8. newest \in {cps[i] : i \in stored} /\ \A i \in stored : cps[i].cycle <= newest.cycle
    <3> HIDE DEF cps
    <3> QED BY <2>7
  <2> HIDE DEF newest, cps
  <2> QED BY <2>8
<1> HIDE DEF newest
<1>4. Prior = NoCheckpoint \/ \E i \in Inodes : Prior = cps[i] /\ cps[i] # NoCheckpoint
  BY <1>1, <1>2, <1>3
<1>5. ASSUME cps[file.inode] = NoCheckpoint
      PROVE  \/ Prior = NoCheckpoint /\ \A i \in Inodes : cps[i] = NoCheckpoint
             \/ \E i \in Inodes :
                    /\ Prior = cps[i] /\ cps[i] # NoCheckpoint
                    /\ \A j \in Inodes : cps[j] # NoCheckpoint => cps[j].cycle <= cps[i].cycle
  <2>1. CASE stored = {}
    BY <1>1, <1>5, <2>1
  <2>2. CASE stored # {}
    <3>1. Prior = newest
      BY <1>1, <1>5, <2>2
    <3> QED BY <1>3, <2>2, <3>1
  <2> QED BY <2>1, <2>2
<1> QED BY <1>4, <1>5, StoredCheckpoint

\* How many records a cycle reads.
LEMMA ChunkBound ==
    ASSUME NEW n \in Nat, NEW l \in Nat, n <= l
    PROVE  /\ n + Min({Chunk, l - n}) \in Nat
           /\ n <= n + Min({Chunk, l - n}) /\ n + Min({Chunk, l - n}) <= l
<1> DEFINE S == {Chunk, l - n}
<1>1. Chunk \in Nat /\ l - n \in Nat
  BY SessionAssumption
<1>2. \E x \in S : \A y \in S : x <= y
  BY <1>1
<1>3. Min(S) \in S /\ \A y \in S : Min(S) <= y
  BY <1>2 DEF Min
<1> QED BY <1>1, <1>3

\* What the cycle starts from: a record of the scan state.
Start ==
    LET prior   == Prior
        resumed == prior # NoCheckpoint /\ Resumable(prior)
    IN  StartScan(prior, resumed, Anchor(prior, resumed, db.recovery))

\* s is the scan state before record n + 1 is read.
IsStart(s, n, m) ==
    /\ n = IF Prior # NoCheckpoint /\ Resumable(Prior) THEN Len(Prior.prefix) ELSE 0
    /\ s = [Start EXCEPT !.first = n, !.last = m]

\* A scan that may run starts with the invariant.
LEMMA StartSound ==
    ASSUME Typed, SoundDb, Scannable, NEW n, NEW m \in Nat, NEW s, IsStart(s, n, m)
    PROVE  /\ ScanInv(s, n)
           /\ s.resumed = (Prior # NoCheckpoint /\ Resumable(Prior))
           /\ s.first = n /\ s.last = m
           /\ s.seek # None /\ db.recovery = NoRecovery => Prior # NoCheckpoint
<1> DEFINE resumed == Prior # NoCheckpoint /\ Resumable(Prior)
           anchor  == Anchor(Prior, resumed, db.recovery)
           origin  == AtOrigin(anchor, resumed, Prior)
<1>0. /\ n = IF resumed THEN Len(Prior.prefix) ELSE 0
      /\ s = [Start EXCEPT !.first = n, !.last = m]
  BY DEF IsStart
<1>1. Prior # NoCheckpoint => Prior \in CheckpointType /\ SoundCheckpoint(Prior)
  BY PriorStored
<1>2. Len(log) \in Nat
  BY LogFacts
<1>3. db.recovery # NoRecovery =>
          /\ db.recovery.anchor \in Nat /\ db.recovery.anchor <= Len(log)
          /\ db.recovery.full \in BOOLEAN
          /\ Prior # NoCheckpoint /\ Prior.raw = None
  <2> SUFFICES ASSUME db.recovery # NoRecovery
               PROVE  /\ db.recovery.anchor \in Nat /\ db.recovery.anchor <= Len(log)
                      /\ db.recovery.full \in BOOLEAN
                      /\ Prior # NoCheckpoint /\ Prior.raw = None
    OBVIOUS
  <2>1. db.recovery \in RecoveryType
    BY DEF Typed, DbType
  <2>2. db.recovery.inode = file.inode
    BY DEF Scannable, AnchorElsewhere
  <2>3. Prior = db.checkpoints[file.inode] /\ Prior # NoCheckpoint
    BY <2>2 DEF SoundDb, Prior
  <2> QED BY <2>1, <2>2, <2>3 DEF SoundDb, RecoveryType
<1>4. anchor.id \in Nat /\ anchor.id <= Len(log) /\ anchor.full \in BOOLEAN
  <2>1. CASE db.recovery # NoRecovery
    <3>1. anchor = [id |-> db.recovery.anchor, full |-> db.recovery.full]
      BY <2>1 DEF Anchor
    <3> QED BY <1>3, <2>1, <3>1
  <2>2. CASE db.recovery = NoRecovery /\ Prior # NoCheckpoint /\ ~resumed
    <3>1. anchor = [id |-> IF Prior.known THEN Prior.previous ELSE None, full |-> Prior.full]
      BY <2>2 DEF Anchor
    <3>2. Prior.previous \in Nat /\ Prior.previous <= Len(log) /\ Prior.full \in BOOLEAN
      BY <1>1, <2>2 DEF CheckpointType, SoundCheckpoint
    <3> QED BY <1>2, <3>1, <3>2 DEF None
  <2>3. CASE db.recovery = NoRecovery /\ (Prior = NoCheckpoint \/ resumed)
    <3>1. anchor = [id |-> None, full |-> FALSE]
      BY <2>3 DEF Anchor
    <3> HIDE DEF anchor
    <3>2. anchor.id = 0 /\ anchor.full \in BOOLEAN
      BY <3>1 DEF None
    <3> QED BY <1>2, <3>2
  <2> QED BY <2>1, <2>2, <2>3
<1>5. anchor.id # None =>
          /\ resumed => Prior.raw = None
          /\ db.recovery = NoRecovery => Prior # NoCheckpoint
  BY <1>3 DEF Anchor
<1>6. resumed => /\ Prior.known \in BOOLEAN /\ Prior.full \in BOOLEAN
                 /\ Prior.previous \in Nat /\ Prior.previous <= Len(log)
                 /\ Prior.raw \in Nat /\ Prior.raw <= Len(log)
                 /\ Prior.known => Prior.previous # None
                 /\ Prior.prefix \in Seq(Nat)
  BY <1>1 DEF CheckpointType, SoundCheckpoint
<1>7. resumed /\ Prior.raw # None => \E q \in 1..n : file.ids[q] = Prior.previous
  <2> SUFFICES ASSUME resumed, Prior.raw # None
               PROVE  \E q \in 1..n : file.ids[q] = Prior.previous
    OBVIOUS
  <2>1. PICK q \in DOMAIN Prior.prefix : Prior.prefix[q] = Prior.previous
    BY <1>1 DEF SoundCheckpoint
  <2>2. IsPrefix(Prior.prefix, file.ids)
    BY DEF Scannable, PrefixUnverified
  <2>3. n = Len(Prior.prefix) /\ n \in Nat /\ DOMAIN Prior.prefix = 1..n
    BY <1>0, <1>6
  <2>4. n <= Len(file.ids) /\ SubSeq(Prior.prefix, 1, n) = SubSeq(file.ids, 1, n)
    BY <2>2, <2>3 DEF IsPrefix
  <2>5. Prior.prefix \in Seq(Nat) /\ file.ids \in Seq(Nat)
    BY <1>6, FileFacts
  <2>6. SubSeq(Prior.prefix, 1, n)[q] = Prior.prefix[q] /\ SubSeq(file.ids, 1, n)[q] = file.ids[q]
    <3>1. q \in 1..n /\ n \in Nat /\ n <= Len(Prior.prefix)
      BY <2>1, <2>3
    <3> QED BY <2>4, <2>5, <3>1, CutAt
  <2> QED BY <2>1, <2>3, <2>4, <2>6
<1>8. n \in Nat
  BY <1>0, <1>6
<1> DEFINE base == [known    |-> resumed /\ Prior.known,
                    previous |-> IF resumed THEN Prior.previous ELSE None,
                    raw      |-> IF resumed THEN Prior.raw ELSE None,
                    full     |-> IF resumed THEN Prior.full ELSE Prior = NoCheckpoint,
                    seek     |-> anchor.id, matched |-> anchor.full,
                    rows     |-> {}, events |-> {},
                    resumed  |-> resumed, first |-> 0, last |-> 0]
<1>9. Start = IF origin
              THEN [base EXCEPT !.known = TRUE, !.previous = anchor.id, !.full = TRUE, !.seek = None]
              ELSE base
  BY DEF Start, StartScan
<1>10. origin => anchor.id # None
  BY DEF AtOrigin
<1>11. resumed \in BOOLEAN /\ anchor.full \in BOOLEAN
  BY <1>4
<1> HIDE DEF resumed, anchor, origin
<1>12. /\ s.rows = {} /\ s.events = {} /\ s.resumed = resumed /\ s.first = n /\ s.last = m
       /\ s.seek = IF origin THEN None ELSE anchor.id
       /\ s.raw = IF resumed THEN Prior.raw ELSE None
       /\ s.previous = IF origin THEN anchor.id ELSE IF resumed THEN Prior.previous ELSE None
       /\ s.known = (origin \/ (resumed /\ Prior.known))
       /\ s.matched = anchor.full
  BY <1>0, <1>9
<1>13. s \in ScanType
  <2>1. base \in ScanType
    BY <1>4, <1>6, <1>11 DEF ScanType, None
  <2> HIDE DEF base
  <2>2. [base EXCEPT !.known = TRUE, !.previous = anchor.id, !.full = TRUE, !.seek = None]
            \in ScanType
    BY <1>4, <2>1 DEF ScanType, None
  <2>3. Start \in ScanType
    BY <1>9, <2>1, <2>2
  <2> QED BY <1>0, <1>8, <2>3 DEF ScanType
<1>14. ScanInv(s, n)
  <2>1. s.previous <= Len(log) /\ s.raw <= Len(log) /\ s.seek <= Len(log)
    BY <1>2, <1>4, <1>6, <1>12 DEF None
  <2>2. s.known => s.previous # None
    BY <1>6, <1>10, <1>12
  <2>3. s.raw # None => \E q \in 1..n : file.ids[q] = s.previous
    <3> SUFFICES ASSUME s.raw # None PROVE \E q \in 1..n : file.ids[q] = s.previous
      OBVIOUS
    <3>1. resumed /\ Prior.raw # None /\ ~origin
      BY <1>5, <1>10, <1>12
    <3> QED BY <1>7, <1>12, <3>1
  <2>4. s.seek # None => s.raw = None
    BY <1>5, <1>12
  <2> QED BY <1>12, <1>13, <2>1, <2>2, <2>3, <2>4 DEF ScanInv
<1>15. s.seek # None /\ db.recovery = NoRecovery => Prior # NoCheckpoint
  BY <1>5, <1>12
<1> QED BY <1>12, <1>14, <1>15 DEF resumed

\* What a scan leaves, in one place.
ScanResult(s) ==
    /\ ScanInv(s, s.last)
    /\ s.first <= s.last /\ s.last <= Len(file.ids)
    /\ s.resumed => Prior # NoCheckpoint
    /\ s.seek # None /\ db.recovery = NoRecovery => Prior # NoCheckpoint

\* scan_source leaves a sound result.
LEMMA ScanSound ==
    ASSUME Typed, SoundDb, Scannable
    PROVE  ScanResult(Scan)
<1> DEFINE resumed == Prior # NoCheckpoint /\ Resumable(Prior)
           n == IF resumed THEN Len(Prior.prefix) ELSE 0
           m == n + Min({Chunk, Len(file.ids) - n})
           from == IF resumed THEN EligibleFrom(Prior) ELSE clock
           s == [Start EXCEPT !.first = n, !.last = m]
<1>1. Scan = Pass(s, n, m, from)
  BY DEF Scan, Start
<1>2. Len(file.ids) \in Nat
  BY FileFacts
<1>3. n \in Nat /\ n <= Len(file.ids)
  <2>1. resumed => Prior.prefix \in Seq(Nat)
    BY PriorStored DEF CheckpointType
  <2> QED BY <1>2, <2>1 DEF Resumable
<1> HIDE DEF resumed
<1>4. m \in Nat /\ n <= m /\ m <= Len(file.ids)
  <2> HIDE DEF n
  <2> QED BY <1>2, <1>3, ChunkBound
<1>5. /\ ScanInv(s, n) /\ s.resumed = resumed /\ s.first = n /\ s.last = m
      /\ s.seek # None /\ db.recovery = NoRecovery => Prior # NoCheckpoint
  <2>1. n = IF Prior # NoCheckpoint /\ Resumable(Prior) THEN Len(Prior.prefix) ELSE 0
    BY DEF resumed
  <2>2. s = [Start EXCEPT !.first = n, !.last = m]
    OBVIOUS
  <2> HIDE DEF n, m, s
  <2>3. IsStart(s, n, m)
    BY <2>1, <2>2 DEF IsStart
  <2> QED BY <1>4, <2>3, StartSound DEF resumed
<1> HIDE DEF n, m, s, from
<1>6. ScanInv(Scan, m) /\ SameScan(Scan, s)
  BY <1>1, <1>3, <1>4, <1>5, PassSound
<1> QED BY <1>3, <1>4, <1>5, <1>6 DEF ScanResult, SameScan, resumed

\* The accepted part of the file.
LEMMA PrefixFacts ==
    ASSUME Typed, NEW a \in Nat, NEW l \in Nat, a >= 1, l <= Len(file.ids)
    PROVE  /\ SubSeq(file.ids, a, l) \in Seq(Nat)
           /\ Len(SubSeq(file.ids, 1, l)) = l
           /\ DOMAIN SubSeq(file.ids, 1, l) = 1..l
           /\ \A q \in 1..l : SubSeq(file.ids, 1, l)[q] = file.ids[q]
<1>1. file.ids \in Seq(Nat) /\ Len(file.ids) \in Nat
  BY FileFacts
<1>2. SubSeq(file.ids, a, l) \in Seq(Nat)
  BY <1>1
<1> QED BY <1>1, <1>2

\* Everything run_cycle puts into a batch has its type, its cursor and its
\* charges are sound, and a batch that finds a search open answers it.
LEMMA OutcomeSound ==
    ASSUME Typed, SoundDb, NEW s, ScanResult(s)
    PROVE  LET o == OutcomeOf(s)
           IN  /\ o \in OutcomeType /\ SoundOutcome(o)
               /\ o.checkpoint.cycle = db.cycle + 1
               /\ db.recovery # NoRecovery => o.resolved \/ o.recovery # NoRecovery
<1> DEFINE prior   == Prior
           saved   == db.recovery
           start   == IF s.resumed THEN s.first + 1 ELSE 0
           prefix  == SubSeq(file.ids, 1, s.last)
           lineage == IF s.resumed THEN prior.lineage ELSE <<epoch, file.inode, prefix>>
           bound   == IF s.resumed THEN prior.bound ELSE clock
           missing == Row(lineage, 0, prefix, "anchor")
           rows    == {Row(lineage, p, <<file.ids[p]>>, "record") : p \in s.rows}
                        \cup (IF s.seek # None /\ saved = NoRecovery THEN {missing} ELSE {})
           search  == IF saved # NoRecovery THEN saved
                      ELSE [anchor |-> s.seek, full |-> prior.full, row |-> missing]
           full    == (s.full \/ ~s.resumed) /\ rows = {}
           origin  == (s.resumed /\ prior.origin) \/ CreatedHere(bound)
           cp      == [inode |-> file.inode, lineage |-> lineage, epoch |-> epoch,
                       cycle |-> db.cycle + 1, prefix |-> prefix,
                       known |-> s.known, previous |-> s.previous, raw |-> s.raw,
                       full  |-> full, bound |-> bound, origin |-> origin]
           range   == [lineage |-> lineage, start |-> start, end |-> s.last + 1,
                       ids |-> SubSeq(file.ids, s.first + 1, s.last)]
           allrows == rows \cup
                      (IF s.seek # None /\ saved # NoRecovery THEN {saved.row} ELSE {})
           found   == [inode |-> file.inode, epoch |-> epoch, lineage |-> lineage,
                       offset |-> s.last + 1, anchor |-> search.anchor,
                       full |-> search.full, row |-> search.row]
           recovery == IF s.seek = None THEN NoRecovery ELSE found
           resolved == saved # NoRecovery /\ s.seek = None
           backlog == s.last < Len(file.ids)
           event(e) == [inode |-> file.inode, lineage |-> lineage, start |-> start,
                        end |-> s.last + 1, id |-> e.id, delta |-> e.delta,
                        before |-> e.before, at |-> e.at, covers |-> e.covers]
           events  == {event(e) : e \in s.events}
           o == [checkpoint |-> cp, range |-> range, rows |-> allrows, recovery |-> recovery,
                 resolved |-> resolved, backlog |-> backlog, events |-> events]
<1>1. OutcomeOf(s) = o
  BY DEF OutcomeOf
<1>2. /\ s.known \in BOOLEAN /\ s.previous \in Nat /\ s.raw \in Nat /\ s.full \in BOOLEAN
      /\ s.seek \in Nat /\ s.rows \subseteq Nat /\ s.events \subseteq ScanEvent
      /\ s.resumed \in BOOLEAN /\ s.first \in Nat /\ s.last \in Nat
      /\ s.last <= Len(file.ids)
  BY DEF ScanResult, ScanInv, ScanType
<1>3. file.inode \in Inodes /\ file.ids \in Seq(Nat) /\ Len(file.ids) \in Nat
  BY FileFacts
<1>4. epoch \in Nat /\ db \in DbType /\ clock \in Nat /\ db.cycle \in Nat
      /\ (saved # NoRecovery => saved \in RecoveryType)
  <2>1. epoch \in Nat /\ db \in DbType
    BY DEF Typed
  <2>2. db.cycle \in Nat /\ (saved # NoRecovery => saved \in RecoveryType)
    BY <2>1 DEF DbType
  <2> QED BY <2>1, <2>2, LogFacts
<1>5. prior # NoCheckpoint =>
          /\ prior.lineage \in Lineages /\ prior.bound \in Nat /\ prior.full \in BOOLEAN
          /\ prior.origin \in BOOLEAN
  BY PriorStored DEF CheckpointType
<1>6. /\ prefix \in Seq(Nat) /\ DOMAIN prefix = 1..s.last
      /\ \A q \in 1..s.last : prefix[q] = file.ids[q]
      /\ SubSeq(file.ids, s.first + 1, s.last) \in Seq(Nat)
  <2>1. s.first + 1 \in Nat /\ s.first + 1 >= 1 /\ 1 \in Nat /\ 1 >= 1
    BY <1>2
  <2>2. SubSeq(file.ids, s.first + 1, s.last) \in Seq(Nat)
    BY <1>2, <2>1, PrefixFacts
  <2>3. /\ prefix \in Seq(Nat) /\ DOMAIN prefix = 1..s.last
        /\ \A q \in 1..s.last : prefix[q] = file.ids[q]
    BY <1>2, <2>1, PrefixFacts
  <2> QED BY <2>2, <2>3
<1>7. lineage \in Lineages /\ start \in Nat /\ bound \in Nat
  <2>1. s.resumed => prior # NoCheckpoint
    BY DEF ScanResult
  <2> HIDE DEF prior, prefix
  <2> QED BY <1>2, <1>3, <1>4, <1>5, <1>6, <2>1 DEF Lineages
<1> HIDE DEF prior, prefix, lineage, start, bound, saved
<1>8. missing \in RowType
  BY <1>3, <1>4, <1>6, <1>7 DEF Row, RowType
<1>9. \A p \in s.rows : Row(lineage, p, <<file.ids[p]>>, "record") \in RowType
  <2> TAKE p \in s.rows
  <2>1. p \in Nat /\ p \in DOMAIN file.ids
    BY <1>2 DEF ScanResult, ScanInv
  <2>2. <<file.ids[p]>> \in Seq(Nat)
    BY <1>3, <2>1
  <2> QED BY <1>3, <1>4, <1>7, <2>1, <2>2 DEF Row, RowType
<1> HIDE DEF missing
<1>10. rows \subseteq RowType /\ allrows \subseteq RowType
  BY <1>4, <1>8, <1>9 DEF RecoveryType
<1> HIDE DEF rows
<1>11. cp \in CheckpointType
  <2>1. full \in BOOLEAN /\ origin \in BOOLEAN
    BY DEF CreatedHere
  <2> HIDE DEF full, origin
  <2> QED BY <1>2, <1>3, <1>4, <1>6, <1>7, <2>1 DEF CheckpointType
<1>12. range \in RangeType
  BY <1>2, <1>6, <1>7 DEF RangeType
<1>13. s.seek # None =>
          /\ search.anchor \in Nat /\ search.anchor <= Len(log)
          /\ search.full \in BOOLEAN /\ search.row \in RowType
  <2> SUFFICES ASSUME s.seek # None
               PROVE  /\ search.anchor \in Nat /\ search.anchor <= Len(log)
                      /\ search.full \in BOOLEAN /\ search.row \in RowType
    OBVIOUS
  <2>1. CASE saved # NoRecovery
    <3>1. search = saved /\ saved \in RecoveryType
      BY <1>4, <2>1
    <3>2. saved.anchor <= Len(log)
      BY <2>1 DEF SoundDb, saved
    <3> HIDE DEF search
    <3> QED BY <3>1, <3>2 DEF RecoveryType
  <2>2. CASE saved = NoRecovery
    <3>1. search = [anchor |-> s.seek, full |-> prior.full, row |-> missing]
      BY <2>2
    <3>2. prior.full \in BOOLEAN
      BY <1>5, <2>2 DEF ScanResult, prior, saved
    <3>3. s.seek <= Len(log)
      BY DEF ScanResult, ScanInv
    <3> HIDE DEF search
    <3>4. search.anchor = s.seek /\ search.full = prior.full /\ search.row = missing
      BY <3>1
    <3> QED BY <1>2, <1>8, <3>2, <3>3, <3>4
  <2> QED BY <2>1, <2>2
<1> HIDE DEF search
<1>14. s.seek # None => found \in RecoveryType /\ found # NoRecovery
  <2> SUFFICES ASSUME s.seek # None PROVE found \in RecoveryType /\ found # NoRecovery
    OBVIOUS
  <2>1. found \in RecoveryType
    BY <1>2, <1>3, <1>4, <1>7, <1>13 DEF RecoveryType
  <2>2. found.inode # NoRecovery.inode
    BY <1>3 DEF NoRecovery, Inodes, None
  <2> QED BY <2>1, <2>2
<1>15. events \subseteq EventType /\ \A x \in events : SoundEvent(x)
  <2> SUFFICES ASSUME NEW e \in s.events
               PROVE  event(e) \in EventType /\ SoundEvent(event(e))
    OBVIOUS
  <2>1. e \in ScanEvent /\ SoundEvent(e)
    BY <1>2 DEF ScanResult, ScanInv
  <2>2. e.id \in Nat /\ e.delta \in Nat \ {0} /\ e.before \in Nat /\ e.at \in Nat
        /\ e.covers \in SUBSET Nat
    BY <2>1 DEF ScanEvent
  <2>3. event(e) \in EventType
    BY <1>2, <1>3, <1>7, <2>2 DEF EventType
  <2>4. event(e).before = e.before /\ event(e).at = e.at /\ event(e).covers = e.covers
    OBVIOUS
  <2>5. SoundEvent(event(e))
    <3> HIDE DEF event
    <3> QED BY <2>1, <2>4 DEF SoundEvent
  <2> QED BY <2>3, <2>5
<1>16. recovery \in RecoveryType \cup {NoRecovery} /\ resolved \in BOOLEAN /\ backlog \in BOOLEAN
  <2> HIDE DEF found
  <2> QED BY <1>14
<1>17. SoundCheckpoint(cp)
  <2>1. cp.previous = s.previous /\ cp.raw = s.raw /\ cp.known = s.known /\ cp.prefix = prefix
    OBVIOUS
  <2> HIDE DEF cp
  <2> QED BY <1>6, <2>1 DEF SoundCheckpoint, ScanResult, ScanInv
<1>18. s.seek # None => s.raw = None
  BY DEF ScanResult, ScanInv
<1>19. found.anchor = search.anchor /\ found.inode = cp.inode /\ cp.raw = s.raw
       /\ cp.cycle = db.cycle + 1
  OBVIOUS
<1> HIDE DEF cp, range, allrows, found, events, backlog
<1>20. o \in OutcomeType
  <2> HIDE DEF recovery, resolved
  <2> QED BY <1>10, <1>11, <1>12, <1>15, <1>16 DEF OutcomeType
<1>21. /\ o.checkpoint = cp /\ o.recovery = recovery /\ o.resolved = resolved
       /\ o.events = events
  OBVIOUS
<1> HIDE DEF o
<1>22. o.resolved => o.recovery = NoRecovery
  BY <1>21
<1>23. o.recovery # NoRecovery => s.seek # None /\ o.recovery = found
  BY <1>21
<1>24. SoundOutcome(o)
  BY <1>13, <1>15, <1>17, <1>18, <1>19, <1>21, <1>22, <1>23 DEF SoundOutcome
<1>25. db.recovery # NoRecovery => o.resolved \/ o.recovery # NoRecovery
  BY <1>14, <1>21 DEF saved
<1> QED BY <1>1, <1>19, <1>20, <1>21, <1>24, <1>25

\* What run_cycle prepares: the outcome of the scan, with no more events.
LEMMA PreparedOutcome ==
    ASSUME Typed, SoundDb, Scannable, NEW p, p = OutcomeOf(Scan), NEW o, o = Admitted(p)
    PROVE  /\ p \in OutcomeType /\ o \in OutcomeType
           /\ o.checkpoint = p.checkpoint /\ o.range = p.range /\ o.rows = p.rows
           /\ o.recovery = p.recovery /\ o.resolved = p.resolved
           /\ o.events = {e \in p.events : \A d \in db.events : ~IsReplay(d, e)}
           /\ o.events \subseteq p.events
<1>0. ScanResult(Scan)
  BY ScanSound
<1>1. p \in OutcomeType
  BY <1>0, OutcomeSound
<1> DEFINE E == {e \in p.events : \A d \in db.events : ~IsReplay(d, e)}
<1>2. o = [p EXCEPT !.events = E]
  BY DEF Admitted
<1>3. E \subseteq p.events
  OBVIOUS
<1> HIDE DEF E
<1>4. /\ o \in OutcomeType /\ o.events = E
      /\ o.checkpoint = p.checkpoint /\ o.range = p.range /\ o.rows = p.rows
      /\ o.recovery = p.recovery /\ o.resolved = p.resolved
  BY <1>1, <1>2, <1>3 DEF OutcomeType
<1> QED BY <1>1, <1>3, <1>4 DEF E

-----------------------------------------------------------------------------
(* The writer.                                                              *)

Superseded(o, r) ==
    /\ r.inode = o.checkpoint.inode /\ r.start = o.range.start
    /\ \A t \in o.rows : t.start # o.range.start

\* An outcome is a record, so it is not the missing one.
LEMMA RealOutcome ==
    ASSUME NEW o \in OutcomeType
    PROVE  o # NoOutcome
<1>1. o.checkpoint.inode \in Inodes
  BY DEF OutcomeType, CheckpointType
<1>2. NoOutcome.checkpoint.inode = 0
  BY DEF NoOutcome, NoCheckpoint, None
<1> QED BY <1>1, <1>2 DEF Inodes

\* Nor is a cursor with a type the missing one.
LEMMA RealCheckpoint ==
    ASSUME NEW cp \in CheckpointType
    PROVE  cp # NoCheckpoint
<1>1. cp.inode \in Inodes
  BY DEF CheckpointType
<1>2. NoCheckpoint.inode = 0
  BY DEF NoCheckpoint, None
<1> QED BY <1>1, <1>2 DEF Inodes

\* What an accepted outcome leaves in the tables.
LEMMA AcceptFields ==
    ASSUME NEW d \in DbType, NEW o \in OutcomeType, NEW a, a = Accept(d, o)
    PROVE  /\ a \in DbType
           /\ a.epoch = d.epoch /\ a.cycle = d.cycle /\ a.generation = d.generation
           /\ a.checkpoints = d.checkpoints /\ a.ranges = d.ranges /\ a.complete = d.complete
           /\ a.events = d.events \cup o.events
           /\ a.recovery = IF o.recovery # NoRecovery THEN o.recovery
                           ELSE IF o.resolved THEN NoRecovery ELSE d.recovery
           /\ o.rows \subseteq a.rows
           /\ \A r \in a.rows \ o.rows : ~Superseded(o, r)
<1> DEFINE settled == IF o.resolved /\ d.recovery # NoRecovery
                      THEN [d EXCEPT !.recovery = NoRecovery, !.rows = @ \ {d.recovery.row}]
                      ELSE d
           rows == {r \in settled.rows : ~Superseded(o, r)} \cup o.rows
<1>1. a = [settled EXCEPT
             !.rows     = rows,
             !.recovery = IF o.recovery # NoRecovery THEN o.recovery ELSE @,
             !.events   = @ \cup o.events]
  BY DEF Accept, ReplaceRows, Superseded
<1>2. /\ settled \in DbType
      /\ settled.epoch = d.epoch /\ settled.cycle = d.cycle
      /\ settled.generation = d.generation /\ settled.checkpoints = d.checkpoints
      /\ settled.ranges = d.ranges /\ settled.complete = d.complete
      /\ settled.events = d.events
      /\ settled.recovery = IF o.resolved THEN NoRecovery ELSE d.recovery
  <2>1. CASE o.resolved /\ d.recovery # NoRecovery
    <3>1. settled = [d EXCEPT !.recovery = NoRecovery, !.rows = d.rows \ {d.recovery.row}]
      BY <2>1
    <3> HIDE DEF settled
    <3> QED BY <2>1, <3>1 DEF DbType
  <2>2. CASE ~(o.resolved /\ d.recovery # NoRecovery)
    <3>1. settled = d
      BY <2>2
    <3> HIDE DEF settled
    <3> QED BY <2>2, <3>1
  <2> QED BY <2>1, <2>2
<1>3. o.rows \subseteq RowType /\ o.events \subseteq EventType
      /\ o.recovery \in RecoveryType \cup {NoRecovery}
  BY DEF OutcomeType
<1> HIDE DEF settled
<1>4. rows \subseteq RowType
  BY <1>2, <1>3 DEF DbType
<1>5. o.rows \subseteq rows /\ \A r \in rows \ o.rows : ~Superseded(o, r)
  OBVIOUS
<1> HIDE DEF rows
<1>6. a \in DbType
  <2> DEFINE recovery == IF o.recovery # NoRecovery THEN o.recovery ELSE settled.recovery
             events == settled.events \cup o.events
  <2>1. recovery \in RecoveryType \cup {NoRecovery} /\ events \subseteq EventType
    BY <1>2, <1>3 DEF DbType
  <2>2. a = [settled EXCEPT !.rows = rows, !.recovery = recovery, !.events = events]
    BY <1>1
  <2> HIDE DEF recovery, events
  <2> QED BY <1>2, <1>4, <2>1, <2>2 DEF DbType
<1>7. /\ a.epoch = settled.epoch /\ a.cycle = settled.cycle
      /\ a.generation = settled.generation /\ a.checkpoints = settled.checkpoints
      /\ a.ranges = settled.ranges /\ a.complete = settled.complete
      /\ a.events = settled.events \cup o.events /\ a.rows = rows
      /\ a.recovery = IF o.recovery # NoRecovery THEN o.recovery ELSE settled.recovery
  BY <1>1, <1>2 DEF DbType
<1> QED BY <1>2, <1>5, <1>6, <1>7

\* Accepting what the tables already hold changes nothing.
LEMMA AcceptAgain ==
    ASSUME NEW d \in DbType, NEW o \in OutcomeType,
           o.events \subseteq d.events,
           o.recovery # NoRecovery => d.recovery = o.recovery,
           o.resolved => d.recovery = NoRecovery,
           o.rows \subseteq d.rows,
           \A r \in d.rows \ o.rows : ~Superseded(o, r)
    PROVE  Accept(d, o) = d
<1> DEFINE rows == {r \in d.rows : ~Superseded(o, r)} \cup o.rows
<1>1. Accept(d, o) = [d EXCEPT
             !.rows     = rows,
             !.recovery = IF o.recovery # NoRecovery THEN o.recovery ELSE @,
             !.events   = @ \cup o.events]
  BY DEF Accept, ReplaceRows, Superseded
<1>2. rows = d.rows
  <2>1. \A r \in o.rows : r \in d.rows
    OBVIOUS
  <2>2. \A r \in d.rows : r \in rows
    OBVIOUS
  <2>3. \A r \in rows : r \in d.rows
    BY <2>1
  <2> HIDE DEF rows
  <2> QED BY <2>2, <2>3
<1>3. d.events \cup o.events = d.events
  OBVIOUS
<1>4. (IF o.recovery # NoRecovery THEN o.recovery ELSE d.recovery) = d.recovery
  OBVIOUS
<1> HIDE DEF rows
<1>5. Accept(d, o) = [d EXCEPT !.rows = d.rows, !.recovery = d.recovery, !.events = d.events]
  BY <1>1, <1>2, <1>3, <1>4
<1> QED BY <1>5 DEF DbType

\* A batch of a new cycle, with an outcome.
LEMMA StoreFields ==
    ASSUME NEW d \in DbType, NEW b \in BatchType, ~Replayed(d, b),
           b.outcome # NoOutcome, NEW t, t = Store(d, b),
           NEW a, a = Accept(d, b.outcome)
    PROVE  /\ t \in DbType
           /\ t.epoch = b.epoch /\ t.cycle = b.cycle /\ t.complete = b.complete
           /\ t.checkpoints = [d.checkpoints EXCEPT
                                 ![b.outcome.checkpoint.inode] = b.outcome.checkpoint]
           /\ t.events = a.events /\ t.recovery = a.recovery /\ t.rows = a.rows
<1> DEFINE o == b.outcome
           cps == [d.checkpoints EXCEPT ![o.checkpoint.inode] = o.checkpoint]
<1>1. o \in OutcomeType /\ b.cycle \in Nat /\ b.epoch \in Nat /\ b.complete \in BOOLEAN
  BY DEF BatchType
<1>2. a \in DbType /\ a.checkpoints = d.checkpoints
  BY <1>1, AcceptFields
<1>3. t = [a EXCEPT !.epoch = b.epoch, !.cycle = b.cycle, !.generation = @ + 1,
                    !.complete = b.complete, !.checkpoints = cps,
                    !.ranges = @ \cup {o.range}]
  <2>1. o # NoOutcome /\ a = Accept(d, o)
    OBVIOUS
  <2>2. t = [a EXCEPT !.epoch = b.epoch, !.cycle = b.cycle, !.generation = @ + 1,
                      !.complete = b.complete,
                      !.checkpoints = IF o = NoOutcome THEN @
                                      ELSE [@ EXCEPT ![o.checkpoint.inode] = o.checkpoint],
                      !.ranges = IF o = NoOutcome THEN @ ELSE @ \cup {o.range}]
    BY <2>1 DEF Store
  <2> HIDE DEF o
  <2>3. (IF o = NoOutcome THEN a.checkpoints
         ELSE [a.checkpoints EXCEPT ![o.checkpoint.inode] = o.checkpoint]) = cps
    BY <1>2, <2>1
  <2>4. (IF o = NoOutcome THEN a.ranges ELSE a.ranges \cup {o.range}) = a.ranges \cup {o.range}
    BY <2>1
  <2> HIDE DEF cps
  <2> QED BY <2>2, <2>3, <2>4
<1>4. cps \in [Inodes -> CheckpointType \cup {NoCheckpoint}]
  <2>1. o.checkpoint \in CheckpointType
    BY <1>1 DEF OutcomeType
  <2>2. d.checkpoints \in [Inodes -> CheckpointType \cup {NoCheckpoint}]
    BY DEF DbType
  <2> HIDE DEF o
  <2> QED BY <2>1, <2>2
<1>5. o.range \in RangeType
  BY <1>1 DEF OutcomeType
<1> HIDE DEF o, cps
<1>6. t \in DbType
  <2> DEFINE g == a.generation + 1
             rs == a.ranges \cup {o.range}
  <2>1. g \in Nat /\ rs \subseteq RangeType
    BY <1>2, <1>5 DEF DbType
  <2>2. t = [a EXCEPT !.epoch = b.epoch, !.cycle = b.cycle, !.generation = g,
                      !.complete = b.complete, !.checkpoints = cps, !.ranges = rs]
    BY <1>3
  <2> HIDE DEF g, rs
  <2>3. [a EXCEPT !.epoch = b.epoch, !.cycle = b.cycle, !.generation = g] \in DbType
    BY <1>1, <1>2, <2>1 DEF DbType
  <2> DEFINE x == [a EXCEPT !.epoch = b.epoch, !.cycle = b.cycle, !.generation = g]
  <2>4. t = [x EXCEPT !.complete = b.complete, !.checkpoints = cps, !.ranges = rs]
    BY <2>2
  <2>5. x \in DbType
    BY <2>3
  <2> HIDE DEF x
  <2> QED BY <1>1, <1>4, <2>1, <2>4, <2>5 DEF DbType
<1>7. /\ t.epoch = b.epoch /\ t.cycle = b.cycle /\ t.checkpoints = cps
      /\ t.complete = b.complete
      /\ t.events = a.events /\ t.recovery = a.recovery /\ t.rows = a.rows
  BY <1>2, <1>3 DEF DbType
<1> QED BY <1>6, <1>7 DEF o, cps

\* A batch of a new cycle that leaves the source alone.
LEMMA StoreNothing ==
    ASSUME NEW d \in DbType, NEW b \in BatchType, ~Replayed(d, b),
           b.outcome = NoOutcome, NEW t, t = Store(d, b)
    PROVE  /\ t \in DbType
           /\ t.epoch = b.epoch /\ t.cycle = b.cycle /\ t.checkpoints = d.checkpoints
           /\ t.complete = b.complete
           /\ t.events = d.events /\ t.recovery = d.recovery /\ t.rows = d.rows
<1>1. b.cycle \in Nat /\ b.epoch \in Nat /\ b.complete \in BOOLEAN
  BY DEF BatchType
<1>2. t = [d EXCEPT !.epoch = b.epoch, !.cycle = b.cycle, !.generation = @ + 1,
                    !.complete = b.complete, !.checkpoints = d.checkpoints,
                    !.ranges = d.ranges]
  BY DEF Store
<1>3. t \in DbType
  <2> DEFINE g == d.generation + 1
  <2>1. g \in Nat
    BY DEF DbType
  <2>2. t = [d EXCEPT !.epoch = b.epoch, !.cycle = b.cycle, !.generation = g,
                      !.complete = b.complete, !.checkpoints = d.checkpoints,
                      !.ranges = d.ranges]
    BY <1>2
  <2> HIDE DEF g
  <2> QED BY <1>1, <2>1, <2>2 DEF DbType
<1>4. /\ t.epoch = b.epoch /\ t.cycle = b.cycle /\ t.checkpoints = d.checkpoints
      /\ t.complete = b.complete
      /\ t.events = d.events /\ t.recovery = d.recovery /\ t.rows = d.rows
  BY <1>2 DEF DbType
<1> QED BY <1>3, <1>4

\* A batch that is not replayed is recorded as the committed one.
LEMMA StoreNew ==
    ASSUME NEW d \in DbType, NEW b \in BatchType, ~Replayed(d, b)
    PROVE  Store(d, b).epoch = b.epoch /\ Store(d, b).cycle = b.cycle
<1> DEFINE o == b.outcome
           x == IF o = NoOutcome THEN d ELSE Accept(d, o)
           cps == IF o = NoOutcome THEN x.checkpoints
                  ELSE [x.checkpoints EXCEPT ![o.checkpoint.inode] = o.checkpoint]
           rs == IF o = NoOutcome THEN x.ranges ELSE x.ranges \cup {o.range}
<1>1. x \in DbType
  <2>1. o \in OutcomeType \cup {NoOutcome}
    BY DEF BatchType
  <2> HIDE DEF o
  <2> QED BY <2>1, AcceptFields
<1>2. Store(d, b) = [x EXCEPT !.epoch = b.epoch, !.cycle = b.cycle, !.generation = @ + 1,
                              !.complete = b.complete, !.checkpoints = cps, !.ranges = rs]
  BY DEF Store
<1> HIDE DEF x, cps, rs
<1> QED BY <1>1, <1>2 DEF DbType

\* A repeated commit stores what is stored.
LEMMA StoreReplayed ==
    ASSUME Typed, phase # "idle", SoundBatch, Replayed(db, batch)
    PROVE  Store(db, batch) = db
<1>1. batch.cycle # db.cycle + 1
  BY DEF Replayed, Typed, DbType
<1>2. batch.outcome # NoOutcome => Accept(db, batch.outcome) = db
  BY <1>1 DEF SoundBatch
<1> QED BY <1>2 DEF Store

-----------------------------------------------------------------------------
(* What the environment may do to sound tables and batches.                 *)

\* Records, seconds and intervals are only added, and an interval does not
\* end before a record that was already written.
Grows ==
    /\ Len(log') \in Nat /\ Len(log) <= Len(log') /\ DOMAIN log \subseteq DOMAIN log'
    /\ clock' \in Nat /\ clock <= clock'
    /\ \A x, y \in Nat :
           x <= clock /\ y <= clock /\ OwnedSpan(x, y) => OwnedSpan(x, y)'

LEMMA NothingGrows ==
    ASSUME Typed, UNCHANGED <<clock, log, intervals>>
    PROVE  Grows
<1>1. Len(log) \in Nat /\ clock \in Nat
  BY LogFacts
<1>2. \A x, y \in Nat : OwnedSpan(x, y) => OwnedSpan(x, y)'
  BY DEF OwnedSpan
<1> QED BY <1>1, <1>2 DEF Grows

\* Growth keeps charges, cursors and outcomes sound.
LEMMA GrowthKeeps ==
    ASSUME Typed, Grows
    PROVE  /\ \A e \in EventType : SoundEvent(e) => SoundEvent(e)'
           /\ \A cp \in CheckpointType : SoundCheckpoint(cp) => SoundCheckpoint(cp)'
           /\ \A o \in OutcomeType : SoundOutcome(o) => SoundOutcome(o)'
<1>1. /\ Len(log) \in Nat /\ Len(log') \in Nat /\ Len(log) <= Len(log')
      /\ clock \in Nat /\ clock' \in Nat /\ clock <= clock'
  BY LogFacts DEF Grows
<1>2. ASSUME NEW e \in EventType, SoundEvent(e) PROVE SoundEvent(e)'
  <2>1. e.before \in Nat /\ e.at \in Nat
    BY DEF EventType
  <2>2. e.before <= clock /\ e.at <= clock /\ e.covers \subseteq DOMAIN log
        /\ OwnedSpan(e.before, e.at)
    BY <1>2 DEF SoundEvent
  <2>3. OwnedSpan(e.before, e.at)'
    BY <2>1, <2>2 DEF Grows
  <2>4. e.covers \subseteq DOMAIN log'
    BY <2>2 DEF Grows
  <2>5. e.before <= clock' /\ e.at <= clock'
    BY <1>1, <2>1, <2>2
  <2> QED BY <2>3, <2>4, <2>5 DEF SoundEvent
<1>3. ASSUME NEW cp \in CheckpointType, SoundCheckpoint(cp) PROVE SoundCheckpoint(cp)'
  <2>1. cp.previous \in Nat /\ cp.raw \in Nat
    BY DEF CheckpointType
  <2> QED BY <1>1, <1>3, <2>1 DEF SoundCheckpoint
<1>4. ASSUME NEW o \in OutcomeType, SoundOutcome(o) PROVE SoundOutcome(o)'
  <2>1. o.events \subseteq EventType /\ o.checkpoint \in CheckpointType
        /\ o.recovery \in RecoveryType \cup {NoRecovery}
    BY DEF OutcomeType
  <2>2. \A e \in o.events : SoundEvent(e)'
    BY <1>2, <1>4, <2>1 DEF SoundOutcome
  <2>3. SoundCheckpoint(o.checkpoint)'
    BY <1>3, <1>4, <2>1 DEF SoundOutcome
  <2>4. o.recovery # NoRecovery => o.recovery.anchor \in Nat
    BY <2>1 DEF RecoveryType
  <2>5. o.recovery # NoRecovery => o.recovery.anchor <= Len(log')
    BY <1>1, <1>4, <2>4 DEF SoundOutcome
  <2> QED BY <1>4, <2>2, <2>3, <2>5 DEF SoundOutcome
<1> QED BY <1>2, <1>3, <1>4

\* The fields of the tables.
LEMMA DbFacts ==
    ASSUME Typed
    PROVE  /\ db \in DbType /\ db.cycle \in Nat /\ db.epoch \in Nat
           /\ db.checkpoints \in [Inodes -> CheckpointType \cup {NoCheckpoint}]
           /\ db.events \subseteq EventType
           /\ db.recovery \in RecoveryType \cup {NoRecovery}
           /\ (db.recovery # NoRecovery =>
                  db.recovery.anchor \in Nat /\ db.recovery.inode \in Inodes)
<1>1. db \in DbType
  BY DEF Typed
<1>2. db.recovery \in RecoveryType \cup {NoRecovery}
  BY <1>1 DEF DbType
<1>3. db.recovery # NoRecovery => db.recovery.anchor \in Nat /\ db.recovery.inode \in Inodes
  BY <1>2 DEF RecoveryType
<1> QED BY <1>1, <1>2, <1>3 DEF DbType

\* The tables stay sound while the environment grows, and over a restart.
LEMMA TablesKept ==
    ASSUME Typed, SoundDb, Grows, db' = db \/ db' = Reopened(db)
    PROVE  SoundDb' /\ db' \in DbType
<1> DEFINE d == db'
<1>1. /\ db \in DbType /\ db.cycle \in Nat /\ db.epoch \in Nat
      /\ db.checkpoints \in [Inodes -> CheckpointType \cup {NoCheckpoint}]
      /\ db.events \subseteq EventType
      /\ (db.recovery # NoRecovery => db.recovery.anchor \in Nat)
  BY DbFacts
<1>2. /\ d \in DbType /\ d.cycle \in Nat /\ db.cycle <= d.cycle
      /\ d.checkpoints = db.checkpoints /\ d.events = db.events /\ d.recovery = db.recovery
  <2>1. CASE d = db
    BY <1>1, <2>1
  <2>2. CASE d = [db EXCEPT !.cycle = @ + 1, !.generation = @ + 1]
    <3> DEFINE c == db.cycle + 1
               g == db.generation + 1
    <3>1. c \in Nat /\ g \in Nat /\ db.cycle <= c
      BY <1>1 DEF DbType
    <3>2. d = [db EXCEPT !.cycle = c, !.generation = g]
      BY <2>2
    <3> HIDE DEF c, g, d
    <3> QED BY <1>1, <3>1, <3>2 DEF DbType
  <2> QED BY <2>1, <2>2 DEF Reopened
<1>3. \A e \in d.events : SoundEvent(e)'
  BY <1>1, <1>2, GrowthKeeps DEF SoundDb
<1>4. ASSUME NEW i \in Inodes, d.checkpoints[i] # NoCheckpoint
      PROVE  SoundCheckpoint(db.checkpoints[i])' /\ d.checkpoints[i].cycle <= d.cycle
  <2>1. db.checkpoints[i] \in CheckpointType /\ SoundCheckpoint(db.checkpoints[i])
        /\ db.checkpoints[i].cycle <= db.cycle
    BY <1>2, <1>4, StoredCheckpoint
  <2>2. db.checkpoints[i].cycle \in Nat
    BY <2>1 DEF CheckpointType
  <2>3. \A cp \in CheckpointType : SoundCheckpoint(cp) => SoundCheckpoint(cp)'
    BY GrowthKeeps
  <2>4. d.checkpoints[i].cycle <= d.cycle
    BY <1>1, <1>2, <2>1, <2>2
  <2>5. ASSUME NEW cp, cp = d.checkpoints[i] PROVE SoundCheckpoint(cp)'
    BY <1>2, <2>1, <2>3, <2>5
  <2>6. SoundCheckpoint(db.checkpoints[i])'
    BY <2>5 DEF SoundCheckpoint
  <2> QED BY <2>4, <2>6
<1>5. d.recovery # NoRecovery =>
          /\ d.recovery.anchor <= Len(log')
          /\ d.checkpoints[d.recovery.inode] # NoCheckpoint
          /\ d.checkpoints[d.recovery.inode].raw = None
  <2>1. Len(log) \in Nat /\ Len(log') \in Nat /\ Len(log) <= Len(log')
    BY LogFacts DEF Grows
  <2> QED BY <1>1, <1>2, <2>1 DEF SoundDb
<1> QED BY <1>2, <1>3, <1>4, <1>5 DEF SoundDb

\* A pending batch stays sound while the environment grows.
LEMMA BatchKept ==
    ASSUME Typed, phase # "idle", SoundBatch, Grows, UNCHANGED <<batch, db>>
    PROVE  SoundBatch'
<1>1. batch.outcome \in OutcomeType \cup {NoOutcome}
  BY DEF Typed, BatchType
<1>2. batch.outcome # NoOutcome => SoundOutcome(batch.outcome)
  BY DEF SoundBatch
<1>3. ASSUME batch.outcome # NoOutcome PROVE SoundOutcome(batch.outcome)'
  <2>1. ASSUME NEW o, o = batch.outcome PROVE SoundOutcome(o)'
    BY <1>1, <1>2, <1>3, <2>1, GrowthKeeps
  <2> QED BY <2>1 DEF SoundOutcome
<1>4. batch.outcome # NoOutcome /\ Accept(db, batch.outcome) = db =>
          Accept(db', batch'.outcome) = db'
  OBVIOUS
<1> QED BY <1>3, <1>4 DEF SoundBatch, Replayed

\* A step of the environment, of the account or of the process.
LEMMA Kept ==
    ASSUME CollectionInv, Typed', Grows,
           \/ phase' = "idle" /\ (db' = db \/ db' = Reopened(db))
           \/ UNCHANGED <<phase, batch, db>>
    PROVE  CollectionInv'
<1>1. Typed /\ SoundDb /\ (phase # "idle" => SoundBatch)
  BY DEF CollectionInv
<1>2. SoundDb'
  BY <1>1, TablesKept
<1>3. phase' # "idle" => SoundBatch'
  BY <1>1, BatchKept
<1> QED BY <1>2, <1>3 DEF CollectionInv

-----------------------------------------------------------------------------
(* The steps.                                                               *)

LEMMA InitSound ==
    ASSUME Init
    PROVE  CollectionInv
<1>1. 1 \in Inodes /\ 1 \in 1..MaxTime
  BY SessionAssumption DEF Inodes
<1>2. log \in Seq(RecordType) /\ Len(log) = 0 /\ DOMAIN log = {}
  BY DEF Init
<1>3. file \in [inode : Inodes, ids : Seq(DOMAIN log)] /\ file.inode = 1
  BY <1>1 DEF Init
<1>4. intervals \in Seq([start : Nat, end : Nat]) /\ intervals # <<>>
  BY DEF Init, None
<1>5. db \in DbType
  <2> DEFINE cps == [i \in Inodes |-> NoCheckpoint]
  <2>1. cps \in [Inodes -> CheckpointType \cup {NoCheckpoint}]
    OBVIOUS
  <2>2. db = [epoch |-> 1, cycle |-> 0, generation |-> 0, checkpoints |-> cps,
              ranges |-> {}, rows |-> {}, recovery |-> NoRecovery,
              events |-> {}, complete |-> FALSE]
    BY DEF Init
  <2> HIDE DEF cps
  <2> QED BY <2>1, <2>2 DEF DbType
<1>6. clock \in 1..MaxTime /\ spent \in 0..MaxDisturbances /\ epoch \in Nat
      /\ ran \in BOOLEAN /\ phase = "idle" /\ batch = NoBatch /\ spent = 0
  <2>1. clock = 1 /\ spent = 0 /\ epoch = 1 /\ phase = "idle" /\ batch = NoBatch
    BY DEF Init
  <2>2. ran \in BOOLEAN
    BY DEF Init
  <2> QED BY <1>1, <2>1, <2>2, SessionAssumption
<1>7. Typed
  BY <1>2, <1>3, <1>4, <1>5, <1>6 DEF Typed
<1>8. SoundDb
  BY DEF Init, SoundDb
<1> QED BY <1>6, <1>7, <1>8 DEF CollectionInv

\* A new record.
LEMMA WriteSound ==
    ASSUME CollectionInv, NEW r \in RecordType, r.at = clock, Write(r)
    PROVE  CollectionInv'
<1>1. Typed
  BY DEF CollectionInv
<1>2. log \in Seq(RecordType) /\ Len(log) \in Nat /\ DOMAIN log = 1..Len(log)
      /\ clock \in 1..MaxTime /\ clock \in Nat
      /\ \A i \in DOMAIN log : log[i].at \in 1..clock
  BY <1>1, LogFacts
<1>3. log' = Append(log, r)
  BY DEF Write
<1>4. /\ log' \in Seq(RecordType) /\ Len(log') = Len(log) + 1
      /\ DOMAIN log' = 1..(Len(log) + 1)
      /\ \A i \in 1..Len(log) : log'[i] = log[i]
      /\ log'[Len(log) + 1] = r
  BY <1>2, <1>3
<1>5. DOMAIN log \subseteq DOMAIN log' /\ Len(log) + 1 \in DOMAIN log'
  BY <1>2, <1>4
<1>6. \A i \in DOMAIN log' : log'[i].at \in 1..clock
  <2> TAKE i \in DOMAIN log'
  <2>1. CASE i = Len(log) + 1
    BY <1>2, <1>4, <2>1
  <2>2. CASE i # Len(log) + 1
    <3>1. i \in 1..Len(log)
      BY <1>2, <1>4, <2>2
    <3> QED BY <1>2, <1>4, <3>1
  <2> QED BY <2>1, <2>2
<1>7. file' \in [inode : Inodes, ids : Seq(DOMAIN log')] /\ file'.inode = file.inode
  <2>1. file \in [inode : Inodes, ids : Seq(DOMAIN log)]
    BY <1>1 DEF Typed
  <2>2. file' = [file EXCEPT !.ids = Append(file.ids, Len(log) + 1)]
    BY DEF Write
  <2>3. Append(file.ids, Len(log) + 1) \in Seq(DOMAIN log')
    <3> DEFINE D == DOMAIN log'
    <3>1. file.ids \in Seq(D)
      BY <1>5, <2>1
    <3>2. Len(log) + 1 \in D
      BY <1>5
    <3> HIDE DEF D
    <3>3. Append(file.ids, Len(log) + 1) \in Seq(D)
      BY <3>1, <3>2
    <3> QED BY <3>3 DEF D
  <2> QED BY <2>1, <2>2, <2>3
<1>8. UNCHANGED <<clock, spent, intervals, epoch, phase, batch, ran, db>>
  BY DEF Write, process
<1>9. Typed'
  <2>1. Active' = Active
    BY <1>8 DEF Active
  <2>2. /\ file.inode <= spent + 1 /\ clock \in 1..MaxTime /\ spent \in 0..MaxDisturbances
        /\ intervals \in Seq([start : Nat, end : Nat]) /\ intervals # <<>>
        /\ epoch \in Nat /\ ran \in BOOLEAN /\ phase \in {"idle", "prepared", "retained"}
        /\ phase = "idle" => batch = NoBatch
        /\ phase # "idle" => batch \in BatchType /\ batch.cycle # 0 /\ Active
        /\ db \in DbType
    BY <1>1 DEF Typed
  <2> QED BY <1>4, <1>6, <1>7, <1>8, <2>1, <2>2 DEF Typed
<1>10. Grows
  <2>1. \A x, y \in Nat : OwnedSpan(x, y) => OwnedSpan(x, y)'
    BY <1>8 DEF OwnedSpan
  <2> QED BY <1>2, <1>4, <1>5, <1>8, <2>1 DEF Grows
<1> QED BY <1>8, <1>9, <1>10, Kept

\* The counter the writing program continues from.
LEMMA CounterFacts ==
    ASSUME Typed
    PROVE  Counter \in Nat /\ clock \in Nat
<1>1. CASE file.ids = <<>>
  BY <1>1, LogFacts DEF Counter
<1>2. CASE file.ids # <<>>
  <2>1. file.ids \in Seq(Nat) /\ DOMAIN file.ids = 1..Len(file.ids) /\ Len(file.ids) \in Nat
    BY FileFacts
  <2>2. Len(file.ids) \in DOMAIN file.ids
    BY <1>2, <2>1
  <2>3. log[file.ids[Len(file.ids)]] \in RecordType
    BY <2>2, RecordOfFile
  <2>4. Counter = log[file.ids[Len(file.ids)]].total
    BY <1>2 DEF Counter, Last
  <2> QED BY <2>3, <2>4, LogFacts DEF RecordType
<1> QED BY <1>1, <1>2

LEMMA AppendsSound ==
    ASSUME CollectionInv, AppendCount \/ AppendAdjust \/ AppendBad \/ AppendDrop
    PROVE  CollectionInv'
<1>1. Counter \in Nat /\ clock \in Nat /\ Window \in Nat
  BY CounterFacts, SessionAssumption DEF CollectionInv
<1>2. CASE AppendCount
  <2>1. PICK n \in {0, 1} : Write([kind |-> "count", at |-> clock, total |-> Counter + n, gain |-> n])
    BY <1>2 DEF AppendCount
  <2> DEFINE r == [kind |-> "count", at |-> clock, total |-> Counter + n, gain |-> n]
  <2>2. r \in RecordType /\ r.at = clock
    BY <1>1 DEF RecordType
  <2> HIDE DEF r
  <2> QED BY <2>1, <2>2, WriteSound DEF r
<1>3. CASE AppendAdjust
  <2> DEFINE r == [kind |-> "adjust", at |-> clock, total |-> Window, gain |-> 0]
  <2>1. Write(r)
    BY <1>3 DEF AppendAdjust
  <2>2. r \in RecordType /\ r.at = clock
    BY <1>1 DEF RecordType
  <2> HIDE DEF r
  <2> QED BY <2>1, <2>2, WriteSound
<1>4. CASE AppendBad
  <2> DEFINE r == [kind |-> "bad", at |-> clock, total |-> Counter + 1, gain |-> 1]
  <2>1. Write(r)
    BY <1>4 DEF AppendBad
  <2>2. r \in RecordType /\ r.at = clock
    BY <1>1 DEF RecordType
  <2> HIDE DEF r
  <2> QED BY <2>1, <2>2, WriteSound
<1>5. CASE AppendDrop
  <2> DEFINE r == [kind |-> "drop", at |-> clock, total |-> 1, gain |-> 1]
  <2>1. Write(r)
    BY <1>5 DEF AppendDrop
  <2>2. r \in RecordType /\ r.at = clock
    BY <1>1 DEF RecordType
  <2> HIDE DEF r
  <2> QED BY <2>1, <2>2, WriteSound
<1> QED BY <1>2, <1>3, <1>4, <1>5

\* A disturbance is counted.
LEMMA DisturbFacts ==
    ASSUME Typed, Disturb
    PROVE  spent' \in 0..MaxDisturbances /\ spent' = spent + 1
BY SessionAssumption DEF Typed, Disturb

LEMMA ReplaceSound ==
    ASSUME CollectionInv, Replace
    PROVE  CollectionInv'
<1>1. Typed
  BY DEF CollectionInv
<1>2. UNCHANGED <<clock, log, intervals, epoch, phase, batch, ran, db>>
  BY DEF Replace, process
<1>3. spent' \in 0..MaxDisturbances /\ spent' = spent + 1 /\ spent \in 0..MaxDisturbances
  BY <1>1, DisturbFacts DEF Replace, Typed
<1>4. PICK k \in 0..Len(file.ids), i \in {file.inode, file.inode + 1} :
          file' = [inode |-> i, ids |-> SubSeq(file.ids, 1, k)]
  BY DEF Replace
<1>5. /\ file.inode \in Inodes /\ file.ids \in Seq(DOMAIN log) /\ Len(file.ids) \in Nat
      /\ file.inode <= spent + 1
  BY <1>1, FileFacts DEF Typed
<1>6. i \in Inodes /\ i <= spent' + 1
  BY <1>3, <1>5, SessionAssumption DEF Inodes
<1>7. SubSeq(file.ids, 1, k) \in Seq(DOMAIN log)
  <2> DEFINE D == DOMAIN log
  <2>1. file.ids \in Seq(D)
    BY <1>5
  <2> HIDE DEF D
  <2>2. SubSeq(file.ids, 1, k) \in Seq(D)
    BY <1>5, <2>1
  <2> QED BY <2>2 DEF D
<1>8. file' \in [inode : Inodes, ids : Seq(DOMAIN log')] /\ file'.inode <= spent' + 1
  BY <1>2, <1>4, <1>6, <1>7
<1>9. Typed'
  <2>1. Active' = Active
    BY <1>2 DEF Active
  <2> QED BY <1>1, <1>2, <1>3, <1>8, <2>1 DEF Typed
<1> QED BY <1>1, <1>2, <1>9, NothingGrows, Kept

LEMMA TickSound ==
    ASSUME CollectionInv, Tick
    PROVE  CollectionInv'
<1>1. Typed
  BY DEF CollectionInv
<1>2. UNCHANGED <<log, file, spent, intervals, epoch, phase, batch, db>> /\ ran' = FALSE
      /\ clock' = clock + 1 /\ clock < MaxTime
  BY DEF Tick, env
<1>3. Len(log) \in Nat /\ clock \in 1..MaxTime /\ clock \in Nat
      /\ \A i \in DOMAIN log : log[i].at \in 1..clock
  BY <1>1, LogFacts
<1>4. clock' \in 1..MaxTime /\ clock' \in Nat /\ clock <= clock'
      /\ \A i \in DOMAIN log' : log'[i].at \in 1..clock'
  BY <1>2, <1>3, SessionAssumption
<1>5. Typed'
  <2>1. Active' = Active
    BY <1>2 DEF Active
  <2>2. /\ file \in [inode : Inodes, ids : Seq(DOMAIN log)] /\ file.inode <= spent + 1
        /\ spent \in 0..MaxDisturbances /\ log \in Seq(RecordType)
        /\ intervals \in Seq([start : Nat, end : Nat]) /\ intervals # <<>>
        /\ epoch \in Nat /\ phase \in {"idle", "prepared", "retained"}
        /\ phase = "idle" => batch = NoBatch
        /\ phase # "idle" => batch \in BatchType /\ batch.cycle # 0 /\ Active
        /\ db \in DbType
    BY <1>1 DEF Typed
  <2> QED BY <1>2, <1>4, <2>1, <2>2 DEF Typed
<1>6. Grows
  <2>1. \A x, y \in Nat : OwnedSpan(x, y) => OwnedSpan(x, y)'
    BY <1>2 DEF OwnedSpan
  <2>2. Len(log') \in Nat /\ Len(log) <= Len(log') /\ DOMAIN log \subseteq DOMAIN log'
    BY <1>2, <1>3
  <2> QED BY <1>4, <2>1, <2>2 DEF Grows
<1> QED BY <1>2, <1>5, <1>6, Kept

\* A cycle prepares a batch of the next cycle.
LEMMA PrepareSound ==
    ASSUME CollectionInv, PrepareSource \/ PrepareUnchanged \/ PrepareUnbound
    PROVE  CollectionInv'
<1>1. Typed /\ SoundDb
  BY DEF CollectionInv
<1>2. StartCycle /\ spent' \in 0..MaxDisturbances /\ spent <= spent'
      /\ spent \in 0..MaxDisturbances
  <2>1. spent \in 0..MaxDisturbances
    BY <1>1 DEF Typed
  <2>2. Disturb => spent' \in 0..MaxDisturbances /\ spent <= spent'
    BY <1>1, <2>1, DisturbFacts
  <2>3. StartCycle /\ (spent' = spent \/ Disturb)
    BY DEF PrepareSource, PrepareUnchanged, PrepareUnbound
  <2> QED BY <2>1, <2>2, <2>3
<1>3. Active /\ phase' = "prepared" /\ ran' = TRUE
      /\ UNCHANGED <<clock, log, file, intervals, epoch, db>>
  BY <1>2 DEF StartCycle
<1>4. \E o, u : /\ batch' = Batch(o, u)
                /\ \/ o = NoOutcome
                   \/ o = Admitted(OutcomeOf(Scan)) /\ Scannable
  BY DEF PrepareSource, PrepareUnchanged, PrepareUnbound, Outcomes
<1>5. PICK o, u : /\ batch' = Batch(o, u)
                  /\ \/ o = NoOutcome
                     \/ o = Admitted(OutcomeOf(Scan)) /\ Scannable
  BY <1>4
<1>6. \/ o = NoOutcome
      \/ /\ o \in OutcomeType /\ o # NoOutcome /\ SoundOutcome(o)
         /\ o.checkpoint.cycle = db.cycle + 1
         /\ db.recovery # NoRecovery => o.resolved \/ o.recovery # NoRecovery
  <2> SUFFICES ASSUME o = Admitted(OutcomeOf(Scan)), Scannable
               PROVE  /\ o \in OutcomeType /\ o # NoOutcome /\ SoundOutcome(o)
                      /\ o.checkpoint.cycle = db.cycle + 1
                      /\ db.recovery # NoRecovery => o.resolved \/ o.recovery # NoRecovery
    BY <1>5
  <2>1. ScanResult(Scan)
    BY <1>1, ScanSound
  <2>2. PICK p : p = OutcomeOf(Scan)
    OBVIOUS
  <2>3. /\ o \in OutcomeType /\ o.events \subseteq p.events /\ o.checkpoint = p.checkpoint
        /\ o.recovery = p.recovery /\ o.resolved = p.resolved
    BY <1>1, <2>2, PreparedOutcome
  <2>4. /\ SoundOutcome(p) /\ p.checkpoint.cycle = db.cycle + 1
        /\ db.recovery # NoRecovery => p.resolved \/ p.recovery # NoRecovery
    BY <1>1, <2>1, <2>2, OutcomeSound
  <2>5. SoundOutcome(o)
    BY <2>3, <2>4 DEF SoundOutcome
  <2> QED BY <2>3, <2>4, <2>5, RealOutcome
<1>7. batch' = [cycle |-> db.cycle + 1, epoch |-> epoch, outcome |-> o,
                complete |-> Complete(o, u)]
  BY <1>5 DEF Batch
<1>8. db.cycle \in Nat /\ epoch \in Nat /\ Complete(o, u) \in BOOLEAN /\ db \in DbType
  BY <1>1, DbFacts DEF Typed, Complete
<1>9. batch' \in BatchType /\ batch'.cycle = db.cycle + 1 /\ batch'.outcome = o
  BY <1>6, <1>7, <1>8 DEF BatchType
<1>10. batch'.cycle # 0
  BY <1>8, <1>9
<1>11. Typed'
  <2>1. Active'
    BY <1>3 DEF Active
  <2>2. /\ file \in [inode : Inodes, ids : Seq(DOMAIN log)] /\ file.inode <= spent + 1
        /\ clock \in 1..MaxTime /\ log \in Seq(RecordType)
        /\ \A i \in DOMAIN log : log[i].at \in 1..clock
        /\ intervals \in Seq([start : Nat, end : Nat]) /\ intervals # <<>>
    BY <1>1 DEF Typed
  <2>3. file.inode <= spent' + 1
    <3>1. file.inode \in Nat /\ spent \in Nat /\ spent' \in Nat
      BY <1>1, <1>2, FileFacts DEF Inodes
    <3> QED BY <1>2, <2>2, <3>1
  <2> QED BY <1>2, <1>3, <1>8, <1>9, <1>10, <2>1, <2>2, <2>3 DEF Typed
<1>12. Grows
  BY <1>1, <1>3, NothingGrows
<1>13. SoundDb'
  BY <1>1, <1>3, <1>12, TablesKept
<1>14. SoundBatch'
  <2>1. o # NoOutcome => SoundOutcome(o)'
    BY <1>1, <1>6, <1>12, GrowthKeeps
  <2>2. o # NoOutcome => SoundOutcome(batch.outcome)'
    BY <1>9, <2>1 DEF SoundOutcome
  <2> QED BY <1>3, <1>6, <1>9, <2>2 DEF SoundBatch
<1> QED BY <1>11, <1>13, <1>14 DEF CollectionInv

\* A transaction keeps the tables sound, and repeating it is a replay.
LEMMA StoreSound ==
    ASSUME CollectionInv, phase # "idle", db' = Store(db, batch),
           UNCHANGED <<clock, log, intervals>>
    PROVE  db' \in DbType /\ SoundDb' /\ (batch' = batch => SoundBatch')
<1>1. Typed /\ SoundDb /\ SoundBatch /\ batch \in BatchType
  BY DEF CollectionInv, Typed
<1>2. Grows
  BY <1>1, NothingGrows
<1>3. CASE Replayed(db, batch)
  <2>1. db' = db
    BY <1>1, <1>3, StoreReplayed
  <2> QED BY <1>1, <1>2, <2>1, TablesKept, BatchKept
<1>4. CASE ~Replayed(db, batch) /\ batch.outcome = NoOutcome
  <2>1. db \in DbType /\ db.cycle \in Nat /\ batch.cycle = db.cycle + 1
    BY <1>1, <1>4, DbFacts DEF SoundBatch
  <2>2. /\ db' \in DbType
        /\ db'.epoch = batch.epoch /\ db'.cycle = batch.cycle
        /\ db'.checkpoints = db.checkpoints
        /\ db'.events = db.events /\ db'.recovery = db.recovery
    BY <1>1, <1>4, <2>1, StoreNothing
  <2>3. \A e \in db'.events : SoundEvent(e)'
    BY <1>1, <1>2, <2>2, DbFacts, GrowthKeeps DEF SoundDb
  <2>4. ASSUME NEW i \in Inodes, db'.checkpoints[i] # NoCheckpoint
        PROVE  SoundCheckpoint(db.checkpoints[i])' /\ db'.checkpoints[i].cycle <= db'.cycle
    <3>1. db.checkpoints[i] \in CheckpointType /\ SoundCheckpoint(db.checkpoints[i])
          /\ db.checkpoints[i].cycle <= db.cycle
      BY <1>1, <2>2, <2>4, StoredCheckpoint
    <3>2. db.checkpoints[i].cycle \in Nat
      BY <3>1 DEF CheckpointType
    <3>3. db'.checkpoints[i].cycle <= db'.cycle
      BY <2>1, <2>2, <3>1, <3>2
    <3>4. SoundCheckpoint(db.checkpoints[i])'
      BY <2>2, <3>1 DEF SoundCheckpoint
    <3> QED BY <3>3, <3>4
  <2>5. SoundDb'
    BY <1>1, <2>2, <2>3, <2>4 DEF SoundDb
  <2>6. batch' = batch => SoundBatch'
    BY <1>4, <2>2 DEF SoundBatch, Replayed
  <2> QED BY <2>2, <2>5, <2>6
<1>5. CASE ~Replayed(db, batch) /\ batch.outcome # NoOutcome
  <2> DEFINE o == batch.outcome
             a == Accept(db, o)
  <2>1. db \in DbType /\ db.cycle \in Nat /\ batch.cycle = db.cycle + 1
        /\ (db.recovery # NoRecovery => o.resolved \/ o.recovery # NoRecovery)
    BY <1>1, <1>5, DbFacts DEF SoundBatch
  <2>2. o \in OutcomeType /\ SoundOutcome(o) /\ o.checkpoint.cycle = batch.cycle
    BY <1>1, <1>5 DEF SoundBatch, BatchType
  <2>3. o.checkpoint \in CheckpointType /\ o.checkpoint.inode \in Inodes
        /\ o.checkpoint # NoCheckpoint /\ o.events \subseteq EventType
    <3>1. o.checkpoint \in CheckpointType /\ o.events \subseteq EventType
      BY <2>2 DEF OutcomeType
    <3>2. o.checkpoint.inode \in Inodes
      BY <3>1 DEF CheckpointType
    <3> HIDE DEF o
    <3> QED BY <3>1, <3>2, RealCheckpoint
  <2>4. /\ a.events = db.events \cup o.events
        /\ a.recovery = IF o.recovery # NoRecovery THEN o.recovery
                        ELSE IF o.resolved THEN NoRecovery ELSE db.recovery
        /\ o.rows \subseteq a.rows
        /\ \A r \in a.rows \ o.rows : ~Superseded(o, r)
    <3>1. a = Accept(db, o)
      OBVIOUS
    <3> HIDE DEF a, o
    <3> QED BY <2>1, <2>2, <3>1, AcceptFields
  <2>5. /\ db' \in DbType
        /\ db'.epoch = batch.epoch /\ db'.cycle = batch.cycle
        /\ db'.checkpoints = [db.checkpoints EXCEPT ![o.checkpoint.inode] = o.checkpoint]
        /\ db'.events = a.events /\ db'.recovery = a.recovery /\ db'.rows = a.rows
    BY <1>1, <1>5, <2>1, StoreFields
  <2> HIDE DEF a, o
  <2>6. \A e \in db'.events : SoundEvent(e)'
    <3>1. \A e \in db.events \cup o.events : e \in EventType /\ SoundEvent(e)
      BY <1>1, <2>2, <2>3, DbFacts DEF SoundDb, SoundOutcome
    <3> QED BY <1>1, <1>2, <2>4, <2>5, <3>1, GrowthKeeps
  <2>7. db.checkpoints \in [Inodes -> CheckpointType \cup {NoCheckpoint}]
    BY <1>1, DbFacts
  <2>8. db'.checkpoints[o.checkpoint.inode] = o.checkpoint
        /\ \A i \in Inodes : i # o.checkpoint.inode => db'.checkpoints[i] = db.checkpoints[i]
    BY <2>3, <2>5, <2>7
  <2>9. ASSUME NEW i \in Inodes, db'.checkpoints[i] # NoCheckpoint
        PROVE  SoundCheckpoint(db.checkpoints[i])' /\ db'.checkpoints[i].cycle <= db'.cycle
    <3>1. CASE i = o.checkpoint.inode
      <4>1. SoundCheckpoint(o.checkpoint)
        BY <2>2 DEF SoundOutcome
      <4>2. db'.checkpoints[i] = o.checkpoint
        BY <2>8, <3>1
      <4>3. SoundCheckpoint(db.checkpoints[i])'
        BY <4>1, <4>2 DEF SoundCheckpoint
      <4> QED BY <2>1, <2>2, <2>5, <4>2, <4>3
    <3>2. CASE i # o.checkpoint.inode
      <4>1. db'.checkpoints[i] = db.checkpoints[i]
        BY <2>8, <3>2
      <4>2. db.checkpoints[i] \in CheckpointType /\ SoundCheckpoint(db.checkpoints[i])
            /\ db.checkpoints[i].cycle <= db.cycle
        BY <1>1, <2>9, <4>1, StoredCheckpoint
      <4>3. db.checkpoints[i].cycle \in Nat
        BY <4>2 DEF CheckpointType
      <4>4. SoundCheckpoint(db.checkpoints[i])'
        BY <4>1, <4>2 DEF SoundCheckpoint
      <4> QED BY <2>1, <2>5, <4>1, <4>2, <4>3, <4>4
    <3> QED BY <3>1, <3>2
  <2>10. db'.recovery # NoRecovery =>
             /\ db'.recovery.anchor <= Len(log')
             /\ db'.checkpoints[db'.recovery.inode] # NoCheckpoint
             /\ db'.checkpoints[db'.recovery.inode].raw = None
    <3> SUFFICES ASSUME db'.recovery # NoRecovery
                 PROVE  /\ db'.recovery.anchor <= Len(log')
                        /\ db'.checkpoints[db'.recovery.inode] # NoCheckpoint
                        /\ db'.checkpoints[db'.recovery.inode].raw = None
      OBVIOUS
    <3>1. o.recovery # NoRecovery /\ db'.recovery = o.recovery
      BY <2>1, <2>4, <2>5
    <3>2. o.recovery.anchor <= Len(log) /\ o.recovery.inode = o.checkpoint.inode
          /\ o.checkpoint.raw = None
      BY <2>2, <3>1 DEF SoundOutcome
    <3> QED BY <2>3, <2>8, <3>1, <3>2
  <2>11. SoundDb'
    BY <2>6, <2>9, <2>10 DEF SoundDb
  <2>12. Accept(db', o) = db'
    <3> DEFINE t == db'
    <3>1. /\ t \in DbType /\ o.events \subseteq t.events /\ o.rows \subseteq t.rows
          /\ o.recovery # NoRecovery => t.recovery = o.recovery
          /\ o.resolved => t.recovery = NoRecovery
          /\ \A r \in t.rows \ o.rows : ~Superseded(o, r)
      BY <2>2, <2>4, <2>5 DEF SoundOutcome
    <3> HIDE DEF t
    <3>2. Accept(t, o) = t
      BY <2>2, <3>1, AcceptAgain
    <3> QED BY <3>2 DEF t
  <2>13. batch' = batch => SoundBatch'
    <3> SUFFICES ASSUME batch' = batch PROVE SoundBatch'
      OBVIOUS
    <3>1. ASSUME NEW x, x = o PROVE SoundOutcome(x)'
      BY <1>1, <1>2, <2>2, <3>1, GrowthKeeps
    <3>2. SoundOutcome(batch.outcome)'
      BY <3>1 DEF SoundOutcome, o
    <3>3. Accept(db', batch'.outcome) = db'
      BY <2>12 DEF o
    <3> QED BY <2>2, <2>5, <3>2, <3>3 DEF SoundBatch, Replayed, o
  <2> QED BY <2>5, <2>11, <2>13
<1> QED BY <1>3, <1>4, <1>5

LEMMA CommitSound ==
    ASSUME CollectionInv, Commit \/ CommitFails \/ CommitRefused \/ DropChanged
    PROVE  CollectionInv'
<1>1. Typed /\ SoundDb /\ (phase # "idle" => SoundBatch)
  BY DEF CollectionInv
<1>2. phase # "idle"
  BY DEF Commit, CommitFails, CommitRefused, DropChanged, Attempt
<1>3. UNCHANGED <<clock, log, file, intervals, epoch, ran>>
  BY DEF Commit, CommitFails, CommitRefused, DropChanged, env
<1>4. spent \in 0..MaxDisturbances /\ spent' \in 0..MaxDisturbances /\ spent <= spent'
  <2>1. spent \in 0..MaxDisturbances
    BY <1>1 DEF Typed
  <2>2. Disturb => spent' \in 0..MaxDisturbances /\ spent <= spent'
    BY <1>1, <2>1, DisturbFacts
  <2>3. spent' = spent \/ Disturb
    BY DEF Commit, CommitFails, CommitRefused, DropChanged, env
  <2> QED BY <2>1, <2>2, <2>3
<1>5. \/ phase' = "idle" /\ batch' = NoBatch
      \/ phase' = "retained" /\ batch' = batch
  BY DEF Commit, CommitFails, CommitRefused, DropChanged, Forget
<1>6. db' = db \/ db' = Store(db, batch)
  BY DEF Commit, CommitFails, CommitRefused, DropChanged
<1>7. Grows
  BY <1>1, <1>3, NothingGrows
<1>8. db' \in DbType /\ SoundDb' /\ (batch' = batch => SoundBatch')
  <2>1. CASE db' = db
    BY <1>1, <1>2, <1>7, <2>1, TablesKept, BatchKept
  <2>2. CASE db' = Store(db, batch)
    BY <1>2, <1>3, <2>2, StoreSound
  <2> QED BY <1>6, <2>1, <2>2
<1>9. Typed'
  <2>1. Active' = Active
    BY <1>3 DEF Active
  <2>2. /\ file \in [inode : Inodes, ids : Seq(DOMAIN log)] /\ file.inode <= spent + 1
        /\ clock \in 1..MaxTime /\ log \in Seq(RecordType)
        /\ \A i \in DOMAIN log : log[i].at \in 1..clock
        /\ intervals \in Seq([start : Nat, end : Nat]) /\ intervals # <<>>
        /\ epoch \in Nat /\ ran \in BOOLEAN
        /\ batch \in BatchType /\ batch.cycle # 0 /\ Active
    BY <1>1, <1>2 DEF Typed
  <2>3. file.inode <= spent' + 1
    <3>1. file.inode \in Nat /\ spent \in Nat /\ spent' \in Nat
      BY <1>1, <1>4, FileFacts DEF Inodes
    <3> QED BY <1>4, <2>2, <3>1
  <2> QED BY <1>3, <1>4, <1>5, <1>8, <2>1, <2>2, <2>3 DEF Typed
<1> QED BY <1>5, <1>8, <1>9 DEF CollectionInv

\* The account and the process.
LEMMA AccountSound ==
    ASSUME CollectionInv, Kill \/ Leave \/ Return
    PROVE  CollectionInv'
<1>1. Typed /\ SoundDb
  BY DEF CollectionInv
<1>2. /\ db \in DbType /\ db.epoch \in Nat
      /\ intervals \in Seq([start : Nat, end : Nat]) /\ intervals # <<>>
      /\ Len(intervals) \in Nat /\ DOMAIN intervals = 1..Len(intervals)
      /\ \A k \in DOMAIN intervals : intervals[k].start \in Nat /\ intervals[k].end \in Nat
      /\ clock \in Nat /\ clock \in 1..MaxTime /\ Len(log) \in Nat
  BY <1>1, DbFacts, IntervalFacts, LogFacts
<1>3. UNCHANGED <<clock, log, file, ran>>
  BY DEF Kill, Leave, Return, env, process
<1>4. spent \in 0..MaxDisturbances /\ spent' \in 0..MaxDisturbances /\ spent <= spent'
  <2>1. spent \in 0..MaxDisturbances
    BY <1>1 DEF Typed
  <2>2. Disturb => spent' \in 0..MaxDisturbances /\ spent <= spent'
    BY <1>1, <2>1, DisturbFacts
  <2>3. spent' = spent \/ Disturb
    BY DEF Kill, Leave, Return, env
  <2> QED BY <2>1, <2>2, <2>3
<1>5. phase' = "idle" /\ batch' = NoBatch
  <2>1. ~Active => phase = "idle" /\ batch = NoBatch
    BY <1>1 DEF Typed
  <2> QED BY <2>1 DEF Kill, Leave, Return, Forget, process
<1>6. db' = db \/ db' = Reopened(db)
  BY DEF Kill, Leave, Return, TakeOver
<1>7. epoch' \in Nat
  <2>1. epoch \in Nat
    BY <1>1 DEF Typed
  <2> QED BY <1>2, <2>1 DEF Kill, Leave, Return
<1>8. /\ intervals' \in Seq([start : Nat, end : Nat]) /\ intervals' # <<>>
      /\ \A x, y \in Nat : x <= clock /\ y <= clock /\ OwnedSpan(x, y) => OwnedSpan(x, y)'
  <2>1. CASE Kill
    <3>1. intervals' = intervals
      BY <2>1 DEF Kill
    <3> QED BY <1>2, <3>1 DEF OwnedSpan
  <2>2. CASE Leave
    <3> DEFINE n == Len(intervals)
               Interval == [start : Nat, end : Nat]
    <3>1. intervals' = [intervals EXCEPT ![n].end = clock] /\ n \in DOMAIN intervals
      BY <1>2, <2>2 DEF Leave
    <3>2. intervals' = [intervals EXCEPT ![n] = [intervals[n] EXCEPT !.end = clock]]
      BY <3>1
    <3>3. intervals[n] \in Interval
      <4>1. intervals \in Seq(Interval)
        BY <1>2
      <4> HIDE DEF Interval, n
      <4> QED BY <3>1, <4>1
    <3>4. [intervals[n] EXCEPT !.end = clock] \in Interval
      BY <1>2, <3>3
    <3>5. intervals' \in Seq(Interval) /\ Len(intervals') = n /\ DOMAIN intervals' = 1..n
      <4>1. intervals \in Seq(Interval)
        BY <1>2
      <4> DEFINE v == [intervals[n] EXCEPT !.end = clock]
      <4> HIDE DEF Interval, v
      <4> QED BY <1>2, <3>1, <3>2, <3>4, <4>1 DEF v
    <3>6. \A k \in DOMAIN intervals :
             /\ intervals'[k].start = intervals[k].start
             /\ intervals'[k].end = intervals[k].end \/ intervals'[k].end = clock
      <4> TAKE k \in DOMAIN intervals
      <4>1. CASE k = n
        BY <3>2, <3>3, <4>1
      <4>2. CASE k # n
        BY <3>2, <4>2
      <4> QED BY <4>1, <4>2
    <3>7. ASSUME NEW x \in Nat, NEW y \in Nat, x <= clock, y <= clock, OwnedSpan(x, y)
          PROVE  OwnedSpan(x, y)'
      <4>1. PICK k \in DOMAIN intervals :
               /\ x >= intervals[k].start /\ y >= intervals[k].start
               /\ intervals[k].end # None => x <= intervals[k].end /\ y <= intervals[k].end
        BY <3>7 DEF OwnedSpan
      <4>2. k \in DOMAIN intervals'
        BY <1>2, <3>5
      <4>3. /\ x >= intervals'[k].start /\ y >= intervals'[k].start
            /\ intervals'[k].end # None => x <= intervals'[k].end /\ y <= intervals'[k].end
        BY <3>6, <3>7, <4>1
      <4> QED BY <4>2, <4>3 DEF OwnedSpan
    <3> QED BY <1>2, <3>5, <3>7
  <2>3. CASE Return
    <3> DEFINE n == Len(intervals)
               Interval == [start : Nat, end : Nat]
               v == [start |-> clock, end |-> None]
    <3>1. intervals' = Append(intervals, v)
      BY <2>3 DEF Return
    <3>2. v \in Interval
      BY <1>2 DEF None
    <3>3. intervals' \in Seq(Interval) /\ Len(intervals') = n + 1
          /\ \A k \in DOMAIN intervals : k \in DOMAIN intervals' /\ intervals'[k] = intervals[k]
      <4>1. intervals \in Seq(Interval)
        BY <1>2
      <4> HIDE DEF Interval, v
      <4> QED BY <1>2, <3>1, <3>2, <4>1
    <3>4. \A x, y \in Nat : OwnedSpan(x, y) => OwnedSpan(x, y)'
      BY <3>3 DEF OwnedSpan
    <3>5. intervals' # <<>>
      BY <1>2, <3>3
    <3> QED BY <3>3, <3>4, <3>5
  <2> QED BY <2>1, <2>2, <2>3
<1>9. Grows
  <2>1. Len(log') \in Nat /\ Len(log) <= Len(log') /\ DOMAIN log \subseteq DOMAIN log'
        /\ clock' \in Nat /\ clock <= clock'
    BY <1>2, <1>3
  <2> QED BY <1>8, <2>1 DEF Grows
<1>10. SoundDb' /\ db' \in DbType
  BY <1>1, <1>6, <1>9, TablesKept
<1>11. Typed'
  <2>1. /\ file \in [inode : Inodes, ids : Seq(DOMAIN log)] /\ file.inode <= spent + 1
        /\ log \in Seq(RecordType) /\ ran \in BOOLEAN
        /\ \A i \in DOMAIN log : log[i].at \in 1..clock
    BY <1>1 DEF Typed
  <2>2. file.inode <= spent' + 1
    <3>1. file.inode \in Nat /\ spent \in Nat /\ spent' \in Nat
      BY <1>1, <1>4, FileFacts DEF Inodes
    <3> QED BY <1>4, <2>1, <3>1
  <2> QED BY <1>2, <1>3, <1>4, <1>5, <1>7, <1>8, <1>10, <2>1, <2>2 DEF Typed
<1> QED BY <1>5, <1>10, <1>11 DEF CollectionInv

LEMMA StepSound ==
    ASSUME CollectionInv, [Next]_vars
    PROVE  CollectionInv'
<1>1. CASE UNCHANGED vars
  <2>1. UNCHANGED <<clock, log, file, spent, intervals, epoch, phase, batch, ran, db>>
    BY <1>1 DEF vars, env, process
  <2>2. Typed /\ Typed'
    <3>1. Typed
      BY DEF CollectionInv
    <3>2. Active' = Active
      BY <2>1 DEF Active
    <3> QED BY <2>1, <3>1, <3>2 DEF Typed
  <2>3. Grows
    BY <2>1, <2>2, NothingGrows
  <2> QED BY <2>1, <2>2, <2>3, Kept
<1>2. CASE Next
  BY <1>2, AppendsSound, ReplaceSound, TickSound, PrepareSound, CommitSound, AccountSound
     DEF Next
<1> QED BY <1>1, <1>2

\* In every reachable state the tables and the pending batch are sound:
\* cursors point at accepted records, an open search has no counter to
\* charge from, and a batch is new or already stored.
THEOREM CollectionIsSound == Spec => []CollectionInv
<1>1. Init => CollectionInv
  BY InitSound
<1>2. CollectionInv /\ [Next]_vars => CollectionInv'
  BY StepSound
<1> QED BY <1>1, <1>2, PTL DEF Spec

\* Types: no charge is empty or negative, and a pending batch exists exactly
\* while a commit is outstanding.
THEOREM TypesAreKept == Spec => []TypeOK
<1>1. ASSUME CollectionInv PROVE TypeOK
  <2>1. Typed /\ SoundDb
    BY <1>1 DEF CollectionInv
  <2>2. clock \in 1..MaxTime
        /\ \A i \in DOMAIN log : log[i].at \in 1..clock /\ log[i].total \in Nat
    BY <2>1, LogFacts DEF RecordType
  <2>3. file.inode \in Inodes /\ file.ids \in Seq(DOMAIN log)
    BY <2>1, FileFacts
  <2>4. phase \in {"idle", "prepared", "retained"} /\ (phase = "idle" <=> batch = NoBatch)
    BY <2>1 DEF Typed, NoBatch
  <2>5. db.complete \in BOOLEAN
    BY <2>1 DEF Typed, DbType
  <2>6. \A e \in db.events : e.delta \in Nat \ {0} /\ e.covers \subseteq DOMAIN log
    BY <2>1, DbFacts DEF SoundDb, SoundEvent, EventType
  <2> QED BY <2>2, <2>3, <2>4, <2>5, <2>6 DEF TypeOK
<1> QED BY <1>1, CollectionIsSound, PTL

\* Both counters of every charge lie in one interval in which the account
\* owned the profile, however late they were read and committed.
THEOREM ChargesAreOwned == Spec => []OwnedOnly
<1>1. ASSUME CollectionInv PROVE OwnedOnly
  BY <1>1 DEF CollectionInv, SoundDb, SoundEvent, OwnedSpan, OwnedOnly
<1> QED BY <1>1, CollectionIsSound, PTL

\* A commit of a cycle that is already committed leaves every table as it
\* is, whatever happened between the two attempts.
THEOREM ReplayIsIdempotent == Spec => ReplayChangesNothing
<1>1. ASSUME CollectionInv, [Next]_vars, db'.epoch = db.epoch, db'.cycle = db.cycle
      PROVE  db' = db
  <2>1. Typed /\ db \in DbType /\ db.cycle \in Nat /\ (phase # "idle" => SoundBatch)
    BY <1>1, DbFacts DEF CollectionInv
  <2>2. \/ db' = db
        \/ db' = Reopened(db)
        \/ db' = Store(db, batch) /\ phase # "idle"
    <3>1. CASE UNCHANGED vars
      BY <3>1 DEF vars
    <3>2. CASE Next
      BY <3>2 DEF Next, AppendCount, AppendAdjust, AppendBad, AppendDrop, Write, Replace, Tick,
         PrepareSource, PrepareUnchanged, PrepareUnbound, StartCycle, Commit, CommitFails,
         CommitRefused, DropChanged, Attempt, Kill, Leave, Return, TakeOver
    <3> QED BY <1>1, <3>1, <3>2
  <2>3. CASE db' = Reopened(db)
    <3>1. CASE db.cycle = 0
      BY <2>3, <3>1 DEF Reopened
    <3>2. CASE db.cycle # 0
      <4>1. db' = [db EXCEPT !.cycle = @ + 1, !.generation = @ + 1]
        BY <2>3, <3>2 DEF Reopened
      <4>2. db'.cycle = db.cycle + 1
        BY <2>1, <4>1 DEF DbType
      <4> QED BY <1>1, <2>1, <4>2
    <3> QED BY <3>1, <3>2
  <2>4. CASE db' = Store(db, batch) /\ phase # "idle"
    <3>1. batch \in BatchType
      BY <2>1, <2>4 DEF Typed
    <3>2. CASE Replayed(db, batch)
      BY <2>1, <2>4, <3>2, StoreReplayed
    <3>3. CASE ~Replayed(db, batch)
      <4>1. db'.epoch = batch.epoch /\ db'.cycle = batch.cycle
        BY <2>1, <2>4, <3>1, <3>3, StoreNew
      <4> QED BY <1>1, <3>3, <4>1 DEF Replayed
    <3> QED BY <3>2, <3>3
  <2> QED BY <2>2, <2>3, <2>4
<1>2. CollectionInv /\ [Next]_vars =>
          [(db'.epoch = db.epoch /\ db'.cycle = db.cycle) => db' = db]_vars
  BY <1>1
<1> QED BY <1>2, CollectionIsSound, PTL DEF Spec, ReplayChangesNothing

-----------------------------------------------------------------------------
(* Charged at most once: the scan.                                          *)

\* Nothing is charged that is charged already: while the saved counter is
\* searched for nothing is charged at all, and afterwards every charge lies
\* behind the counter that is compared.
ScanLedger(s) ==
    /\ \A e \in s.events : e.covers \cap Charged = {}
    /\ \A e, d \in s.events : e # d => e.covers \cap d.covers = {}
    /\ s.seek # None => s.events = {} /\ (Charged # {} => Frontier(Charged, s.seek))
    /\ s.seek = None /\ Charged \cup Covered(s.events) # {} =>
           s.known /\ s.raw # None /\ Frontier(Charged \cup Covered(s.events), s.previous)

\* The records of a difference lie behind its first counter.
LEMMA BetweenBehind ==
    ASSUME Typed, FileInv, NEW q \in DOMAIN file.ids, NEW p \in DOMAIN file.ids
    PROVE  \A c \in Between(file.ids[q], file.ids[p]) :
               c \in Nat /\ file.ids[q] < c /\ c <= file.ids[p]
<1> DEFINE at(id) == CHOOSE x \in DOMAIN file.ids : file.ids[x] = id
<1>1. /\ at(file.ids[q]) \in DOMAIN file.ids /\ file.ids[at(file.ids[q])] = file.ids[q]
      /\ at(file.ids[p]) \in DOMAIN file.ids /\ file.ids[at(file.ids[p])] = file.ids[p]
  OBVIOUS
<1>2. Between(file.ids[q], file.ids[p]) =
          {file.ids[x] : x \in (at(file.ids[q]) + 1)..at(file.ids[p])}
  BY DEF Between
<1> DEFINE a == at(file.ids[q])
           b == at(file.ids[p])
<1>3. a \in DOMAIN file.ids /\ b \in DOMAIN file.ids
      /\ file.ids[a] = file.ids[q] /\ file.ids[b] = file.ids[p]
      /\ Between(file.ids[q], file.ids[p]) = {file.ids[x] : x \in (a + 1)..b}
  BY <1>1, <1>2
<1> HIDE DEF a, b, at
<1>4. Len(file.ids) \in Nat /\ DOMAIN file.ids = 1..Len(file.ids)
  BY FileFacts
<1>5. ASSUME NEW x \in (a + 1)..b
      PROVE  file.ids[x] \in Nat /\ file.ids[a] < file.ids[x] /\ file.ids[x] <= file.ids[b]
  <2>1. x \in DOMAIN file.ids /\ a < x /\ (x < b \/ x = b)
    BY <1>3, <1>4
  <2>2. file.ids[x] \in Nat /\ file.ids[b] \in Nat
    BY <1>3, <2>1, RecordOfFile
  <2>3. file.ids[a] < file.ids[x]
    BY <1>3, <2>1 DEF FileInv
  <2>4. x < b => file.ids[x] < file.ids[b]
    BY <1>3, <2>1 DEF FileInv
  <2> QED BY <2>1, <2>2, <2>3, <2>4
<1> QED BY <1>3, <1>5

\* A later counter of the file is a frontier if an earlier one is.
LEMMA FrontierMoves ==
    ASSUME Typed, FileInv, NEW C, C \subseteq Nat,
           NEW q \in DOMAIN file.ids, NEW p \in DOMAIN file.ids, q < p,
           Frontier(C, file.ids[q])
    PROVE  Frontier(C, file.ids[p])
<1>1. file.ids[q] < file.ids[p] /\ log[file.ids[p]].total > 0
  BY DEF FileInv, Frontier
<1>2. file.ids[p] \in DOMAIN log /\ file.ids[q] \in Nat /\ file.ids[p] \in Nat
  BY RecordOfFile
<1>3. \A c \in C : c <= file.ids[p]
  BY <1>1, <1>2 DEF Frontier
<1> QED BY <1>1, <1>2, <1>3 DEF Frontier

\* What the tables charge are records.
LEMMA ChargedWritten ==
    ASSUME Typed
    PROVE  Charged \subseteq Nat
<1>1. \A e \in db.events : e.covers \subseteq Nat
  BY DbFacts DEF EventType
<1> QED BY <1>1 DEF Charged

\* What a scan charges are records.
LEMMA CoveredWritten ==
    ASSUME NEW s \in ScanType
    PROVE  Covered(s.events) \subseteq Nat
<1>1. \A e \in s.events : e.covers \subseteq Nat
  BY DEF ScanType, ScanEvent
<1> QED BY <1>1 DEF Covered

\* One record keeps charges apart, whatever its kind and owner.
LEMMA ScanRecordLedger ==
    ASSUME Typed, FileInv, OneAdjustment, NEW p \in DOMAIN file.ids,
           NEW s, ScanInv(s, p - 1), ScanLedger(s), NEW from
    PROVE  ScanLedger(ScanRecord(s, p, from))
<1> DEFINE id == file.ids[p]
           t == ScanRecord(s, p, from)
           C == Charged \cup Covered(s.events)
<1>1. /\ id \in DOMAIN log /\ id \in Nat \ {0} /\ log[id] \in RecordType
      /\ p \in Nat \ {0} /\ p <= Len(file.ids)
  BY RecordOfFile
<1>2. s \in ScanType /\ s.events \subseteq ScanEvent
  BY DEF ScanInv, ScanType
<1>3. C \subseteq Nat
  BY <1>2, ChargedWritten, CoveredWritten
<1>4. s.seek = None /\ C # {} => Frontier(C, s.previous) /\ s.known /\ s.raw # None
  BY DEF ScanLedger
<1>5. ASSUME s.raw # None
      PROVE  \E q \in DOMAIN file.ids : q < p /\ file.ids[q] = s.previous
  <2>1. PICK q \in 1..(p - 1) : file.ids[q] = s.previous
    BY <1>5 DEF ScanInv
  <2>2. q \in DOMAIN file.ids /\ q < p
    BY <1>1, <2>1, FileFacts
  <2> QED BY <2>1, <2>2
<1>6. s.seek = None /\ C # {} => Frontier(C, id)
  <2> SUFFICES ASSUME s.seek = None, C # {} PROVE Frontier(C, id)
    OBVIOUS
  <2>1. PICK q \in DOMAIN file.ids : q < p /\ file.ids[q] = s.previous
    BY <1>4, <1>5
  <2>2. Frontier(C, file.ids[q])
    BY <1>4, <2>1
  <2> HIDE DEF C
  <2> QED BY <1>3, <2>1, <2>2, FrontierMoves
<1>7. ASSUME t.events = s.events, t.known = s.known, t.previous = s.previous,
             t.raw = s.raw, t.seek = s.seek
      PROVE  ScanLedger(t)
  <2> HIDE DEF t
  <2> QED BY <1>7 DEF ScanLedger
<1>8. ASSUME s.seek = None, t.seek = None, t.events = s.events,
             t.known = TRUE, t.previous = id, t.raw = id
      PROVE  ScanLedger(t)
  <2> HIDE DEF t
  <2>1. t.raw # None
    BY <1>1, <1>8 DEF None
  <2>2. C = Charged \cup Covered(t.events)
    BY <1>8
  <2> HIDE DEF C, id
  <2> QED BY <1>6, <1>8, <2>1, <2>2 DEF ScanLedger
<1>9. ASSUME s.seek # None, t = Seek(s, id) PROVE ScanLedger(t)
  <2> HIDE DEF t
  <2>0. s.events = {} /\ (Charged # {} => Frontier(Charged, s.seek))
    BY <1>9 DEF ScanLedger
  <2>1. CASE SameCounter(id, s.seek)
    <3>1. /\ t.known = TRUE /\ t.previous = id /\ t.raw = id
          /\ t.seek = None /\ t.events = {}
      BY <1>2, <1>9, <2>0, <2>1 DEF Seek, Baseline, ScanType
    <3>2. Charged # {} => id = s.seek
      <4> SUFFICES ASSUME Charged # {} PROVE id = s.seek
        OBVIOUS
      <4>1. s.seek \in DOMAIN log /\ log[s.seek].total > 0
        BY <2>0 DEF Frontier
      <4> HIDE DEF id
      <4>2. log[id].total = 0 /\ log[s.seek].total = 0 => FALSE
        BY <4>1
      <4>3. log[id].kind = "adjust" /\ log[s.seek].kind = "adjust" => id = s.seek
        BY <1>1, <4>1 DEF OneAdjustment
      <4> QED BY <2>1, <4>2, <4>3 DEF SameCounter
    <3>3. Charged \cup Covered(t.events) = Charged
      BY <3>1 DEF Covered
    <3>4. t.raw # None
      BY <1>1, <3>1 DEF None
    <3> HIDE DEF id
    <3> QED BY <2>0, <3>1, <3>2, <3>3, <3>4 DEF ScanLedger
  <2>2. CASE ~SameCounter(id, s.seek)
    <3>1. t.seek = s.seek /\ t.events = {}
      BY <1>2, <1>9, <2>0, <2>2 DEF Seek, ScanType
    <3> QED BY <1>9, <2>0, <3>1 DEF ScanLedger
  <2> QED BY <2>1, <2>2
<1>10. ASSUME s.seek = None, OwnedPair(s, id, from), t = Charge(s, id)
       PROVE  ScanLedger(t)
  <2> DEFINE delta == log[id].total - log[s.previous].total
             event == [id |-> id, delta |-> delta, before |-> log[s.raw].at, at |-> log[id].at,
                       covers |-> Between(s.previous, id)]
  <2>1. PICK q \in DOMAIN file.ids : q < p /\ file.ids[q] = s.previous
    BY <1>5, <1>10 DEF OwnedPair
  <2>2. s.previous \in DOMAIN log /\ s.previous \in Nat /\ log[s.previous] \in RecordType
    BY <2>1, RecordOfFile
  <2>3. t = [Baseline(s, id) EXCEPT !.events = IF delta > 0 THEN @ \cup {event} ELSE @]
    BY <1>10 DEF Charge
  <2>4. event.covers = Between(s.previous, id)
    OBVIOUS
  <2>5. \A c \in Between(s.previous, id) : c \in Nat /\ s.previous < c /\ c <= id
    BY <2>1, BetweenBehind
  <2>6. delta > 0 => log[id].total > 0
    <3>1. log[id].total \in Nat /\ log[s.previous].total \in Nat
      BY <1>1, <2>2 DEF RecordType
    <3> QED BY <3>1
  <2> HIDE DEF t, delta, event
  <2>7. /\ t.known = TRUE /\ t.previous = id /\ t.raw = id /\ t.seek = None
        /\ t.events = IF delta > 0 THEN s.events \cup {event} ELSE s.events
    BY <1>2, <1>10, <2>3 DEF Baseline, ScanType
  <2>8. CASE ~(delta > 0)
    BY <1>8, <1>10, <2>7, <2>8
  <2>9. CASE delta > 0
    <3>1. t.events = s.events \cup {event}
      BY <2>7, <2>9
    <3>2. \A c \in C : c <= s.previous
      BY <1>4, <1>10 DEF Frontier
    <3>3. event.covers \cap C = {}
      <4> SUFFICES ASSUME NEW c \in event.covers, c \in C PROVE FALSE
        OBVIOUS
      <4>1. c \in Nat /\ s.previous < c
        BY <2>4, <2>5
      <4>2. c <= s.previous
        BY <3>2
      <4> QED BY <2>2, <4>1, <4>2
    <3>4. \A e \in s.events : e.covers \subseteq C
      BY DEF Covered
    <3>5. Charged \cup Covered(t.events) = C \cup event.covers
      BY <3>1 DEF Covered
    <3>6. Frontier(C \cup event.covers, id)
      <4>0. q < p /\ file.ids[q] < file.ids[p]
        BY <2>1 DEF FileInv
      <4>1. s.previous < id
        BY <2>1, <4>0
      <4> HIDE DEF id, C
      <4>2. \A c \in C : c <= id
        BY <1>1, <1>3, <2>2, <3>2, <4>1
      <4>3. \A c \in event.covers : c <= id
        BY <2>4, <2>5
      <4> QED BY <1>1, <2>6, <2>9, <4>2, <4>3 DEF Frontier
    <3>7. \A e \in t.events : e.covers \cap Charged = {}
      BY <3>1, <3>3 DEF ScanLedger
    <3>8. \A e, d \in t.events : e # d => e.covers \cap d.covers = {}
      <4>1. \A e \in s.events : e.covers \cap event.covers = {} /\ event.covers \cap e.covers = {}
        BY <3>3, <3>4
      <4> HIDE DEF C
      <4> QED BY <3>1, <4>1 DEF ScanLedger
    <3>9. t.raw # None
      BY <1>1, <2>7 DEF None
    <3> HIDE DEF C, id
    <3> QED BY <2>7, <3>5, <3>6, <3>7, <3>8, <3>9 DEF ScanLedger
  <2> QED BY <2>8, <2>9
<1>11. \/ t = Reject(s, p)
       \/ s.seek # None /\ t = Seek(s, id)
       \/ s.seek = None /\ t = Baseline(s, id)
       \/ s.seek = None /\ t = Reject(Baseline(s, id), p)
       \/ s.seek = None /\ OwnedPair(s, id, from) /\ t = Charge(s, id)
  BY DEF ScanRecord, Unowned
<1> HIDE DEF t, id
<1>12. ASSUME t = Reject(s, p) PROVE ScanLedger(t)
  BY <1>2, <1>7, <1>12 DEF Reject, ScanType
<1>13. ASSUME s.seek = None /\ t = Baseline(s, id) PROVE ScanLedger(t)
  <2>1. t.seek = None /\ t.events = s.events /\ t.known = TRUE /\ t.previous = id /\ t.raw = id
    BY <1>2, <1>13 DEF Baseline, ScanType
  <2> QED BY <1>8, <1>13, <2>1
<1>14. ASSUME s.seek = None /\ t = Reject(Baseline(s, id), p) PROVE ScanLedger(t)
  <2>1. t.seek = None /\ t.events = s.events /\ t.known = TRUE /\ t.previous = id /\ t.raw = id
    BY <1>2, <1>14 DEF Reject, Baseline, ScanType
  <2> QED BY <1>8, <1>14, <2>1
<1>15. ScanLedger(t)
  BY <1>9, <1>10, <1>11, <1>12, <1>13, <1>14
<1> QED BY <1>15 DEF t


\* A pass over the records n + 1 to m keeps charges apart.
LEMMA PassLedger ==
    ASSUME Typed, FileInv, OneAdjustment,
           NEW n \in Nat, NEW m \in Nat, n <= m, m <= Len(file.ids),
           NEW s, ScanInv(s, n), ScanLedger(s), NEW from
    PROVE  ScanLedger(Pass(s, n, m, from))
<1>0. PICK f : IsPass(f, s, n, m, from)
  BY PassEquation
<1>1. /\ f[0] = s
      /\ \A k \in 1..(m - n) : f[k] = ScanRecord(f[k - 1], n + k, from)
      /\ Pass(s, n, m, from) = f[m - n]
  BY <1>0 DEF IsPass
<1> DEFINE Good(k) == ScanInv(f[k], n + k) /\ ScanLedger(f[k])
           Bad == {k \in 0..(m - n) : ~Good(k)}
<1>2. Good(0)
  BY <1>1
<1>3. ASSUME NEW k \in 1..(m - n), Good(k - 1) PROVE Good(k)
  <2>1. n + k \in DOMAIN file.ids
    BY DEF Typed
  <2>2. (n + k) - 1 = n + (k - 1)
    OBVIOUS
  <2>3. ScanInv(f[k - 1], (n + k) - 1) /\ ScanLedger(f[k - 1])
    BY <1>3, <2>2
  <2>4. ScanInv(f[k], n + k)
    BY <1>1, <2>1, <2>3, ScanRecordSound
  <2>5. ScanLedger(f[k])
    BY <1>1, <2>1, <2>3, ScanRecordLedger
  <2> QED BY <2>4, <2>5
<1> HIDE DEF Good
<1>4. Bad = {}
  <2> SUFFICES ASSUME Bad # {} PROVE FALSE
    OBVIOUS
  <2>0. Bad \subseteq Nat
    OBVIOUS
  <2>1. PICK k \in Bad : \A j \in Bad : k <= j
    <3> HIDE DEF Bad
    <3> QED BY <2>0, LeastExists
  <2>2. k \in 1..(m - n)
    BY <1>2
  <2>3. Good(k - 1)
    BY <2>1, <2>2
  <2> QED BY <1>3, <2>2, <2>3
<1>5. Good(m - n)
  BY <1>4
<1> QED BY <1>1, <1>5 DEF Good

\* The inode collected last.
Top(i) == i \in Inodes /\ Stored(i) /\ \A j \in Inodes : Stored(j) => j <= i

\* prior_checkpoint finds the cursor of the inode collected last.
LEMMA PriorIsTop ==
    ASSUME Typed, SoundDb, OrderInv
    PROVE  \/ Prior = NoCheckpoint /\ \A i \in Inodes : ~Stored(i)
           \/ Prior # NoCheckpoint /\ \E i \in Inodes : Top(i) /\ Prior = db.checkpoints[i]
<1>1. CASE Stored(file.inode)
  <2>1. Top(file.inode)
    BY <1>1, FileFacts DEF Top, OrderInv
  <2>2. Prior = db.checkpoints[file.inode] /\ Prior # NoCheckpoint
    BY <1>1 DEF Prior, Stored
  <2> QED BY <2>1, <2>2, FileFacts
<1>2. CASE ~Stored(file.inode)
  <2>1. \/ Prior = NoCheckpoint /\ \A i \in Inodes : ~Stored(i)
        \/ \E i \in Inodes : /\ Stored(i) /\ Prior = db.checkpoints[i]
                             /\ \A j \in Inodes : Stored(j) =>
                                    db.checkpoints[j].cycle <= db.checkpoints[i].cycle
    BY <1>2, PriorStored DEF Stored
  <2>2. ASSUME NEW i \in Inodes, Stored(i),
               \A j \in Inodes : Stored(j) =>
                   db.checkpoints[j].cycle <= db.checkpoints[i].cycle
        PROVE  Top(i)
    <3>1. ASSUME NEW j \in Inodes, Stored(j) PROVE j <= i
      <4>1. db.checkpoints[i] \in CheckpointType /\ db.checkpoints[j] \in CheckpointType
        BY <2>2, <3>1, StoredCheckpoint DEF Stored
      <4>2. db.checkpoints[i].cycle \in Nat /\ db.checkpoints[j].cycle \in Nat
        BY <4>1 DEF CheckpointType
      <4>3. i < j => db.checkpoints[i].cycle < db.checkpoints[j].cycle
        BY <2>2, <3>1 DEF OrderInv
      <4> QED BY <2>2, <3>1, <4>2, <4>3 DEF Inodes
    <3> QED BY <2>2, <3>1 DEF Top
  <2> QED BY <2>1, <2>2 DEF Stored
<1> QED BY <1>1, <1>2

\* The cursor and the search of the tables lie behind what is charged.
LEMMA PriorBehind ==
    ASSUME Typed, SoundDb, OrderInv, LedgerDb, Charged # {}
    PROVE  /\ Prior # NoCheckpoint
           /\ db.recovery # NoRecovery => Frontier(Charged, db.recovery.anchor)
           /\ db.recovery = NoRecovery =>
                  Prior.known /\ Prior.raw # None /\ Frontier(Charged, Prior.previous)
<1>1. PICK i \in Inodes : Top(i) /\ Prior = db.checkpoints[i] /\ Prior # NoCheckpoint
  BY PriorIsTop DEF LedgerDb
<1>2. Behind(Charged, db.checkpoints[i], db.recovery)
  BY <1>1 DEF LedgerDb, Top
<1> QED BY <1>1, <1>2 DEF Behind

\* A scan that may run starts behind what is charged.
LEMMA StartLedger ==
    ASSUME Typed, SoundDb, OrderInv, LedgerDb, Scannable,
           NEW n, NEW m \in Nat, NEW s, IsStart(s, n, m)
    PROVE  ScanLedger(s)
<1> DEFINE resumed == Prior # NoCheckpoint /\ Resumable(Prior)
           anchor  == Anchor(Prior, resumed, db.recovery)
           origin  == AtOrigin(anchor, resumed, Prior)
           base == [known    |-> resumed /\ Prior.known,
                    previous |-> IF resumed THEN Prior.previous ELSE None,
                    raw      |-> IF resumed THEN Prior.raw ELSE None,
                    full     |-> IF resumed THEN Prior.full ELSE Prior = NoCheckpoint,
                    seek     |-> anchor.id, matched |-> anchor.full,
                    rows     |-> {}, events |-> {},
                    resumed  |-> resumed, first |-> 0, last |-> 0]
<1>1. s = [Start EXCEPT !.first = n, !.last = m]
  BY DEF IsStart
<1>2. Start = IF origin
              THEN [base EXCEPT !.known = TRUE, !.previous = anchor.id, !.full = TRUE, !.seek = None]
              ELSE base
  BY DEF Start, StartScan
<1>3. origin => log[anchor.id].total = 0
  BY DEF AtOrigin
<1>4. Charged # {} =>
          /\ ~origin
          /\ anchor.id # None => Frontier(Charged, anchor.id)
          /\ anchor.id = None =>
                 /\ resumed /\ Prior.known /\ Prior.raw # None
                 /\ Frontier(Charged, Prior.previous)
  <2> SUFFICES ASSUME Charged # {}
               PROVE  /\ ~origin
                      /\ anchor.id # None => Frontier(Charged, anchor.id)
                      /\ anchor.id = None =>
                             /\ resumed /\ Prior.known /\ Prior.raw # None
                             /\ Frontier(Charged, Prior.previous)
    OBVIOUS
  <2>0. /\ Prior # NoCheckpoint
        /\ db.recovery # NoRecovery => Frontier(Charged, db.recovery.anchor)
        /\ db.recovery = NoRecovery =>
               Prior.known /\ Prior.raw # None /\ Frontier(Charged, Prior.previous)
    BY PriorBehind
  <2>1. \A f : Frontier(Charged, f) => f # None /\ log[f].total # 0
    <3>1. \A f \in DOMAIN log : f # None
      BY LogFacts DEF None
    <3> QED BY <3>1 DEF Frontier
  <2>2. \/ anchor.id # None /\ Frontier(Charged, anchor.id)
        \/ /\ anchor.id = None /\ resumed /\ Prior.known /\ Prior.raw # None
           /\ Frontier(Charged, Prior.previous)
    <3>1. CASE db.recovery # NoRecovery
      <4>1. anchor.id = db.recovery.anchor
        BY <3>1 DEF Anchor
      <4> QED BY <2>0, <2>1, <3>1, <4>1
    <3>2. CASE db.recovery = NoRecovery /\ ~resumed
      <4>1. anchor.id = IF Prior.known THEN Prior.previous ELSE None
        BY <2>0, <3>2 DEF Anchor
      <4> QED BY <2>0, <2>1, <3>2, <4>1
    <3>3. CASE db.recovery = NoRecovery /\ resumed
      <4>1. anchor = [id |-> None, full |-> FALSE]
        BY <3>3 DEF Anchor
      <4>2. anchor.id = None
        BY <4>1
      <4> QED BY <2>0, <3>3, <4>2
    <3> QED BY <3>1, <3>2, <3>3
  <2>3. origin => anchor.id # None
    BY DEF AtOrigin
  <2> HIDE DEF anchor, origin, resumed
  <2> QED BY <1>3, <2>1, <2>2, <2>3
<1> HIDE DEF resumed, anchor, origin
<1>5. /\ s.events = {}
      /\ ~origin => /\ s.seek = anchor.id
                    /\ s.raw = IF resumed THEN Prior.raw ELSE None
                    /\ s.previous = IF resumed THEN Prior.previous ELSE None
                    /\ s.known = (resumed /\ Prior.known)
  BY <1>1, <1>2
<1>6. Charged \cup Covered(s.events) = Charged
  BY <1>5 DEF Covered
<1>7. CASE Charged = {}
  BY <1>5, <1>6, <1>7 DEF ScanLedger
<1>8. CASE Charged # {}
  <2>1. /\ s.seek # None => Frontier(Charged, s.seek)
        /\ s.seek = None => s.known /\ s.raw # None /\ Frontier(Charged, s.previous)
    BY <1>4, <1>5, <1>8
  <2> QED BY <1>5, <1>6, <2>1 DEF ScanLedger
<1> QED BY <1>7, <1>8

\* scan_source charges apart from the tables.
LEMMA ScanKeepsLedger ==
    ASSUME Typed, SoundDb, FileInv, OneAdjustment, OrderInv, LedgerDb, Scannable
    PROVE  ScanLedger(Scan)
<1> DEFINE resumed == Prior # NoCheckpoint /\ Resumable(Prior)
           n == IF resumed THEN Len(Prior.prefix) ELSE 0
           m == n + Min({Chunk, Len(file.ids) - n})
           from == IF resumed THEN EligibleFrom(Prior) ELSE clock
           s == [Start EXCEPT !.first = n, !.last = m]
<1>1. Scan = Pass(s, n, m, from)
  BY DEF Scan, Start
<1>2. Len(file.ids) \in Nat
  BY FileFacts
<1>3. n \in Nat /\ n <= Len(file.ids)
  <2>1. resumed => Prior.prefix \in Seq(Nat)
    BY PriorStored DEF CheckpointType
  <2> QED BY <1>2, <2>1 DEF Resumable
<1>4. n = IF Prior # NoCheckpoint /\ Resumable(Prior) THEN Len(Prior.prefix) ELSE 0
  OBVIOUS
<1> HIDE DEF resumed, n
<1>5. m \in Nat /\ n <= m /\ m <= Len(file.ids)
  BY <1>2, <1>3, ChunkBound
<1>6. s = [Start EXCEPT !.first = n, !.last = m]
  OBVIOUS
<1> HIDE DEF m, s, from
<1>7. IsStart(s, n, m)
  BY <1>4, <1>6 DEF IsStart
<1>8. ScanInv(s, n)
  BY <1>5, <1>7, StartSound
<1>9. ScanLedger(s)
  BY <1>5, <1>7, StartLedger
<1> QED BY <1>1, <1>3, <1>5, <1>8, <1>9, PassLedger

\* E are the charges S, with what identifies their source.
SameAmounts(E, S) ==
    \E g : /\ E = {g[e] : e \in S} /\ g = [e \in S |-> g[e]]
          /\ \A e \in S : g[e].id = e.id /\ g[e].delta = e.delta /\ g[e].covers = e.covers

\* The part of an outcome the ledger depends on.
LEMMA OutcomeFields ==
    ASSUME Typed, NEW s, NEW o, o = OutcomeOf(s)
    PROVE  /\ o.checkpoint.inode = file.inode
           /\ o.checkpoint.known = s.known /\ o.checkpoint.raw = s.raw
           /\ o.checkpoint.previous = s.previous
           /\ s.seek = None => o.recovery = NoRecovery
           /\ s.seek # None =>
                  /\ o.recovery # NoRecovery
                  /\ o.recovery.anchor =
                        IF db.recovery # NoRecovery THEN db.recovery.anchor ELSE s.seek
           /\ \A x, y \in o.events : \E e, d \in s.events :
                  x.covers = e.covers /\ y.covers = d.covers /\ (x # y => e # d)
           /\ o.checkpoint.prefix = SubSeq(file.ids, 1, s.last)
           /\ SameAmounts(o.events, s.events)
<1> DEFINE prior   == Prior
           saved   == db.recovery
           start   == IF s.resumed THEN s.first + 1 ELSE 0
           prefix  == SubSeq(file.ids, 1, s.last)
           lineage == IF s.resumed THEN prior.lineage ELSE <<epoch, file.inode, prefix>>
           bound   == IF s.resumed THEN prior.bound ELSE clock
           missing == Row(lineage, 0, prefix, "anchor")
           rows    == {Row(lineage, p, <<file.ids[p]>>, "record") : p \in s.rows}
                        \cup (IF s.seek # None /\ saved = NoRecovery THEN {missing} ELSE {})
           search  == IF saved # NoRecovery THEN saved
                      ELSE [anchor |-> s.seek, full |-> prior.full, row |-> missing]
           full    == (s.full \/ ~s.resumed) /\ rows = {}
           origin  == (s.resumed /\ prior.origin) \/ CreatedHere(bound)
           cp      == [inode |-> file.inode, lineage |-> lineage, epoch |-> epoch,
                       cycle |-> db.cycle + 1, prefix |-> prefix,
                       known |-> s.known, previous |-> s.previous, raw |-> s.raw,
                       full  |-> full, bound |-> bound, origin |-> origin]
           range   == [lineage |-> lineage, start |-> start, end |-> s.last + 1,
                       ids |-> SubSeq(file.ids, s.first + 1, s.last)]
           allrows == rows \cup
                      (IF s.seek # None /\ saved # NoRecovery THEN {saved.row} ELSE {})
           found   == [inode |-> file.inode, epoch |-> epoch, lineage |-> lineage,
                       offset |-> s.last + 1, anchor |-> search.anchor,
                       full |-> search.full, row |-> search.row]
           recovery == IF s.seek = None THEN NoRecovery ELSE found
           resolved == saved # NoRecovery /\ s.seek = None
           backlog == s.last < Len(file.ids)
           event(e) == [inode |-> file.inode, lineage |-> lineage, start |-> start,
                        end |-> s.last + 1, id |-> e.id, delta |-> e.delta,
                        before |-> e.before, at |-> e.at, covers |-> e.covers]
           events  == {event(e) : e \in s.events}
<1>1. o = [checkpoint |-> cp, range |-> range, rows |-> allrows, recovery |-> recovery,
           resolved |-> resolved, backlog |-> backlog, events |-> events]
  BY DEF OutcomeOf
<1>2. search.anchor = IF saved # NoRecovery THEN saved.anchor ELSE s.seek
  <2> HIDE DEF missing, prior, saved
  <2> QED OBVIOUS
<1> HIDE DEF prior, start, prefix, lineage, bound, missing, rows, search, full, origin, range, allrows,
             resolved, backlog
<1>3. /\ cp.inode = file.inode /\ cp.known = s.known /\ cp.raw = s.raw
      /\ cp.previous = s.previous /\ found.anchor = search.anchor /\ cp.prefix = prefix
  OBVIOUS
<1>4. \A e \in s.events :
          event(e).id = e.id /\ event(e).covers = e.covers /\ event(e).delta = e.delta
  OBVIOUS
<1>5. found # NoRecovery
  <2>1. found.inode \in Inodes /\ NoRecovery.inode = 0
    BY FileFacts DEF NoRecovery, None
  <2> HIDE DEF found
  <2> QED BY <2>1 DEF Inodes
<1> HIDE DEF event, cp, found
<1>6. \A x, y \in events : \E e, d \in s.events :
          x.covers = e.covers /\ y.covers = d.covers /\ (x # y => e # d)
  <2> TAKE x, y \in events
  <2>1. PICK e \in s.events : x = event(e)
    OBVIOUS
  <2>2. PICK d \in s.events : y = event(d)
    OBVIOUS
  <2> HIDE DEF events
  <2> QED BY <1>4, <2>1, <2>2
<1>7. SameAmounts(events, s.events)
  <2> DEFINE g == [e \in s.events |-> event(e)]
  <2>1. \A e \in s.events : g[e] = event(e)
    OBVIOUS
  <2>2. g = [e \in s.events |-> g[e]]
    OBVIOUS
  <2> HIDE DEF g
  <2>3. events = {g[e] : e \in s.events}
    BY <2>1
  <2>4. \A e \in s.events : g[e].id = e.id /\ g[e].delta = e.delta /\ g[e].covers = e.covers
    BY <1>4, <2>1
  <2> HIDE DEF events
  <2> QED BY <2>2, <2>3, <2>4 DEF SameAmounts
<1> HIDE DEF events
<1>8. o.checkpoint = cp /\ o.recovery = recovery /\ o.events = events
  BY <1>1
<1>9. o.checkpoint.prefix = SubSeq(file.ids, 1, s.last)
  BY <1>3, <1>8 DEF prefix
<1> QED BY <1>2, <1>3, <1>5, <1>6, <1>7, <1>8, <1>9

\* What run_cycle prepares charges apart from the tables, and the next
\* charge will start behind it.
LEMMA OutcomeLedger ==
    ASSUME Typed, SoundDb, FileInv, OneAdjustment, OrderInv, LedgerDb, Scannable,
           NEW o, o = OutcomeOf(Scan)
    PROVE  /\ o.checkpoint.inode = file.inode
           /\ \A e, d \in o.events : e # d => e.covers \cap d.covers = {}
           /\ Covered(o.events) \cap Charged = {}
           /\ Behind(Charged \cup Covered(o.events), o.checkpoint, o.recovery)
<1> DEFINE s == Scan
<1>0. o = OutcomeOf(s)
  OBVIOUS
<1>1. ScanResult(s) /\ ScanLedger(s)
  BY ScanSound, ScanKeepsLedger
<1> HIDE DEF s
<1>2. /\ o.checkpoint.inode = file.inode
      /\ o.checkpoint.known = s.known /\ o.checkpoint.raw = s.raw
      /\ o.checkpoint.previous = s.previous
      /\ s.seek = None => o.recovery = NoRecovery
      /\ s.seek # None =>
             /\ o.recovery # NoRecovery
             /\ o.recovery.anchor =
                   IF db.recovery # NoRecovery THEN db.recovery.anchor ELSE s.seek
      /\ \A x, y \in o.events : \E e, d \in s.events :
             x.covers = e.covers /\ y.covers = d.covers /\ (x # y => e # d)
  BY <1>0, OutcomeFields
<1>3. \A e, d \in o.events : e # d => e.covers \cap d.covers = {}
  <2> SUFFICES ASSUME NEW x \in o.events, NEW y \in o.events, x # y
               PROVE  x.covers \cap y.covers = {}
    OBVIOUS
  <2>1. PICK e, d \in s.events :
            x.covers = e.covers /\ y.covers = d.covers /\ (x # y => e # d)
    BY <1>2
  <2>2. e.covers \cap d.covers = {}
    BY <1>1, <2>1 DEF ScanLedger
  <2> QED BY <2>1, <2>2
<1>4. \A x \in o.events : \E e \in s.events : x.covers = e.covers
  BY <1>2
<1>5. Covered(o.events) \subseteq Covered(s.events)
  BY <1>4 DEF Covered
<1>6. Covered(o.events) \cap Charged = {}
  <2>1. \A x \in o.events : x.covers \cap Charged = {}
    BY <1>1, <1>4 DEF ScanLedger
  <2> QED BY <2>1 DEF Covered
<1>7. Behind(Charged \cup Covered(o.events), o.checkpoint, o.recovery)
  <2> SUFFICES ASSUME Charged \cup Covered(o.events) # {}
               PROVE  IF o.recovery # NoRecovery
                      THEN Frontier(Charged \cup Covered(o.events), o.recovery.anchor)
                      ELSE /\ o.checkpoint.known /\ o.checkpoint.raw # None
                           /\ Frontier(Charged \cup Covered(o.events), o.checkpoint.previous)
    BY DEF Behind
  <2>1. CASE s.seek = None
    <3>1. s.known /\ s.raw # None /\ Frontier(Charged \cup Covered(s.events), s.previous)
      BY <1>1, <1>5, <2>1 DEF ScanLedger
    <3>2. Frontier(Charged \cup Covered(o.events), s.previous)
      BY <1>5, <3>1 DEF Frontier
    <3> QED BY <1>2, <2>1, <3>1, <3>2
  <2>2. CASE s.seek # None
    <3>1. s.events = {} /\ (Charged # {} => Frontier(Charged, s.seek))
      BY <1>1, <2>2 DEF ScanLedger
    <3>2. Covered(s.events) = {}
      BY <3>1 DEF Covered
    <3>3. Charged \cup Covered(o.events) = Charged /\ Charged # {}
      BY <1>5, <3>2
    <3>4. db.recovery # NoRecovery => Frontier(Charged, db.recovery.anchor)
      BY <3>3, PriorBehind
    <3>5. Frontier(Charged, o.recovery.anchor)
      BY <1>2, <2>2, <3>1, <3>3, <3>4
    <3> QED BY <1>2, <2>2, <3>3, <3>5
  <2> QED BY <2>1, <2>2
<1> QED BY <1>2, <1>3, <1>6, <1>7

-----------------------------------------------------------------------------
(* Charged at most once: the steps.                                         *)

\* Records are only added.
LogKept ==
    /\ DOMAIN log \subseteq DOMAIN log'
    /\ \A i \in DOMAIN log : log'[i] = log[i]

\* Without a second adjustment afterwards there was none before.
LEMMA AdjustmentKept ==
    ASSUME LogKept, OneAdjustment'
    PROVE  OneAdjustment
BY DEF LogKept, OneAdjustment

\* A step that leaves cursors, charges and search as they are.
LEMMA LedgerKept ==
    ASSUME LedgerInv, Typed, Typed', LogKept, FileInv', file.inode <= file'.inode,
           db'.checkpoints = db.checkpoints, db'.events = db.events, db'.recovery = db.recovery,
           \/ phase' = "idle"
           \/ phase # "idle" /\ UNCHANGED <<batch, db>>
           \/ batch'.outcome = NoOutcome
           \/ batch'.cycle # db'.cycle + 1
    PROVE  LedgerInv'
<1> SUFFICES ASSUME OneAdjustment' PROVE (OrderInv /\ LedgerDb /\ (phase # "idle" => LedgerBatch))'
  BY DEF LedgerInv
<1>1. OrderInv /\ LedgerDb /\ (phase # "idle" => LedgerBatch)
  BY AdjustmentKept DEF LedgerInv
<1>2. file.inode \in Nat /\ file'.inode \in Nat /\ Inodes \subseteq Nat
  <2>1. file.inode \in Inodes
    BY FileFacts
  <2>2. file'.inode \in Inodes
    BY DEF Typed
  <2> QED BY <2>1, <2>2 DEF Inodes
<1>3. \A i \in Inodes : Stored(i)' <=> Stored(i)
  BY DEF Stored
<1>4. OrderInv'
  BY <1>1, <1>2, <1>3 DEF OrderInv
<1>5. Charged' = Charged
  BY DEF Charged
<1>6. LedgerDb'
  <2>1. ChargedApart'
    BY <1>1 DEF LedgerDb, ChargedApart
  <2>2. Charged' # {} => \E i \in Inodes : Stored(i)'
    BY <1>1, <1>3, <1>5 DEF LedgerDb
  <2>3. ASSUME NEW i \in Inodes, Stored(i)', \A j \in Inodes : Stored(j)' => j <= i
        PROVE  Behind(Charged, db.checkpoints[i], db.recovery)'
    <3>1. Behind(Charged, db.checkpoints[i], db.recovery)
      BY <1>1, <1>3, <2>3 DEF LedgerDb
    <3> QED BY <1>5, <3>1 DEF Behind, Frontier, LogKept
  <2> QED BY <2>1, <2>2, <2>3 DEF LedgerDb
<1>7. ASSUME phase' # "idle" PROVE LedgerBatch'
  <2>1. CASE batch'.outcome = NoOutcome \/ batch'.cycle # db'.cycle + 1
    BY <2>1 DEF LedgerBatch
  <2>2. CASE phase # "idle" /\ UNCHANGED <<batch, db>>
    <3> SUFFICES ASSUME batch.outcome # NoOutcome, batch.cycle = db.cycle + 1
                 PROVE  LedgerBatch'
      BY <2>2 DEF LedgerBatch
    <3> DEFINE o == batch.outcome
    <3>1. /\ o.checkpoint.inode <= file.inode
          /\ \A j \in Inodes : Stored(j) => j <= o.checkpoint.inode
          /\ \A e, d \in o.events : e # d => e.covers \cap d.covers = {}
          /\ Covered(o.events) \cap Charged = {}
          /\ Behind(Charged \cup Covered(o.events), o.checkpoint, o.recovery)
      BY <1>1, <1>7, <2>2 DEF LedgerBatch
    <3>2. o.checkpoint.inode \in Nat
      <4>1. o \in OutcomeType
        BY <1>7, <2>2 DEF Typed, BatchType
      <4>2. o.checkpoint.inode \in Inodes
        BY <4>1 DEF OutcomeType, CheckpointType
      <4> HIDE DEF o
      <4> QED BY <1>2, <4>2
    <3>3. o.checkpoint.inode <= file'.inode
      <4> HIDE DEF o
      <4> QED BY <1>2, <3>1, <3>2
    <3>4. batch'.outcome = o /\ Covered(batch'.outcome.events) = Covered(o.events)
      BY <2>2
    <3>5. Behind(Charged \cup Covered(batch.outcome.events), batch.outcome.checkpoint,
                 batch.outcome.recovery)'
      BY <1>5, <2>2, <3>1 DEF Behind, Frontier, LogKept, Covered
    <3>6. (Covered(batch.outcome.events) \cap Charged)' = {}
      BY <1>5, <2>2, <3>1 DEF Covered
    <3> QED BY <1>3, <2>2, <3>1, <3>3, <3>5, <3>6 DEF LedgerBatch
  <2> QED BY <1>7, <2>1, <2>2
<1> QED BY <1>4, <1>6, <1>7

LEMMA InitLedger ==
    ASSUME Init
    PROVE  LedgerInv
<1>1. DOMAIN file.ids = {}
  BY DEF Init
<1>2. FileInv
  BY <1>1 DEF FileInv
<1>3. \A i \in Inodes : ~Stored(i)
  BY DEF Init, Stored
<1>4. db.events = {} /\ phase = "idle"
  BY DEF Init
<1>5. Charged = {}
  BY <1>4 DEF Charged
<1> QED BY <1>2, <1>3, <1>4, <1>5 DEF LedgerInv, OrderInv, LedgerDb, ChargedApart

\* A new record: it has the largest identity, and a counter that left zero
\* does not return to it.
LEMMA WriteLedger ==
    ASSUME Typed, Typed', LedgerInv, NEW r \in RecordType, Write(r), Counter > 0 => r.total > 0
    PROVE  LedgerInv'
<1>1. /\ log \in Seq(RecordType) /\ Len(log) \in Nat /\ DOMAIN log = 1..Len(log)
  BY LogFacts
<1>2. /\ log' = Append(log, r)
      /\ UNCHANGED <<phase, batch, db>>
  BY DEF Write, process
<1>3. /\ DOMAIN log' = 1..(Len(log) + 1) /\ log'[Len(log) + 1] = r
      /\ \A i \in 1..Len(log) : log'[i] = log[i]
  BY <1>1, <1>2
<1>4. LogKept
  BY <1>1, <1>3 DEF LogKept
<1>5. /\ file.ids \in Seq(Nat) /\ Len(file.ids) \in Nat /\ DOMAIN file.ids = 1..Len(file.ids)
      /\ file.inode \in Inodes /\ file \in [inode : Inodes, ids : Seq(DOMAIN log)]
  BY FileFacts DEF Typed
<1> DEFINE n == Len(file.ids)
<1>6. file'.inode = file.inode /\ file'.ids = Append(file.ids, Len(log) + 1)
  BY <1>5 DEF Write
<1>7. /\ DOMAIN file'.ids = 1..(n + 1) /\ file'.ids[n + 1] = Len(log) + 1
      /\ \A q \in 1..n : file'.ids[q] = file.ids[q]
  BY <1>1, <1>5, <1>6
<1>8. FileInv'
  <2> SUFFICES ASSUME NEW q \in DOMAIN file'.ids, NEW x \in DOMAIN file'.ids, q < x
               PROVE  /\ file'.ids[q] < file'.ids[x]
                      /\ log'[file'.ids[q]].total > 0 => log'[file'.ids[x]].total > 0
    BY DEF FileInv
  <2>1. q \in DOMAIN file.ids /\ file'.ids[q] = file.ids[q]
    BY <1>5, <1>7
  <2>2. file.ids[q] \in DOMAIN log /\ file.ids[q] \in Nat /\ file.ids[q] <= Len(log)
    BY <2>1, RecordOfFile
  <2>3. log'[file.ids[q]] = log[file.ids[q]]
    BY <1>4, <2>2 DEF LogKept
  <2>4. CASE x \in DOMAIN file.ids
    <3>1. file'.ids[x] = file.ids[x] /\ file.ids[x] \in DOMAIN log
      BY <1>5, <1>7, <2>4, RecordOfFile
    <3>2. log'[file.ids[x]] = log[file.ids[x]]
      BY <1>4, <3>1 DEF LogKept
    <3>3. /\ file.ids[q] < file.ids[x]
          /\ log[file.ids[q]].total > 0 => log[file.ids[x]].total > 0
      BY <2>1, <2>4 DEF LedgerInv, FileInv
    <3> QED BY <2>1, <2>3, <3>1, <3>2, <3>3
  <2>5. CASE x \notin DOMAIN file.ids
    <3>1. x = n + 1 /\ file'.ids[x] = Len(log) + 1 /\ n \in DOMAIN file.ids /\ (q < n \/ q = n)
      BY <1>5, <1>7, <2>1, <2>5
    <3>2. log'[file'.ids[x]] = r
      BY <1>3, <3>1
    <3>3. Counter = log[file.ids[n]].total
      <4>1. file.ids # <<>>
        BY <1>5, <3>1
      <4> QED BY <4>1 DEF Counter, Last
    <3>4. q < n => (log[file.ids[q]].total > 0 => log[file.ids[n]].total > 0)
      BY <2>1, <3>1 DEF LedgerInv, FileInv
    <3>5. file.ids[q] < Len(log) + 1
      BY <1>1, <2>2
    <3> HIDE DEF n
    <3> QED BY <2>1, <2>3, <3>1, <3>2, <3>3, <3>4, <3>5
  <2> QED BY <2>4, <2>5
<1>9. file.inode <= file'.inode
  BY <1>5, <1>6 DEF Inodes
<1> QED BY <1>2, <1>4, <1>8, <1>9, LedgerKept

LEMMA AppendsLedger ==
    ASSUME CollectionInv, CollectionInv', LedgerInv,
           AppendCount \/ AppendAdjust \/ AppendBad \/ AppendDrop
    PROVE  LedgerInv'
<1>1. Counter \in Nat /\ clock \in Nat /\ Window \in Nat \ {0} /\ Typed /\ Typed'
  BY CounterFacts, SessionAssumption DEF CollectionInv
<1>2. CASE AppendCount
  <2>1. PICK n \in {0, 1} : Write([kind |-> "count", at |-> clock, total |-> Counter + n, gain |-> n])
    BY <1>2 DEF AppendCount
  <2> DEFINE r == [kind |-> "count", at |-> clock, total |-> Counter + n, gain |-> n]
  <2>2. r \in RecordType /\ (Counter > 0 => r.total > 0)
    BY <1>1 DEF RecordType
  <2> HIDE DEF r
  <2> QED BY <1>1, <2>1, <2>2, WriteLedger DEF r
<1>3. CASE AppendAdjust
  <2> DEFINE r == [kind |-> "adjust", at |-> clock, total |-> Window, gain |-> 0]
  <2>1. Write(r)
    BY <1>3 DEF AppendAdjust
  <2>2. r \in RecordType /\ r.total > 0
    BY <1>1 DEF RecordType
  <2> HIDE DEF r
  <2> QED BY <1>1, <2>1, <2>2, WriteLedger
<1>4. CASE AppendBad
  <2> DEFINE r == [kind |-> "bad", at |-> clock, total |-> Counter + 1, gain |-> 1]
  <2>1. Write(r)
    BY <1>4 DEF AppendBad
  <2>2. r \in RecordType /\ r.total > 0
    BY <1>1 DEF RecordType
  <2> HIDE DEF r
  <2> QED BY <1>1, <2>1, <2>2, WriteLedger
<1>5. CASE AppendDrop
  <2> DEFINE r == [kind |-> "drop", at |-> clock, total |-> 1, gain |-> 1]
  <2>1. Write(r)
    BY <1>5 DEF AppendDrop
  <2>2. r \in RecordType /\ r.total > 0
    BY <1>1 DEF RecordType
  <2> HIDE DEF r
  <2> QED BY <1>1, <2>1, <2>2, WriteLedger
<1> QED BY <1>2, <1>3, <1>4, <1>5

\* A cut or a copy keeps the order of the records that are left.
LEMMA ReplaceLedger ==
    ASSUME CollectionInv, CollectionInv', LedgerInv, Replace
    PROVE  LedgerInv'
<1>1. Typed /\ Typed' /\ UNCHANGED <<log, phase, batch, db>>
  BY DEF CollectionInv, Replace, process
<1>2. PICK k \in 0..Len(file.ids), i \in {file.inode, file.inode + 1} :
          file' = [inode |-> i, ids |-> SubSeq(file.ids, 1, k)]
  BY DEF Replace
<1>3. file.inode \in Inodes /\ file.ids \in Seq(Nat) /\ Len(file.ids) \in Nat
      /\ DOMAIN file.ids = 1..Len(file.ids)
  BY <1>1, FileFacts
<1>4. file'.ids = SubSeq(file.ids, 1, k) /\ k \in Nat /\ k <= Len(file.ids)
  BY <1>2, <1>3
<1>5. DOMAIN file'.ids = 1..k /\ \A q \in 1..k : file'.ids[q] = file.ids[q] /\ q \in DOMAIN file.ids
  BY <1>3, <1>4
<1>6. FileInv'
  BY <1>1, <1>5 DEF LedgerInv, FileInv
<1>7. file.inode <= file'.inode
  BY <1>2, <1>3 DEF Inodes
<1>8. LogKept
  BY <1>1 DEF LogKept
<1> QED BY <1>1, <1>6, <1>7, <1>8, LedgerKept

\* A step that leaves the file alone and forgets the batch or keeps it.
LEMMA QuietLedger ==
    ASSUME Typed, Typed', LedgerInv, UNCHANGED <<log, file>>,
           \/ phase' = "idle" /\ (db' = db \/ db' = Reopened(db))
           \/ phase # "idle" /\ UNCHANGED <<batch, db>>
           \/ db' = db /\ batch'.outcome = NoOutcome
    PROVE  LedgerInv'
<1>1. db \in DbType
  BY DbFacts
<1>2. db'.checkpoints = db.checkpoints /\ db'.events = db.events /\ db'.recovery = db.recovery
  BY <1>1 DEF Reopened, DbType
<1>3. LogKept /\ FileInv'
  BY DEF LogKept, LedgerInv, FileInv
<1>4. file.inode <= file'.inode
  BY FileFacts DEF Inodes
<1> QED BY <1>2, <1>3, <1>4, LedgerKept

\* A cycle prepares a batch that charges nothing again.
LEMMA PrepareLedger ==
    ASSUME CollectionInv, CollectionInv', LedgerInv,
           PrepareSource \/ PrepareUnchanged \/ PrepareUnbound
    PROVE  LedgerInv'
<1>1. Typed /\ Typed' /\ SoundDb
  BY DEF CollectionInv
<1>2. phase' = "prepared" /\ UNCHANGED <<log, file, db>>
  BY DEF PrepareSource, PrepareUnchanged, PrepareUnbound, StartCycle
<1>3. PICK o, u : /\ batch' = Batch(o, u)
                  /\ \/ o = NoOutcome
                     \/ o = Admitted(OutcomeOf(Scan)) /\ Scannable
  BY DEF PrepareSource, PrepareUnchanged, PrepareUnbound, Outcomes
<1>4. batch'.outcome = o
  BY <1>3 DEF Batch
<1>5. CASE o = NoOutcome
  BY <1>1, <1>2, <1>4, <1>5, QuietLedger
<1>6. CASE o = Admitted(OutcomeOf(Scan)) /\ Scannable
  <2> SUFFICES ASSUME OneAdjustment'
               PROVE  (OrderInv /\ LedgerDb /\ LedgerBatch)'
    <3>1. FileInv'
      BY <1>2 DEF LedgerInv, FileInv
    <3> QED BY <3>1 DEF LedgerInv
  <2>1. OneAdjustment /\ FileInv /\ OrderInv /\ LedgerDb
    <3>1. LogKept
      BY <1>2 DEF LogKept
    <3> QED BY <3>1, AdjustmentKept DEF LedgerInv
  <2>2. OrderInv' /\ (\A j \in Inodes : Stored(j)' <=> Stored(j)) /\ Charged' = Charged
    BY <1>2, <2>1 DEF OrderInv, Stored, Charged
  <2>3. LedgerDb'
    BY <1>2, <2>1, <2>2 DEF LedgerDb, ChargedApart, Behind, Frontier
  <2>4. /\ o.checkpoint.inode = file.inode
        /\ \A e, d \in o.events : e # d => e.covers \cap d.covers = {}
        /\ Covered(o.events) \cap Charged = {}
        /\ Behind(Charged \cup Covered(o.events), o.checkpoint, o.recovery)
    <3>1. PICK p : p = OutcomeOf(Scan)
      OBVIOUS
    <3>2. /\ o.events \subseteq p.events
          /\ o.checkpoint = p.checkpoint /\ o.recovery = p.recovery
      BY <1>1, <1>6, <3>1, PreparedOutcome
    <3>3. /\ p.checkpoint.inode = file.inode
          /\ \A e, d \in p.events : e # d => e.covers \cap d.covers = {}
          /\ Covered(p.events) \cap Charged = {}
          /\ Behind(Charged \cup Covered(p.events), p.checkpoint, p.recovery)
      BY <1>1, <1>6, <2>1, <3>1, OutcomeLedger
    <3>4. Covered(o.events) \subseteq Covered(p.events)
      BY <3>2 DEF Covered
    <3>5. Behind(Charged \cup Covered(o.events), p.checkpoint, p.recovery)
      BY <3>3, <3>4 DEF Behind, Frontier
    <3> QED BY <3>2, <3>3, <3>4, <3>5
  <2>5. /\ o.checkpoint.inode <= file'.inode
        /\ \A j \in Inodes : Stored(j)' => j <= o.checkpoint.inode
    <3>1. file.inode \in Nat
      BY <1>1, FileFacts DEF Inodes
    <3> QED BY <1>2, <2>1, <2>2, <2>4, <3>1 DEF OrderInv
  <2>6. Behind(Charged \cup Covered(batch.outcome.events), batch.outcome.checkpoint,
               batch.outcome.recovery)'
    BY <1>2, <1>4, <2>2, <2>4 DEF Behind, Frontier, Covered
  <2>7. (Covered(batch.outcome.events) \cap Charged)' = {}
    BY <1>4, <2>2, <2>4 DEF Covered
  <2>8. LedgerBatch'
    BY <1>4, <2>4, <2>5, <2>6, <2>7 DEF LedgerBatch
  <2> QED BY <2>2, <2>3, <2>8
<1> QED BY <1>3, <1>5, <1>6

\* A transaction charges what its batch charges, and moves the cursor or the
\* search behind it.
LEMMA StoreLedger ==
    ASSUME CollectionInv, CollectionInv', LedgerInv, phase # "idle", db' = Store(db, batch),
           phase' = "idle" \/ batch' = batch, UNCHANGED <<log, file>>
    PROVE  LedgerInv'
<1>1. Typed /\ Typed' /\ SoundDb /\ SoundBatch /\ batch \in BatchType
  BY DEF CollectionInv, Typed
<1>2. LogKept /\ FileInv'
  BY DEF LogKept, LedgerInv, FileInv
<1>3. file.inode \in Inodes /\ Inodes \subseteq Nat /\ file.inode <= file'.inode
  BY <1>1, FileFacts DEF Inodes
<1>4. CASE Replayed(db, batch)
  <2>1. db' = db
    BY <1>1, <1>4, StoreReplayed
  <2>2. batch.cycle # db'.cycle + 1
    BY <1>1, <1>4, <2>1, DbFacts DEF Replayed
  <2> QED BY <1>1, <1>2, <1>3, <2>1, <2>2, LedgerKept
<1>5. CASE ~Replayed(db, batch) /\ batch.outcome = NoOutcome
  <2>1. /\ db'.checkpoints = db.checkpoints
        /\ db'.events = db.events /\ db'.recovery = db.recovery
    BY <1>1, <1>5, DbFacts, StoreNothing
  <2> QED BY <1>1, <1>2, <1>3, <1>5, <2>1, LedgerKept
<1>6. CASE ~Replayed(db, batch) /\ batch.outcome # NoOutcome
  <2> SUFFICES ASSUME OneAdjustment'
               PROVE  (OrderInv /\ LedgerDb /\ (phase # "idle" => LedgerBatch))'
    BY <1>2 DEF LedgerInv
  <2> DEFINE o == batch.outcome
             k == o.checkpoint.inode
             a == Accept(db, o)
             C == Charged \cup Covered(o.events)
  <2>1. OrderInv /\ LedgerDb /\ LedgerBatch
    BY <1>2, AdjustmentKept DEF LedgerInv
  <2>2. db \in DbType /\ db.cycle \in Nat /\ batch.cycle = db.cycle + 1
        /\ (db.recovery # NoRecovery => o.resolved \/ o.recovery # NoRecovery)
    BY <1>1, <1>6, DbFacts DEF SoundBatch
  <2>3. o \in OutcomeType /\ SoundOutcome(o) /\ o.checkpoint.cycle = batch.cycle
    BY <1>1, <1>6 DEF SoundBatch, BatchType
  <2>4. /\ k <= file.inode
        /\ \A j \in Inodes : Stored(j) => j <= k
        /\ \A e, d \in o.events : e # d => e.covers \cap d.covers = {}
        /\ Covered(o.events) \cap Charged = {}
        /\ Behind(C, o.checkpoint, o.recovery)
    BY <1>6, <2>1, <2>2 DEF LedgerBatch
  <2>5. o.checkpoint \in CheckpointType /\ k \in Inodes /\ o.checkpoint # NoCheckpoint
    <3>1. o.checkpoint \in CheckpointType
      BY <2>3 DEF OutcomeType
    <3>2. k \in Inodes
      BY <3>1 DEF CheckpointType
    <3> HIDE DEF o
    <3> QED BY <3>1, <3>2, RealCheckpoint
  <2>6. /\ a.events = db.events \cup o.events
        /\ a.recovery = IF o.recovery # NoRecovery THEN o.recovery
                        ELSE IF o.resolved THEN NoRecovery ELSE db.recovery
    <3>1. a = Accept(db, o)
      OBVIOUS
    <3> HIDE DEF a, o
    <3> QED BY <2>2, <2>3, <3>1, AcceptFields
  <2>7. /\ db'.cycle = batch.cycle
        /\ db'.checkpoints = [db.checkpoints EXCEPT ![k] = o.checkpoint]
        /\ db'.events = a.events /\ db'.recovery = a.recovery
    BY <1>1, <1>6, <2>2, StoreFields
  <2> HIDE DEF a, o, k
  <2>8. db'.recovery = o.recovery /\ db'.events = db.events \cup o.events
    BY <2>2, <2>6, <2>7
  <2>9. /\ db'.checkpoints[k] = o.checkpoint
        /\ \A i \in Inodes : i # k => db'.checkpoints[i] = db.checkpoints[i]
    BY <1>1, <2>5, <2>7, DbFacts
  <2>10. \A i \in Inodes : IF i = k THEN Stored(i)' ELSE Stored(i)' <=> Stored(i)
    <3>1. db'.checkpoints[k] # NoCheckpoint
      BY <2>5, <2>9
    <3> QED BY <2>9, <3>1 DEF Stored
  <2>11. \A i \in Inodes : Stored(i) => db.checkpoints[i].cycle \in Nat
                                        /\ db.checkpoints[i].cycle < o.checkpoint.cycle
    <3> TAKE i \in Inodes
    <3> HAVE Stored(i)
    <3>1. db.checkpoints[i] \in CheckpointType /\ db.checkpoints[i].cycle <= db.cycle
      BY <1>1, StoredCheckpoint DEF Stored
    <3>2. db.checkpoints[i].cycle \in Nat
      BY <3>1 DEF CheckpointType
    <3> QED BY <2>2, <2>3, <3>1, <3>2
  <2>12. OrderInv'
    <3>1. ASSUME NEW i \in Inodes, Stored(i)' PROVE i <= file'.inode
      <4>1. CASE i = k
        BY <1>3, <2>4, <4>1
      <4>2. CASE i # k
        BY <2>1, <2>10, <3>1, <4>2 DEF OrderInv
      <4> QED BY <4>1, <4>2
    <3>2. ASSUME NEW i \in Inodes, NEW j \in Inodes, Stored(i)', Stored(j)', i < j
          PROVE  db'.checkpoints[i].cycle < db'.checkpoints[j].cycle
      <4>1. i # k
        <5> SUFFICES ASSUME i = k PROVE FALSE
          OBVIOUS
        <5>1. j # k
          BY <1>3, <3>2
        <5>2. Stored(j)
          BY <2>10, <3>2, <5>1
        <5>3. j <= k
          BY <2>4, <5>2
        <5> QED BY <1>3, <3>2, <5>3
      <4>2. Stored(i) /\ db'.checkpoints[i] = db.checkpoints[i]
        BY <2>9, <2>10, <3>2, <4>1
      <4>3. CASE j = k
        BY <2>9, <2>11, <4>2, <4>3
      <4>4. CASE j # k
        <5>1. Stored(j) /\ db'.checkpoints[j] = db.checkpoints[j]
          BY <2>9, <2>10, <3>2, <4>4
        <5> QED BY <2>1, <3>2, <4>2, <5>1 DEF OrderInv
      <4> QED BY <4>3, <4>4
    <3> QED BY <3>1, <3>2 DEF OrderInv
  <2>13. Charged' = C
    BY <2>8 DEF Charged, Covered
  <2>14. ChargedApart'
    <3>1. \A e \in db.events : e.covers \subseteq Charged
      BY DEF Charged
    <3>2. \A e \in o.events : e.covers \subseteq Covered(o.events)
      BY DEF Covered
    <3>3. \A e \in db.events, d \in o.events :
              e.covers \cap d.covers = {} /\ d.covers \cap e.covers = {}
      BY <2>4, <3>1, <3>2
    <3>4. \A e, d \in db.events : e # d => e.covers \cap d.covers = {}
      BY <2>1 DEF LedgerDb, ChargedApart
    <3>5. \A e, d \in db.events \cup o.events : e # d => e.covers \cap d.covers = {}
      BY <2>4, <3>3, <3>4
    <3> QED BY <2>8, <3>5 DEF ChargedApart
  <2>15. ASSUME NEW i \in Inodes, Stored(i)', \A j \in Inodes : Stored(j)' => j <= i
         PROVE  Behind(Charged, db.checkpoints[i], db.recovery)'
    <3>1. i = k
      <4> SUFFICES ASSUME i # k PROVE FALSE
        OBVIOUS
      <4>1. i <= k
        BY <2>4, <2>10, <2>15
      <4>2. k <= i
        BY <2>5, <2>10, <2>15
      <4> QED BY <1>3, <2>5, <4>1, <4>2
    <3>2. db'.checkpoints[i] = o.checkpoint
      BY <2>9, <3>1
    <3> HIDE DEF C
    <3> QED BY <2>4, <2>8, <2>13, <3>2 DEF Behind, Frontier
  <2>16. LedgerDb'
    BY <2>5, <2>10, <2>14, <2>15 DEF LedgerDb
  <2>17. batch' = batch => LedgerBatch'
    <3>1. batch.cycle # db'.cycle + 1
      BY <2>2, <2>7
    <3> QED BY <3>1 DEF LedgerBatch
  <2> QED BY <2>12, <2>16, <2>17
<1> QED BY <1>4, <1>5, <1>6

LEMMA StepLedger ==
    ASSUME CollectionInv, LedgerInv, [Next]_vars
    PROVE  CollectionInv' /\ LedgerInv'
<1>1. CollectionInv'
  BY StepSound
<1>2. Typed /\ Typed'
  BY <1>1 DEF CollectionInv
<1>3. CASE UNCHANGED vars \/ Tick
  <2>1. UNCHANGED <<log, file, phase, batch, db>>
    BY <1>3 DEF vars, env, process, Tick
  <2> QED BY <1>1, <1>2, <2>1, QuietLedger
<1>4. CASE CommitRefused \/ DropChanged \/ Kill \/ Leave \/ Return
  <2>1. UNCHANGED <<log, file>>
    BY <1>4 DEF CommitRefused, DropChanged, Kill, Leave, Return, env
  <2>2. ~Active => phase = "idle"
    BY <1>2 DEF Typed
  <2>3. \/ phase' = "idle" /\ (db' = db \/ db' = Reopened(db))
        \/ batch' = batch /\ db' = db /\ phase # "idle"
    BY <1>4, <2>2 DEF CommitRefused, DropChanged, Kill, Leave, Return, TakeOver, Forget, process
  <2>4. CASE phase' = "idle" /\ (db' = db \/ db' = Reopened(db))
    BY <1>1, <1>2, <2>1, <2>4, QuietLedger
  <2>5. CASE batch' = batch /\ db' = db /\ phase # "idle"
    BY <1>1, <1>2, <2>1, <2>5, QuietLedger
  <2> QED BY <2>3, <2>4, <2>5
<1>5. CASE Commit \/ CommitFails
  <2>1. UNCHANGED <<log, file>> /\ phase # "idle"
    BY <1>5 DEF Commit, CommitFails, Attempt, env
  <2>2. phase' = "idle" \/ batch' = batch
    BY <1>5 DEF Commit, CommitFails, Forget
  <2>3. db' = Store(db, batch) \/ (db' = db /\ batch' = batch)
    BY <1>5 DEF Commit, CommitFails
  <2>4. CASE db' = Store(db, batch)
    BY <1>1, <2>1, <2>2, <2>4, StoreLedger
  <2>5. CASE db' = db /\ batch' = batch
    BY <1>1, <1>2, <2>1, <2>5, QuietLedger
  <2> QED BY <2>3, <2>4, <2>5
<1>6. CASE Next /\ ~(UNCHANGED vars \/ Tick)
  BY <1>1, <1>4, <1>5, <1>6, AppendsLedger, ReplaceLedger, PrepareLedger DEF Next
<1> QED BY <1>3, <1>6

\* However a Session file is cut, copied, replayed or retried, no record's
\* consumption is charged twice while no counter but zero repeats.
THEOREM ConsumptionIsChargedOnce == Spec => [](OneAdjustment => ChargedApart)
<1>1. Init => CollectionInv /\ LedgerInv
  BY InitSound, InitLedger
<1>2. CollectionInv /\ LedgerInv /\ [Next]_vars => CollectionInv' /\ LedgerInv'
  BY StepLedger
<1>3. LedgerInv => (OneAdjustment => ChargedApart)
  BY DEF LedgerInv, LedgerDb
<1> QED BY <1>1, <1>2, <1>3, PTL DEF Spec

-----------------------------------------------------------------------------
(* Sums over finite sets, as the ledger takes them: SumFunctionOnSet.       *)

Some(s) == CHOOSE x \in s : TRUE

\* f lists the sums of w over the subsets of S.
IsSum(f, w, S) ==
    f = [s \in SUBSET S |-> IF s = {} THEN 0 ELSE w[Some(s)] + f[s \ {Some(s)}]]

\* f lists them for the subsets of at most n elements.
IsSumTo(f, w, S, n) ==
    f = [s \in {t \in SUBSET S : Cardinality(t) <= n} |->
            IF s = {} THEN 0 ELSE w[Some(s)] + f[s \ {Some(s)}]]

\* Taking an element away from a finite set.
LEMMA SomeFacts ==
    ASSUME NEW s, IsFiniteSet(s), s # {}
    PROVE  /\ Some(s) \in s /\ IsFiniteSet(s \ {Some(s)})
           /\ Cardinality(s) \in Nat \ {0}
           /\ Cardinality(s \ {Some(s)}) = Cardinality(s) - 1
<1>1. Some(s) \in s
  BY DEF Some
<1>2. Cardinality(s) \in Nat /\ Cardinality(s) # 0
  BY FS_CardinalityType, FS_EmptySet
<1>3. IsFiniteSet(s \ {Some(s)}) /\ Cardinality(s \ {Some(s)}) = Cardinality(s) - 1
  BY <1>1, FS_RemoveElement
<1> QED BY <1>1, <1>2, <1>3

\* The list of sums exists for every finite set.
LEMMA SumExists ==
    ASSUME NEW w, NEW S, IsFiniteSet(S)
    PROVE  \E f : IsSum(f, w, S)
<1> DEFINE D(n) == {t \in SUBSET S : Cardinality(t) <= n}
           Bad == {n \in Nat : ~\E f : IsSumTo(f, w, S, n)}
<1>1. \A s \in SUBSET S : IsFiniteSet(s) /\ Cardinality(s) \in Nat /\ Cardinality(s) <= Cardinality(S)
  BY FS_Subset, FS_CardinalityType
<1>2. 0 \notin Bad
  <2> DEFINE g == [s \in D(0) |-> 0]
  <2>1. \A s \in D(0) : s = {}
    BY <1>1, FS_EmptySet
  <2>2. g = [s \in D(0) |-> IF s = {} THEN 0 ELSE w[Some(s)] + g[s \ {Some(s)}]]
    BY <2>1
  <2>3. IsSumTo(g, w, S, 0)
    BY <2>2 DEF IsSumTo
  <2> QED BY <2>3
<1>3. ASSUME NEW n \in Nat, n \notin Bad PROVE n + 1 \notin Bad
  <2>1. PICK g : IsSumTo(g, w, S, n)
    BY <1>3
  <2>2. \A s \in D(n) : g[s] = IF s = {} THEN 0 ELSE w[Some(s)] + g[s \ {Some(s)}]
    BY <2>1 DEF IsSumTo
  <2> DEFINE h == [s \in D(n + 1) |->
                      IF s \in D(n) THEN g[s] ELSE w[Some(s)] + g[s \ {Some(s)}]]
  <2>3. ASSUME NEW s \in D(n + 1)
        PROVE  h[s] = IF s = {} THEN 0 ELSE w[Some(s)] + h[s \ {Some(s)}]
    <3>1. CASE s = {}
      <4>1. s \in D(n)
        BY <3>1, FS_EmptySet
      <4> QED BY <2>2, <3>1, <4>1
    <3>2. CASE s # {}
      <4> DEFINE r == s \ {Some(s)}
      <4>1. r \in SUBSET S /\ Cardinality(s) \in Nat /\ Cardinality(r) = Cardinality(s) - 1
            /\ Cardinality(s) <= n + 1
        BY <1>1, <3>2, SomeFacts
      <4>2. r \in D(n) /\ r \in D(n + 1)
        BY <4>1
      <4>3. h[r] = g[r]
        BY <4>2
      <4> HIDE DEF r
      <4>4. h[s] = w[Some(s)] + g[r]
        BY <2>2, <3>2 DEF r
      <4> QED BY <3>2, <4>3, <4>4 DEF r
    <3> QED BY <3>1, <3>2
  <2>4. h = [s \in D(n + 1) |-> h[s]]
    OBVIOUS
  <2> HIDE DEF h
  <2>5. IsSumTo(h, w, S, n + 1)
    BY <2>3, <2>4 DEF IsSumTo
  <2> QED BY <2>5
<1>4. Bad = {}
  <2> SUFFICES ASSUME Bad # {} PROVE FALSE
    OBVIOUS
  <2>1. Bad \subseteq Nat
    OBVIOUS
  <2>2. PICK n \in Bad : \A k \in Bad : n <= k
    <3> HIDE DEF Bad
    <3> QED BY <2>1, LeastExists
  <2> HIDE DEF Bad
  <2>3. n \in Nat \ {0}
    BY <1>2, <2>1
  <2>4. n - 1 \in Nat /\ n - 1 \notin Bad
    BY <2>2, <2>3
  <2>5. (n - 1) + 1 = n
    BY <2>3
  <2> QED BY <1>3, <2>4, <2>5
<1>5. Cardinality(S) \in Nat
  BY FS_CardinalityType
<1>6. PICK f : IsSumTo(f, w, S, Cardinality(S))
  BY <1>4, <1>5
<1>7. D(Cardinality(S)) = SUBSET S
  BY <1>1
<1>8. IsSum(f, w, S)
  BY <1>6, <1>7 DEF IsSum, IsSumTo
<1> QED BY <1>8

\* The list a sum is taken from.
SumList(w, S) == CHOOSE f : IsSum(f, w, S)

\* A sum is the last entry of its list.
LEMMA SumIsListed ==
    ASSUME NEW w, NEW S, IsFiniteSet(S)
    PROVE  /\ SumFunctionOnSet(w, S) = SumList(w, S)[S]
           /\ \A s \in SUBSET S : SumList(w, S)[s] =
                 IF s = {} THEN 0 ELSE w[Some(s)] + SumList(w, S)[s \ {Some(s)}]
<1>1. SumFunctionOnSet(w, S) = SumList(w, S)[S]
  BY DEF SumFunctionOnSet, FoldFunctionOnSet, MapThenFoldSet, SumList, IsSum, Some
<1>2. IsSum(SumList(w, S), w, S)
  BY SumExists DEF SumList
<1> QED BY <1>1, <1>2 DEF IsSum

\* Lists of two sets agree on the subsets they share, and list naturals.
LEMMA SumListsAgree ==
    ASSUME NEW w, NEW v, NEW S, IsFiniteSet(S), NEW T, IsFiniteSet(T),
           NEW s \in SUBSET S, s \in SUBSET T,
           \A x \in s : w[x] = v[x] /\ w[x] \in Nat
    PROVE  SumList(w, S)[s] = SumList(v, T)[s] /\ SumList(w, S)[s] \in Nat
<1> DEFINE f == SumList(w, S)
           g == SumList(v, T)
           Bad == {n \in Nat : \E r \in SUBSET s :
                      Cardinality(r) = n /\ ~(f[r] = g[r] /\ f[r] \in Nat)}
<1>1. \A r \in SUBSET s : f[r] = IF r = {} THEN 0 ELSE w[Some(r)] + f[r \ {Some(r)}]
  BY SumIsListed
<1>2. \A r \in SUBSET s : g[r] = IF r = {} THEN 0 ELSE v[Some(r)] + g[r \ {Some(r)}]
  <2>1. \A r \in SUBSET T : g[r] = IF r = {} THEN 0 ELSE v[Some(r)] + g[r \ {Some(r)}]
    BY SumIsListed
  <2>2. \A r \in SUBSET s : r \in SUBSET T
    OBVIOUS
  <2> HIDE DEF g
  <2> QED BY <2>1, <2>2
<1>3. \A r \in SUBSET s : IsFiniteSet(r) /\ Cardinality(r) \in Nat
  BY FS_Subset, FS_CardinalityType
<1> HIDE DEF f, g
<1>4. Bad = {}
  <2> SUFFICES ASSUME Bad # {} PROVE FALSE
    OBVIOUS
  <2>1. Bad \subseteq Nat
    OBVIOUS
  <2>2. PICK n \in Bad : \A k \in Bad : n <= k
    <3> HIDE DEF Bad
    <3> QED BY <2>1, LeastExists
  <2>3. PICK r \in SUBSET s : Cardinality(r) = n /\ ~(f[r] = g[r] /\ f[r] \in Nat)
    OBVIOUS
  <2>4. CASE r = {}
    <3>1. f[r] = 0 /\ g[r] = 0
      BY <1>1, <1>2, <2>4
    <3> QED BY <2>3, <3>1
  <2>5. CASE r # {}
    <3> DEFINE q == r \ {Some(r)}
    <3>1. Some(r) \in s /\ q \in SUBSET s /\ n \in Nat \ {0} /\ Cardinality(q) = n - 1
      BY <1>3, <2>3, <2>5, SomeFacts
    <3>2. n - 1 \in Nat /\ n - 1 \notin Bad
      <4> HIDE DEF Bad, q
      <4> QED BY <2>2, <3>1
    <3>3. f[q] = g[q] /\ f[q] \in Nat
      <4> HIDE DEF q
      <4> QED BY <3>1, <3>2
    <3>4. f[r] = w[Some(r)] + f[q] /\ g[r] = v[Some(r)] + g[q]
      BY <1>1, <1>2, <2>5
    <3> HIDE DEF q
    <3>5. f[r] = g[r] /\ f[r] \in Nat
      BY <3>1, <3>3, <3>4
    <3> QED BY <2>3, <3>5
  <2> QED BY <2>4, <2>5
<1>5. Cardinality(s) \in Nat
  BY <1>3
<1>6. f[s] = g[s] /\ f[s] \in Nat
  BY <1>4, <1>5
<1> QED BY <1>6 DEF f, g

\* The sum over nothing, and its type.
LEMMA SumType ==
    ASSUME NEW w, NEW S, IsFiniteSet(S), \A x \in S : w[x] \in Nat
    PROVE  SumFunctionOnSet(w, S) \in Nat /\ (S = {} => SumFunctionOnSet(w, S) = 0)
<1>1. SumList(w, S)[S] \in Nat
  BY SumListsAgree
<1> QED BY <1>1, SumIsListed

\* Functions that agree on a set have one sum over it.
LEMMA SumAgrees ==
    ASSUME NEW w, NEW v, NEW S, IsFiniteSet(S), \A x \in S : w[x] = v[x] /\ w[x] \in Nat
    PROVE  SumFunctionOnSet(w, S) = SumFunctionOnSet(v, S)
<1>1. SumList(w, S)[S] = SumList(v, S)[S]
  BY SumListsAgree
<1> QED BY <1>1, SumIsListed

\* A sum is one element and the sum of the others, whichever is taken.
LEMMA SumRemove ==
    ASSUME NEW w, NEW S, IsFiniteSet(S), \A x \in S : w[x] \in Nat, NEW e \in S
    PROVE  SumFunctionOnSet(w, S) = w[e] + SumFunctionOnSet(w, S \ {e})
<1> DEFINE f == SumList(w, S)
           Bad == {n \in Nat : \E r \in SUBSET S :
                      Cardinality(r) = n /\ \E x \in r : f[r] # w[x] + f[r \ {x}]}
<1>1. \A r \in SUBSET S : r # {} => f[r] = w[Some(r)] + f[r \ {Some(r)}]
  <2>1. \A r \in SUBSET S : f[r] = IF r = {} THEN 0 ELSE w[Some(r)] + f[r \ {Some(r)}]
    BY SumIsListed
  <2> HIDE DEF f
  <2> QED BY <2>1
<1>2. \A r \in SUBSET S : f[r] \in Nat
  <2> TAKE r \in SUBSET S
  <2>1. \A x \in r : w[x] = w[x] /\ w[x] \in Nat
    OBVIOUS
  <2>2. r \in SUBSET S
    OBVIOUS
  <2> QED BY <2>1, <2>2, SumListsAgree
<1>3. \A r \in SUBSET S : IsFiniteSet(r) /\ Cardinality(r) \in Nat
  BY FS_Subset, FS_CardinalityType
<1>4. \A r \in SUBSET S : f[r] = SumFunctionOnSet(w, r)
  <2> TAKE r \in SUBSET S
  <2>1. IsFiniteSet(r)
    BY <1>3
  <2>2. f[r] = SumList(w, r)[r]
    BY <2>1, SumListsAgree
  <2> QED BY <2>1, <2>2, SumIsListed
<1> HIDE DEF f
<1>5. Bad = {}
  <2> SUFFICES ASSUME Bad # {} PROVE FALSE
    OBVIOUS
  <2>1. Bad \subseteq Nat
    OBVIOUS
  <2>2. PICK n \in Bad : \A k \in Bad : n <= k
    <3> HIDE DEF Bad
    <3> QED BY <2>1, LeastExists
  <2>3. PICK r \in SUBSET S : Cardinality(r) = n /\ \E x \in r : f[r] # w[x] + f[r \ {x}]
    OBVIOUS
  <2>4. PICK x \in r : f[r] # w[x] + f[r \ {x}]
    BY <2>3
  <2> DEFINE c == Some(r)
             rc == r \ {c}
             rx == r \ {x}
             q == rc \ {x}
  <2>5. c \in r /\ n \in Nat \ {0} /\ Cardinality(rc) = n - 1 /\ IsFiniteSet(r)
    BY <1>3, <2>3, SomeFacts
  <2>6. Cardinality(rx) = n - 1
    BY <2>3, <2>5, FS_RemoveElement
  <2>7. n - 1 \in Nat /\ n - 1 \notin Bad
    <3> HIDE DEF Bad, c, rc, rx, q
    <3> QED BY <2>2, <2>5
  <2>8. c # x
    BY <1>1, <2>4
  <2>9. rc \in SUBSET S /\ rx \in SUBSET S /\ q \in SUBSET S /\ x \in rc /\ c \in rx
        /\ q = rx \ {c}
    BY <2>5, <2>8
  <2>10. f[r] = w[c] + f[rc]
    BY <1>1, <2>4
  <2> HIDE DEF c, rc, rx
  <2>11. f[rc] = w[x] + f[q]
    BY <2>5, <2>7, <2>9
  <2>12. f[rx] = w[c] + f[q]
    <3> HIDE DEF q
    <3> QED BY <2>6, <2>7, <2>9
  <2>13. w[c] \in Nat /\ w[x] \in Nat /\ f[q] \in Nat
    BY <1>2, <2>5, <2>9
  <2> HIDE DEF q
  <2>14. f[r] = w[x] + f[rx]
    BY <2>10, <2>11, <2>12, <2>13
  <2> QED BY <2>4, <2>14 DEF rx
<1>6. Cardinality(S) \in Nat /\ S \in SUBSET S /\ S \ {e} \in SUBSET S
  BY <1>3
<1>7. f[S] = w[e] + f[S \ {e}]
  BY <1>5, <1>6
<1> QED BY <1>4, <1>6, <1>7

\* Sums over sets that share nothing add up.
LEMMA SumApart ==
    ASSUME NEW w, NEW A, NEW B, IsFiniteSet(A), IsFiniteSet(B), A \cap B = {},
           IsFiniteSet(A \cup B), \A x \in A \cup B : w[x] \in Nat
    PROVE  SumFunctionOnSet(w, A \cup B) = SumFunctionOnSet(w, A) + SumFunctionOnSet(w, B)
<1> DEFINE f(r) == SumFunctionOnSet(w, r)
           Bad == {n \in Nat : \E r \in SUBSET A : Cardinality(r) = n /\ f(r \cup B) # f(r) + f(B)}
<1>1. \A r \in SUBSET (A \cup B) : IsFiniteSet(r) /\ Cardinality(r) \in Nat /\ f(r) \in Nat
  BY FS_Subset, FS_CardinalityType, SumType
<1>2. f({}) = 0
  BY FS_EmptySet, SumType
<1>3. \A r \in SUBSET (A \cup B) : \A x \in r : f(r) = w[x] + f(r \ {x})
  BY <1>1, SumRemove
<1> HIDE DEF f
<1>4. Bad = {}
  <2> SUFFICES ASSUME Bad # {} PROVE FALSE
    OBVIOUS
  <2>1. Bad \subseteq Nat
    OBVIOUS
  <2>2. PICK n \in Bad : \A k \in Bad : n <= k
    <3> HIDE DEF Bad
    <3> QED BY <2>1, LeastExists
  <2>3. PICK r \in SUBSET A : Cardinality(r) = n /\ f(r \cup B) # f(r) + f(B)
    OBVIOUS
  <2>4. CASE r = {}
    <3>1. r \cup B = B
      BY <2>4
    <3>2. f(B) \in Nat
      BY <1>1
    <3> QED BY <1>2, <2>3, <2>4, <3>1, <3>2
  <2>5. CASE r # {}
    <3> DEFINE c == Some(r)
               q == r \ {c}
    <3>1. c \in r /\ n \in Nat \ {0} /\ Cardinality(q) = n - 1
      BY <1>1, <2>3, <2>5, SomeFacts
    <3>2. n - 1 \in Nat /\ n - 1 \notin Bad
      <4> HIDE DEF Bad, c, q
      <4> QED BY <2>2, <3>1
    <3>3. q \in SUBSET A /\ (r \cup B) \ {c} = q \cup B /\ r \cup B \in SUBSET (A \cup B)
          /\ q \cup B \in SUBSET (A \cup B) /\ r \in SUBSET (A \cup B) /\ c \in r \cup B
          /\ q \in SUBSET (A \cup B) /\ B \in SUBSET (A \cup B)
      BY <3>1
    <3>4. f(q \cup B) = f(q) + f(B)
      <4> HIDE DEF q
      <4> QED BY <3>1, <3>2, <3>3
    <3>5. f(r) = w[c] + f(q)
      BY <1>3, <3>1, <3>3
    <3>6. f(r \cup B) = w[c] + f(q \cup B)
      <4>1. f(r \cup B) = w[c] + f((r \cup B) \ {c})
        <5> HIDE DEF c, q
        <5> QED BY <1>3, <3>3
      <4> QED BY <3>3, <4>1
    <3>7. f(q) \in Nat /\ f(B) \in Nat /\ w[c] \in Nat
      <4> HIDE DEF c, q
      <4> QED BY <1>1, <3>1, <3>3
    <3> HIDE DEF c, q
    <3>8. f(r \cup B) = f(r) + f(B)
      BY <3>4, <3>5, <3>6, <3>7
    <3> QED BY <2>3, <3>8
  <2> QED BY <2>4, <2>5
<1>5. Cardinality(A) \in Nat
  BY FS_CardinalityType
<1>6. f(A \cup B) = f(A) + f(B)
  BY <1>4, <1>5
<1> QED BY <1>6 DEF f

\* A sum does not grow when the set gets smaller.
LEMMA SumMonotone ==
    ASSUME NEW w, NEW A, NEW B, IsFiniteSet(B), A \subseteq B, \A x \in B : w[x] \in Nat
    PROVE  SumFunctionOnSet(w, A) <= SumFunctionOnSet(w, B)
<1> DEFINE C == B \ A
<1>1. IsFiniteSet(A) /\ IsFiniteSet(C)
  BY FS_Subset
<1>2. A \cup C = B /\ A \cap C = {} /\ C \subseteq B
  OBVIOUS
<1> HIDE DEF C
<1>3. SumFunctionOnSet(w, B) = SumFunctionOnSet(w, A) + SumFunctionOnSet(w, C)
  <2>1. SumFunctionOnSet(w, A \cup C) = SumFunctionOnSet(w, A) + SumFunctionOnSet(w, C)
    BY <1>1, <1>2, SumApart
  <2> QED BY <1>2, <2>1
<1>4. SumFunctionOnSet(w, A) \in Nat /\ SumFunctionOnSet(w, C) \in Nat
  BY <1>1, <1>2, SumType
<1> QED BY <1>3, <1>4

-----------------------------------------------------------------------------
(* Never charged for more than it was: the scan.                            *)

\* Records consume naturals, and there are finitely many.
LEMMA GainFacts ==
    ASSUME Typed
    PROVE  /\ IsFiniteSet(DOMAIN log) /\ DOMAIN Gain = DOMAIN log
           /\ \A i \in DOMAIN log : Gain[i] = log[i].gain /\ Gain[i] \in Nat
           /\ \A C \in SUBSET DOMAIN log : IsFiniteSet(C) /\ SumFunctionOnSet(Gain, C) \in Nat
<1>1. Len(log) \in Nat /\ DOMAIN log = 1..Len(log)
      /\ \A i \in DOMAIN log : log[i] \in RecordType
  BY LogFacts
<1>2. IsFiniteSet(DOMAIN log)
  BY <1>1, FS_Interval
<1>3. DOMAIN Gain = DOMAIN log /\ \A i \in DOMAIN log : Gain[i] = log[i].gain
  BY DEF Gain
<1>4. \A i \in DOMAIN log : Gain[i] \in Nat
  BY <1>1, <1>3 DEF RecordType
<1>5. \A C \in SUBSET DOMAIN log : IsFiniteSet(C)
  BY <1>2, FS_Subset
<1>6. \A C \in SUBSET DOMAIN log : SumFunctionOnSet(Gain, C) \in Nat
  <2> TAKE C \in SUBSET DOMAIN log
  <2>1. \A x \in C : Gain[x] \in Nat
    BY <1>4
  <2> QED BY <1>5, <2>1, SumType
<1> QED BY <1>2, <1>3, <1>4, <1>5, <1>6

\* A counter stands in the file once.
LEMMA BetweenAt ==
    ASSUME Typed, FileInv, NEW q \in DOMAIN file.ids, NEW p \in DOMAIN file.ids
    PROVE  Between(file.ids[q], file.ids[p]) = {file.ids[x] : x \in (q + 1)..p}
<1> DEFINE at(id) == CHOOSE x \in DOMAIN file.ids : file.ids[x] = id
<1>1. DOMAIN file.ids \subseteq Nat /\ \A x \in DOMAIN file.ids : file.ids[x] \in Nat
  BY RecordOfFile
<1>2. \A x, y \in DOMAIN file.ids : file.ids[x] = file.ids[y] => x = y
  <2> SUFFICES ASSUME NEW x \in DOMAIN file.ids, NEW y \in DOMAIN file.ids, x # y
               PROVE  file.ids[x] # file.ids[y]
    OBVIOUS
  <2>1. x < y => file.ids[x] < file.ids[y]
    BY DEF FileInv
  <2>2. y < x => file.ids[y] < file.ids[x]
    BY DEF FileInv
  <2> QED BY <1>1, <2>1, <2>2
<1>3. at(file.ids[q]) = q /\ at(file.ids[p]) = p
  BY <1>2
<1> QED BY <1>3 DEF Between

\* A difference of counters without an adjustment between them was consumed.
LEMMA BetweenPaid ==
    ASSUME Typed, FileInv, CounterInv,
           NEW q \in DOMAIN file.ids, NEW p \in DOMAIN file.ids, q < p,
           \A r \in (q + 1)..p : log[file.ids[r]].kind # "adjust"
    PROVE  log[file.ids[p]].total - log[file.ids[q]].total
               <= SumFunctionOnSet(Gain, Between(file.ids[q], file.ids[p]))
<1> DEFINE Span(b) == {file.ids[x] : x \in (q + 1)..b}
           total(b) == log[file.ids[b]].total
           sum(b) == SumFunctionOnSet(Gain, Span(b))
           Bad == {b \in q..p : ~(total(b) <= total(q) + sum(b))}
<1>1. /\ Len(file.ids) \in Nat /\ DOMAIN file.ids = 1..Len(file.ids)
      /\ q \in Nat \ {0} /\ p \in Nat \ {0} /\ \A b \in q..p : b \in DOMAIN file.ids /\ b \in Nat
  BY FileFacts
<1>2. \A b \in q..p : file.ids[b] \in DOMAIN log /\ file.ids[b] \in Nat /\ total(b) \in Nat
  BY <1>1, RecordOfFile DEF RecordType
<1>3. \A b \in q..p : Span(b) \in SUBSET DOMAIN log
  BY <1>1, <1>2
<1>4. \A b \in q..p : IsFiniteSet(Span(b)) /\ sum(b) \in Nat
  BY <1>3, GainFacts
<1>5. q \in q..p /\ p \in q..p
  BY <1>1
<1>6. q \notin Bad
  <2>1. total(q) \in Nat /\ sum(q) \in Nat
    BY <1>2, <1>4, <1>5
  <2> HIDE DEF total, sum
  <2> QED BY <2>1
<1>7. ASSUME NEW b \in (q + 1)..p, b - 1 \notin Bad PROVE b \notin Bad
  <2>1. b \in q..p /\ b - 1 \in q..p /\ b > 1 /\ b \in Nat
    BY <1>1
  <2>2. total(b - 1) <= total(q) + sum(b - 1)
    BY <1>7, <2>1
  <2>3. total(b) <= total(b - 1) + log[file.ids[b]].gain
    BY <1>1, <2>1 DEF CounterInv
  <2>4. Span(b) \ {file.ids[b]} = Span(b - 1) /\ file.ids[b] \in Span(b)
    <3>1. \A x \in (q + 1)..(b - 1) : x \in (q + 1)..b /\ file.ids[x] # file.ids[b]
      <4> SUFFICES ASSUME NEW x \in (q + 1)..(b - 1)
                   PROVE  x \in (q + 1)..b /\ file.ids[x] # file.ids[b]
        OBVIOUS
      <4>1. x \in q..p /\ x \in DOMAIN file.ids /\ b \in DOMAIN file.ids /\ x < b /\ x \in (q + 1)..b
        BY <1>1, <2>1
      <4>2. file.ids[x] < file.ids[b]
        BY <4>1 DEF FileInv
      <4> QED BY <1>2, <2>1, <4>1, <4>2
    <3>2. \A x \in (q + 1)..b : x = b \/ x \in (q + 1)..(b - 1)
      BY <1>1, <2>1
    <3>3. b \in (q + 1)..b
      BY <1>1, <2>1
    <3> QED BY <3>1, <3>2, <3>3
  <2>5. sum(b) = Gain[file.ids[b]] + sum(b - 1)
    <3>1. Span(b) \in SUBSET DOMAIN log /\ IsFiniteSet(Span(b)) /\ file.ids[b] \in Span(b)
      BY <1>3, <1>4, <2>1, <2>4
    <3>2. \A x \in Span(b) : Gain[x] \in Nat
      BY <3>1, GainFacts
    <3> HIDE DEF Span
    <3>3. sum(b) = Gain[file.ids[b]] + SumFunctionOnSet(Gain, Span(b) \ {file.ids[b]})
      BY <3>1, <3>2, SumRemove
    <3> QED BY <2>4, <3>3
  <2>6. Gain[file.ids[b]] = log[file.ids[b]].gain /\ Gain[file.ids[b]] \in Nat
    BY <1>2, <2>1, GainFacts
  <2>7. sum(b) \in Nat /\ sum(b - 1) \in Nat /\ total(b) \in Nat /\ total(b - 1) \in Nat
        /\ total(q) \in Nat
    BY <1>2, <1>4, <1>5, <2>1
  <2> HIDE DEF sum, total, Span
  <2>8. total(b) <= total(q) + sum(b)
    BY <2>2, <2>3, <2>5, <2>6, <2>7
  <2> QED BY <2>8
<1>8. Bad = {}
  <2> SUFFICES ASSUME Bad # {} PROVE FALSE
    OBVIOUS
  <2>1. Bad \subseteq Nat /\ \A b \in Bad : b \in q..p
    BY <1>1
  <2> HIDE DEF Bad
  <2>2. PICK b \in Bad : \A k \in Bad : b <= k
    BY <2>1, LeastExists
  <2>3. b \in (q + 1)..p
    BY <1>1, <1>6, <2>1, <2>2
  <2>4. b - 1 \notin Bad
    BY <1>1, <2>2, <2>3
  <2> QED BY <1>7, <2>2, <2>3, <2>4
<1>9. total(p) <= total(q) + sum(p)
  BY <1>5, <1>8
<1>10. total(p) \in Nat /\ total(q) \in Nat /\ sum(p) \in Nat
  BY <1>2, <1>4, <1>5
<1>11. Between(file.ids[q], file.ids[p]) = Span(p)
  BY BetweenAt
<1>12. total(p) - total(q) <= sum(p)
  <2> HIDE DEF total, sum
  <2> QED BY <1>9, <1>10
<1> QED BY <1>11, <1>12

\* After p records: finitely many charges, none too large, and no adjustment
\* since the counter that is compared.
ScanPaid(s, p) ==
    /\ Paid(s.events)
    /\ s.raw # None => \E q \in 1..p :
           /\ file.ids[q] = s.previous
           /\ \A r \in (q + 1)..p : log[file.ids[r]].kind # "adjust"

\* One record keeps it, whatever its kind and owner.
LEMMA ScanRecordPaid ==
    ASSUME Typed, FileInv, CounterInv, NEW p \in DOMAIN file.ids,
           NEW s, ScanInv(s, p - 1), ScanPaid(s, p - 1), NEW from
    PROVE  ScanPaid(ScanRecord(s, p, from), p)
<1> DEFINE id == file.ids[p]
           t == ScanRecord(s, p, from)
<1>1. /\ id \in DOMAIN log /\ id \in Nat \ {0} /\ log[id] \in RecordType
      /\ p \in Nat \ {0} /\ p <= Len(file.ids)
  BY RecordOfFile
<1>2. s \in ScanType
  BY DEF ScanInv
<1>3. ASSUME s.raw # None, log[id].kind # "adjust"
      PROVE  \E q \in DOMAIN file.ids :
                 /\ q < p /\ q \in 1..p /\ file.ids[q] = s.previous
                 /\ \A r \in (q + 1)..p : log[file.ids[r]].kind # "adjust"
  <2>1. PICK q \in 1..(p - 1) :
            /\ file.ids[q] = s.previous
            /\ \A r \in (q + 1)..(p - 1) : log[file.ids[r]].kind # "adjust"
    BY <1>3 DEF ScanPaid
  <2>2. q \in DOMAIN file.ids /\ q < p /\ q \in 1..p
    BY <1>1, <2>1, FileFacts
  <2>3. \A r \in (q + 1)..p : r = p \/ r \in (q + 1)..(p - 1)
    BY <1>1, <2>1
  <2>4. \A r \in (q + 1)..p : log[file.ids[r]].kind # "adjust"
    BY <1>3, <2>1, <2>3
  <2> QED BY <2>1, <2>2, <2>4
<1>4. ASSUME log[id].kind # "adjust",
             t.events = s.events, t.previous = s.previous, t.raw = s.raw
      PROVE  ScanPaid(t, p)
  <2> HIDE DEF t
  <2>1. t.raw # None => \E q \in 1..p :
            /\ file.ids[q] = t.previous
            /\ \A r \in (q + 1)..p : log[file.ids[r]].kind # "adjust"
    BY <1>3, <1>4
  <2> QED BY <1>4, <2>1 DEF ScanPaid
<1>5. ASSUME Paid(t.events), t.previous = id PROVE ScanPaid(t, p)
  <2> HIDE DEF t
  <2>1. p \in 1..p /\ \A r \in (p + 1)..p : FALSE
    BY <1>1
  <2> QED BY <1>5, <2>1 DEF ScanPaid
<1>6. ASSUME s.seek # None, t = Seek(s, id) PROVE ScanPaid(t, p)
  <2>1. t.previous = id /\ t.events = s.events
    <3> HIDE DEF t
    <3> QED BY <1>2, <1>6 DEF Seek, Baseline, ScanType
  <2> QED BY <1>5, <2>1 DEF ScanPaid
<1>7. ASSUME log[id].kind # "adjust", OwnedPair(s, id, from), t = Charge(s, id)
      PROVE  ScanPaid(t, p)
  <2> DEFINE delta == log[id].total - log[s.previous].total
             event == [id |-> id, delta |-> delta, before |-> log[s.raw].at, at |-> log[id].at,
                       covers |-> Between(s.previous, id)]
  <2>1. PICK q \in DOMAIN file.ids :
            /\ q < p /\ file.ids[q] = s.previous
            /\ \A r \in (q + 1)..p : log[file.ids[r]].kind # "adjust"
    BY <1>3, <1>7 DEF OwnedPair
  <2>2. t = [Baseline(s, id) EXCEPT !.events = IF delta > 0 THEN @ \cup {event} ELSE @]
    BY <1>7 DEF Charge
  <2>3. event.delta = delta /\ event.covers = Between(s.previous, id) /\ event.id = id
    OBVIOUS
  <2>9. id \in Between(s.previous, id)
    <3>1. p \in (q + 1)..p
      BY <1>1, <2>1, FileFacts
    <3>2. Between(s.previous, id) = {file.ids[x] : x \in (q + 1)..p}
      BY <2>1, BetweenAt
    <3> QED BY <3>1, <3>2
  <2>4. delta <= SumFunctionOnSet(Gain, Between(s.previous, id))
    BY <2>1, BetweenPaid
  <2> HIDE DEF t, delta, event
  <2>5. /\ t.previous = id
        /\ t.events = IF delta > 0 THEN s.events \cup {event} ELSE s.events
    BY <1>2, <2>2 DEF Baseline, ScanType
  <2>6. Paid(s.events)
    BY DEF ScanPaid
  <2>7. IsFiniteSet(s.events \cup {event})
    BY <2>6, FS_AddElement DEF Paid
  <2>8. Paid(t.events)
    BY <2>3, <2>4, <2>5, <2>6, <2>7, <2>9 DEF Paid
  <2> QED BY <1>5, <2>5, <2>8 DEF t
<1>8. \/ log[id].kind = "bad" /\ t = Reject(s, p)
      \/ s.seek # None /\ t = Seek(s, id)
      \/ t = Baseline(s, id)
      \/ t = Reject(Baseline(s, id), p)
      \/ log[id].kind # "adjust" /\ t = Reject(s, p)
      \/ log[id].kind # "adjust" /\ OwnedPair(s, id, from) /\ t = Charge(s, id)
  BY DEF ScanRecord, Unowned
<1> HIDE DEF t, id
<1>9. ASSUME log[id].kind # "adjust", t = Reject(s, p) PROVE ScanPaid(t, p)
  BY <1>2, <1>4, <1>9 DEF Reject, ScanType
<1>10. ASSUME t = Baseline(s, id) \/ t = Reject(Baseline(s, id), p) PROVE ScanPaid(t, p)
  <2>1. t.events = s.events /\ t.previous = id
    BY <1>2, <1>10 DEF Reject, Baseline, ScanType
  <2> QED BY <1>5, <2>1 DEF ScanPaid
<1>11. ScanPaid(t, p)
  BY <1>6, <1>7, <1>8, <1>9, <1>10
<1> QED BY <1>11 DEF t

\* A pass over the records n + 1 to m keeps it.
LEMMA PassPaid ==
    ASSUME Typed, FileInv, CounterInv,
           NEW n \in Nat, NEW m \in Nat, n <= m, m <= Len(file.ids),
           NEW s, ScanInv(s, n), ScanPaid(s, n), NEW from
    PROVE  ScanPaid(Pass(s, n, m, from), m)
<1>0. PICK f : IsPass(f, s, n, m, from)
  BY PassEquation
<1>1. /\ f[0] = s
      /\ \A k \in 1..(m - n) : f[k] = ScanRecord(f[k - 1], n + k, from)
      /\ Pass(s, n, m, from) = f[m - n]
  BY <1>0 DEF IsPass
<1> DEFINE Good(k) == ScanInv(f[k], n + k) /\ ScanPaid(f[k], n + k)
           Bad == {k \in 0..(m - n) : ~Good(k)}
<1>2. Good(0)
  BY <1>1
<1>3. ASSUME NEW k \in 1..(m - n), Good(k - 1) PROVE Good(k)
  <2>1. n + k \in DOMAIN file.ids
    BY DEF Typed
  <2>2. (n + k) - 1 = n + (k - 1)
    OBVIOUS
  <2>3. ScanInv(f[k - 1], (n + k) - 1) /\ ScanPaid(f[k - 1], (n + k) - 1)
    BY <1>3, <2>2
  <2>4. ScanInv(f[k], n + k)
    BY <1>1, <2>1, <2>3, ScanRecordSound
  <2>5. ScanPaid(f[k], n + k)
    BY <1>1, <2>1, <2>3, ScanRecordPaid
  <2> QED BY <2>4, <2>5
<1> HIDE DEF Good
<1>4. Bad = {}
  <2> SUFFICES ASSUME Bad # {} PROVE FALSE
    OBVIOUS
  <2>0. Bad \subseteq Nat
    OBVIOUS
  <2>1. PICK k \in Bad : \A j \in Bad : k <= j
    <3> HIDE DEF Bad
    <3> QED BY <2>0, LeastExists
  <2>2. k \in 1..(m - n)
    BY <1>2
  <2>3. Good(k - 1)
    BY <2>1, <2>2
  <2> QED BY <1>3, <2>2, <2>3
<1>5. Good(m - n)
  BY <1>4
<1>6. n + (m - n) = m
  OBVIOUS
<1> QED BY <1>1, <1>5, <1>6 DEF Good

\* A scan that may run starts with no charge and a plain cursor.
LEMMA StartPaid ==
    ASSUME Typed, SoundDb, Scannable,
           \A i \in Inodes : Stored(i) => PlainSince(db.checkpoints[i]),
           NEW n, NEW m \in Nat, NEW s, IsStart(s, n, m)
    PROVE  ScanPaid(s, n)
<1> DEFINE resumed == Prior # NoCheckpoint /\ Resumable(Prior)
           anchor  == Anchor(Prior, resumed, db.recovery)
           origin  == AtOrigin(anchor, resumed, Prior)
           base == [known    |-> resumed /\ Prior.known,
                    previous |-> IF resumed THEN Prior.previous ELSE None,
                    raw      |-> IF resumed THEN Prior.raw ELSE None,
                    full     |-> IF resumed THEN Prior.full ELSE Prior = NoCheckpoint,
                    seek     |-> anchor.id, matched |-> anchor.full,
                    rows     |-> {}, events |-> {},
                    resumed  |-> resumed, first |-> 0, last |-> 0]
<1>0. /\ n = IF resumed THEN Len(Prior.prefix) ELSE 0
      /\ s = [Start EXCEPT !.first = n, !.last = m]
  BY DEF IsStart
<1>1. Prior # NoCheckpoint => Prior \in CheckpointType /\ PlainSince(Prior)
  <2>1. Prior # NoCheckpoint => Prior \in CheckpointType
    BY PriorStored
  <2>2. Prior # NoCheckpoint => \E i \in Inodes : Stored(i) /\ Prior = db.checkpoints[i]
    <3>1. CASE db.checkpoints[file.inode] # NoCheckpoint
      BY <3>1, FileFacts DEF Prior, Stored
    <3>2. CASE db.checkpoints[file.inode] = NoCheckpoint
      BY <3>2, PriorStored DEF Stored
    <3> QED BY <3>1, <3>2
  <2> QED BY <2>1, <2>2
<1>2. resumed /\ anchor.id # None => Prior.raw = None
  <2> SUFFICES ASSUME resumed, anchor.id # None PROVE Prior.raw = None
    OBVIOUS
  <2>1. db.recovery # NoRecovery
    BY DEF Anchor
  <2>2. db.recovery.inode = file.inode
    BY <2>1 DEF Scannable, AnchorElsewhere
  <2>3. Prior = db.checkpoints[file.inode]
    BY <2>1, <2>2 DEF SoundDb, Prior
  <2> QED BY <2>1, <2>2, <2>3 DEF SoundDb
<1>3. origin => anchor.id # None
  BY DEF AtOrigin
<1>4. Start = IF origin
              THEN [base EXCEPT !.known = TRUE, !.previous = anchor.id, !.full = TRUE, !.seek = None]
              ELSE base
  BY DEF Start, StartScan
<1>5. resumed /\ Prior.raw # None => \E q \in 1..n :
          /\ file.ids[q] = Prior.previous
          /\ \A r \in (q + 1)..n : log[file.ids[r]].kind # "adjust"
  <2> SUFFICES ASSUME resumed, Prior.raw # None
               PROVE  \E q \in 1..n :
                          /\ file.ids[q] = Prior.previous
                          /\ \A r \in (q + 1)..n : log[file.ids[r]].kind # "adjust"
    OBVIOUS
  <2>1. PICK q \in DOMAIN Prior.prefix :
            /\ Prior.prefix[q] = Prior.previous
            /\ \A r \in DOMAIN Prior.prefix : r > q => log[Prior.prefix[r]].kind # "adjust"
    BY <1>1 DEF PlainSince
  <2>2. IsPrefix(Prior.prefix, file.ids)
    BY DEF Scannable, PrefixUnverified
  <2>3. Prior.prefix \in Seq(Nat) /\ file.ids \in Seq(Nat)
    BY <1>1, FileFacts DEF CheckpointType
  <2>4. n = Len(Prior.prefix) /\ n \in Nat /\ DOMAIN Prior.prefix = 1..n
    BY <1>0, <2>3
  <2>5. n <= Len(file.ids) /\ SubSeq(Prior.prefix, 1, n) = SubSeq(file.ids, 1, n)
    BY <2>2, <2>4 DEF IsPrefix
  <2>6. \A r \in 1..n : Prior.prefix[r] = file.ids[r]
    <3> TAKE r \in 1..n
    <3>1. n \in Nat /\ n <= Len(Prior.prefix)
      BY <2>4
    <3>2. SubSeq(Prior.prefix, 1, n)[r] = Prior.prefix[r] /\ SubSeq(file.ids, 1, n)[r] = file.ids[r]
      BY <2>3, <2>5, <3>1, CutAt
    <3> QED BY <2>5, <3>2
  <2>7. q \in 1..n /\ \A r \in (q + 1)..n : r \in 1..n /\ r > q
    BY <2>1, <2>4
  <2>8. \A r \in (q + 1)..n : log[file.ids[r]].kind # "adjust"
    BY <2>1, <2>4, <2>6, <2>7
  <2> QED BY <2>1, <2>6, <2>7, <2>8
<1> HIDE DEF resumed, anchor, origin
<1>6. /\ s.events = {}
      /\ s.raw = IF resumed THEN Prior.raw ELSE None
      /\ ~origin => s.previous = IF resumed THEN Prior.previous ELSE None
  BY <1>0, <1>4
<1>7. s.raw # None => resumed /\ Prior.raw # None /\ s.previous = Prior.previous
  BY <1>2, <1>3, <1>6
<1>8. Paid(s.events)
  BY <1>6, FS_EmptySet DEF Paid
<1> QED BY <1>5, <1>7, <1>8 DEF ScanPaid

\* scan_source never charges for more than was consumed.
LEMMA ScanKeepsPaid ==
    ASSUME Typed, SoundDb, FileInv, AmountInv, Scannable
    PROVE  ScanPaid(Scan, Scan.last)
<1> DEFINE resumed == Prior # NoCheckpoint /\ Resumable(Prior)
           n == IF resumed THEN Len(Prior.prefix) ELSE 0
           m == n + Min({Chunk, Len(file.ids) - n})
           from == IF resumed THEN EligibleFrom(Prior) ELSE clock
           s == [Start EXCEPT !.first = n, !.last = m]
<1>1. Scan = Pass(s, n, m, from)
  BY DEF Scan, Start
<1>2. Len(file.ids) \in Nat
  BY FileFacts
<1>3. n \in Nat /\ n <= Len(file.ids)
  <2>1. resumed => Prior.prefix \in Seq(Nat)
    BY PriorStored DEF CheckpointType
  <2> QED BY <1>2, <2>1 DEF Resumable
<1>4. n = IF Prior # NoCheckpoint /\ Resumable(Prior) THEN Len(Prior.prefix) ELSE 0
  OBVIOUS
<1> HIDE DEF resumed, n
<1>5. m \in Nat /\ n <= m /\ m <= Len(file.ids)
  BY <1>2, <1>3, ChunkBound
<1>6. s = [Start EXCEPT !.first = n, !.last = m]
  OBVIOUS
<1> HIDE DEF m, s, from
<1>7. IsStart(s, n, m)
  BY <1>4, <1>6 DEF IsStart
<1>8. ScanInv(s, n) /\ s.last = m
  BY <1>5, <1>7, StartSound
<1>9. CounterInv /\ \A i \in Inodes : Stored(i) => PlainSince(db.checkpoints[i])
  BY DEF AmountInv
<1>10. ScanPaid(s, n)
  BY <1>5, <1>7, <1>9, StartPaid
<1>11. ScanPaid(Scan, m)
  BY <1>1, <1>3, <1>5, <1>8, <1>9, <1>10, PassPaid
<1>12. SameScan(Scan, s)
  BY <1>1, <1>3, <1>5, <1>8, PassSound
<1> QED BY <1>8, <1>11, <1>12 DEF SameScan

\* Nor does the outcome run_cycle prepares.
LEMMA OutcomePaid ==
    ASSUME Typed, SoundDb, FileInv, AmountInv, Scannable, NEW o, o = OutcomeOf(Scan)
    PROVE  Paid(o.events) /\ PlainSince(o.checkpoint)
<1> DEFINE s == Scan
<1>0. o = OutcomeOf(s)
  OBVIOUS
<1>1. ScanResult(s) /\ ScanPaid(s, s.last)
  BY ScanSound, ScanKeepsPaid
<1> HIDE DEF s
<1>2. /\ o.checkpoint.raw = s.raw /\ o.checkpoint.previous = s.previous
      /\ o.checkpoint.prefix = SubSeq(file.ids, 1, s.last)
      /\ SameAmounts(o.events, s.events)
  BY <1>0, OutcomeFields
<1>3. Paid(o.events)
  <2>1. /\ IsFiniteSet(s.events)
        /\ \A e \in s.events : e.id \in e.covers /\ e.delta <= SumFunctionOnSet(Gain, e.covers)
    BY <1>1 DEF ScanPaid, Paid
  <2>2. PICK g : /\ o.events = {g[e] : e \in s.events} /\ g = [e \in s.events |-> g[e]]
                 /\ \A e \in s.events :
                        g[e].id = e.id /\ g[e].delta = e.delta /\ g[e].covers = e.covers
    BY <1>2 DEF SameAmounts
  <2>3. g \in Surjection(s.events, o.events)
    BY <2>2 DEF Surjection
  <2>4. IsFiniteSet(o.events)
    BY <2>1, <2>3, FS_Surjection
  <2>5. \A x \in o.events : x.id \in x.covers /\ x.delta <= SumFunctionOnSet(Gain, x.covers)
    BY <2>1, <2>2
  <2> QED BY <2>4, <2>5 DEF Paid
<1>4. PlainSince(o.checkpoint)
  <2>0. \A r \in DOMAIN o.checkpoint.prefix : o.checkpoint.prefix[r] \in DOMAIN log
    <3>1. s.last \in Nat /\ s.last <= Len(file.ids)
      BY <1>1 DEF ScanResult, ScanInv, ScanType
    <3> DEFINE u == SubSeq(file.ids, 1, s.last)
    <3>2. DOMAIN u = 1..s.last /\ \A r \in 1..s.last : u[r] = file.ids[r]
      BY <3>1, PrefixFacts
    <3>3. \A r \in 1..s.last : r \in DOMAIN file.ids
      BY <3>1, FileFacts
    <3>4. \A r \in DOMAIN file.ids : file.ids[r] \in DOMAIN log
      BY RecordOfFile
    <3> HIDE DEF u
    <3>5. \A r \in DOMAIN u : u[r] \in DOMAIN log
      BY <3>2, <3>3, <3>4
    <3> QED BY <1>2, <3>5 DEF u
  <2> SUFFICES ASSUME o.checkpoint.raw # None
               PROVE  \E q \in DOMAIN o.checkpoint.prefix :
                          /\ o.checkpoint.prefix[q] = o.checkpoint.previous
                          /\ \A r \in DOMAIN o.checkpoint.prefix :
                                 r > q => log[o.checkpoint.prefix[r]].kind # "adjust"
    BY <2>0 DEF PlainSince
  <2>1. PICK q \in 1..s.last :
            /\ file.ids[q] = s.previous
            /\ \A r \in (q + 1)..s.last : log[file.ids[r]].kind # "adjust"
    BY <1>1, <1>2 DEF ScanPaid
  <2>2. s.last \in Nat /\ s.last <= Len(file.ids)
    BY <1>1 DEF ScanResult, ScanInv, ScanType
  <2> DEFINE u == SubSeq(file.ids, 1, s.last)
  <2>3. DOMAIN u = 1..s.last /\ \A r \in 1..s.last : u[r] = file.ids[r]
    BY <2>2, PrefixFacts
  <2> HIDE DEF u
  <2>4. \A r \in 1..s.last : r > q => r \in (q + 1)..s.last
    BY <2>1, <2>2
  <2>5. u = o.checkpoint.prefix
    BY <1>2 DEF u
  <2>6. \A r \in DOMAIN u : r > q => log[u[r]].kind # "adjust"
    BY <2>1, <2>3, <2>4
  <2> QED BY <1>2, <2>1, <2>3, <2>5, <2>6
<1> QED BY <1>3, <1>4

\* Charges that stand for different records add up to no more than these
\* records consumed.
LEMMA ChargesBounded ==
    ASSUME NEW w, NEW D, IsFiniteSet(D), \A x \in D : w[x] \in Nat,
           NEW E, IsFiniteSet(E), NEW f, \A e \in E : f[e] \in Nat,
           \A e \in E : e.covers \subseteq D /\ f[e] <= SumFunctionOnSet(w, e.covers),
           \A e, d \in E : e # d => e.covers \cap d.covers = {}
    PROVE  SumFunctionOnSet(f, E) <= SumFunctionOnSet(w, Covered(E))
<1> DEFINE sf(r) == SumFunctionOnSet(f, r)
           sw(C) == SumFunctionOnSet(w, C)
           Bad == {n \in Nat : \E r \in SUBSET E : Cardinality(r) = n /\ ~(sf(r) <= sw(Covered(r)))}
<1>1. \A r \in SUBSET E : IsFiniteSet(r) /\ Cardinality(r) \in Nat /\ sf(r) \in Nat
  BY FS_Subset, FS_CardinalityType, SumType
<1>2. \A C \in SUBSET D : IsFiniteSet(C) /\ sw(C) \in Nat
  BY FS_Subset, SumType
<1>3. \A r \in SUBSET E : Covered(r) \in SUBSET D
  BY DEF Covered
<1>4. sf({}) = 0
  BY FS_EmptySet, SumType
<1>5. \A r \in SUBSET E : \A x \in r : sf(r) = f[x] + sf(r \ {x})
  <2> TAKE r \in SUBSET E
  <2> TAKE x \in r
  <2>1. IsFiniteSet(r) /\ \A y \in r : f[y] \in Nat
    BY <1>1
  <2> QED BY <2>1, SumRemove
<1>6. \A A, B \in SUBSET D : A \cap B = {} => sw(A \cup B) = sw(A) + sw(B)
  <2> SUFFICES ASSUME NEW A \in SUBSET D, NEW B \in SUBSET D, A \cap B = {}
               PROVE  sw(A \cup B) = sw(A) + sw(B)
    OBVIOUS
  <2>1. A \cup B \in SUBSET D /\ \A x \in A \cup B : w[x] \in Nat
    OBVIOUS
  <2>2. IsFiniteSet(A) /\ IsFiniteSet(B) /\ IsFiniteSet(A \cup B)
    BY <1>2, <2>1
  <2> QED BY <2>1, <2>2, SumApart
<1>7. \A e \in E : f[e] \in Nat /\ e.covers \in SUBSET D /\ f[e] <= sw(e.covers)
  OBVIOUS
<1> HIDE DEF sf, sw
<1>8. Bad = {}
  <2> SUFFICES ASSUME Bad # {} PROVE FALSE
    OBVIOUS
  <2>1. Bad \subseteq Nat
    OBVIOUS
  <2>2. PICK n \in Bad : \A k \in Bad : n <= k
    <3> HIDE DEF Bad
    <3> QED BY <2>1, LeastExists
  <2>3. PICK r \in SUBSET E : Cardinality(r) = n /\ ~(sf(r) <= sw(Covered(r)))
    OBVIOUS
  <2>4. CASE r = {}
    <3>1. sw(Covered(r)) \in Nat
      BY <1>2, <1>3
    <3> QED BY <1>4, <2>3, <2>4, <3>1
  <2>5. CASE r # {}
    <3> DEFINE c == Some(r)
               q == r \ {c}
    <3>1. c \in r /\ n \in Nat \ {0} /\ Cardinality(q) = n - 1
      BY <1>1, <2>3, <2>5, SomeFacts
    <3>2. n - 1 \in Nat /\ n - 1 \notin Bad
      <4> HIDE DEF Bad, c, q
      <4> QED BY <2>2, <3>1
    <3>3. q \in SUBSET E /\ c \in E
      BY <3>1
    <3>4. sf(q) <= sw(Covered(q))
      <4> HIDE DEF q
      <4> QED BY <3>1, <3>2, <3>3
    <3>5. sf(r) = f[c] + sf(q)
      BY <1>5, <3>1
    <3>6. Covered(r) = c.covers \cup Covered(q)
      BY <3>1 DEF Covered
    <3>7. c.covers \cap Covered(q) = {}
      <4>1. \A e \in q : e \in E /\ e # c
        BY <3>3
      <4>2. \A e \in q : c.covers \cap e.covers = {}
        BY <3>3, <4>1
      <4> HIDE DEF c, q
      <4> QED BY <4>2 DEF Covered
    <3> HIDE DEF c, q
    <3>8. sw(Covered(r)) = sw(c.covers) + sw(Covered(q))
      <4>1. c.covers \in SUBSET D /\ Covered(q) \in SUBSET D
        BY <1>3, <1>7, <3>3
      <4>2. sw(c.covers \cup Covered(q)) = sw(c.covers) + sw(Covered(q))
        BY <1>6, <3>7, <4>1
      <4> QED BY <3>6, <4>2
    <3>9. sf(q) \in Nat /\ sw(Covered(q)) \in Nat /\ sw(c.covers) \in Nat
          /\ f[c] \in Nat /\ f[c] <= sw(c.covers)
      BY <1>1, <1>2, <1>3, <1>7, <3>3
    <3>10. sf(r) <= sw(Covered(r))
      BY <3>4, <3>5, <3>8, <3>9
    <3> QED BY <2>3, <3>10
  <2> QED BY <2>4, <2>5
<1>9. Cardinality(E) \in Nat /\ E \in SUBSET E
  BY <1>1
<1>10. sf(E) <= sw(Covered(E))
  BY <1>8, <1>9
<1> QED BY <1>10 DEF sf, sw

\* The ledger with the charges B added to A.
LEMMA LedgerGrows ==
    ASSUME NEW w, NEW D, IsFiniteSet(D), \A x \in D : w[x] \in Nat,
           NEW A, NEW B, IsFiniteSet(A), IsFiniteSet(B), \A e \in A \cup B : e.delta \in Nat,
           \A e \in B : e.covers \subseteq D /\ e.delta <= SumFunctionOnSet(w, e.covers),
           \A e, d \in B : e # d => e.covers \cap d.covers = {}
    PROVE  /\ SumFunction([e \in A |-> e.delta]) \in Nat
           /\ SumFunction([e \in A \cup B |-> e.delta]) \in Nat
           /\ SumFunction([e \in A \cup B |-> e.delta]) >= SumFunction([e \in A |-> e.delta])
           /\ SumFunction([e \in A \cup B |-> e.delta])
                  <= SumFunction([e \in A |-> e.delta]) + SumFunctionOnSet(w, Covered(B))
<1> DEFINE f == [e \in A \cup B |-> e.delta]
           g == [e \in A |-> e.delta]
           N == B \ A
<1>1. SumFunction(f) = SumFunctionOnSet(f, A \cup B) /\ SumFunction(g) = SumFunctionOnSet(g, A)
  BY DEF SumFunction
<1>2. /\ \A e \in A \cup B : f[e] \in Nat /\ f[e] = e.delta
      /\ \A e \in A : g[e] \in Nat /\ g[e] = f[e]
  OBVIOUS
<1>3. IsFiniteSet(N) /\ IsFiniteSet(A \cup B) /\ A \cap N = {} /\ A \cup N = A \cup B
  <2>1. IsFiniteSet(N)
    BY FS_Subset
  <2>2. IsFiniteSet(A \cup B)
    BY FS_Union
  <2> QED BY <2>1, <2>2
<1> HIDE DEF f, g
<1>4. SumFunctionOnSet(g, A) = SumFunctionOnSet(f, A)
  BY <1>2, SumAgrees
<1>5. SumFunctionOnSet(f, A \cup B) = SumFunctionOnSet(f, A) + SumFunctionOnSet(f, N)
  <2>1. \A e \in A \cup N : f[e] \in Nat
    BY <1>2
  <2>2. IsFiniteSet(A \cup N)
    BY <1>3
  <2>3. SumFunctionOnSet(f, A \cup N) = SumFunctionOnSet(f, A) + SumFunctionOnSet(f, N)
    <3> HIDE DEF N
    <3> QED BY <1>3, <2>1, <2>2, SumApart
  <2> QED BY <1>3, <2>3
<1>6. SumFunctionOnSet(f, N) <= SumFunctionOnSet(f, B)
  BY <1>2, SumMonotone
<1>7. SumFunctionOnSet(f, B) <= SumFunctionOnSet(w, Covered(B))
  <2>1. \A e \in B : f[e] \in Nat /\ f[e] <= SumFunctionOnSet(w, e.covers)
    BY <1>2
  <2> QED BY <2>1, ChargesBounded
<1>8. /\ SumFunctionOnSet(f, A) \in Nat /\ SumFunctionOnSet(f, N) \in Nat
      /\ SumFunctionOnSet(f, B) \in Nat /\ SumFunctionOnSet(f, A \cup B) \in Nat
  <2>1. \A e \in N : f[e] \in Nat
    BY <1>2
  <2>2. IsFiniteSet(N)
    BY <1>3
  <2> HIDE DEF N
  <2>3. SumFunctionOnSet(f, N) \in Nat
    BY <2>1, <2>2, SumType
  <2> QED BY <1>2, <1>3, <2>3, SumType
<1>9. SumFunctionOnSet(w, Covered(B)) \in Nat
  <2>1. Covered(B) \in SUBSET D
    BY DEF Covered
  <2>2. IsFiniteSet(Covered(B)) /\ \A x \in Covered(B) : w[x] \in Nat
    BY <2>1, FS_Subset
  <2> QED BY <2>2, SumType
<1>10. /\ SumFunction(g) \in Nat /\ SumFunction(f) \in Nat /\ SumFunction(f) >= SumFunction(g)
       /\ SumFunction(f) <= SumFunction(g) + SumFunctionOnSet(w, Covered(B))
  <2> HIDE DEF N
  <2> QED BY <1>1, <1>4, <1>5, <1>6, <1>7, <1>8, <1>9
<1> QED BY <1>10 DEF f, g

-----------------------------------------------------------------------------
(* Never charged for more than it was: the steps.                           *)

\* A charge stays covered when records are added.
LEMMA ChargeStays ==
    ASSUME NEW w, NEW v, NEW D, IsFiniteSet(D), \A x \in D : w[x] = v[x] /\ w[x] \in Nat,
           NEW C, C \subseteq D, NEW n, n <= SumFunctionOnSet(w, C)
    PROVE  n <= SumFunctionOnSet(v, C)
<1>1. IsFiniteSet(C)
  BY FS_Subset
<1>2. SumFunctionOnSet(w, C) = SumFunctionOnSet(v, C)
  BY <1>1, SumAgrees
<1> QED BY <1>2

\* The charges of tables and batch stand for records.
LEMMA CoversWritten ==
    ASSUME CollectionInv
    PROVE  /\ \A e \in db.events : e.covers \subseteq DOMAIN log
           /\ phase # "idle" /\ batch.outcome # NoOutcome =>
                  \A e \in batch.outcome.events : e.covers \subseteq DOMAIN log
BY DEF CollectionInv, SoundDb, SoundBatch, SoundOutcome, SoundEvent

\* A step that leaves cursors and charges as they are.
LEMMA AmountKept ==
    ASSUME CollectionInv, Typed', AmountInv, LogKept, CounterInv',
           db'.checkpoints = db.checkpoints, db'.events = db.events,
           \/ phase' = "idle"
           \/ phase # "idle" /\ UNCHANGED batch
           \/ batch'.outcome = NoOutcome
    PROVE  AmountInv'
<1>1. Typed
  BY DEF CollectionInv
<1>2. IsFiniteSet(DOMAIN log) /\ \A i \in DOMAIN log : Gain[i] = Gain'[i] /\ Gain[i] \in Nat
  <2>1. IsFiniteSet(DOMAIN log) /\ \A i \in DOMAIN log : Gain[i] = log[i].gain /\ Gain[i] \in Nat
    BY <1>1, GainFacts
  <2>2. \A i \in DOMAIN log : Gain'[i] = log[i].gain
    BY DEF Gain, LogKept
  <2> QED BY <2>1, <2>2
<1>3. ASSUME NEW C \in SUBSET DOMAIN log, NEW n, n <= SumFunctionOnSet(Gain, C)
      PROVE  n <= SumFunctionOnSet(Gain', C)
  BY <1>2, <1>3, ChargeStays
<1>4. Paid(db.events)'
  <2>1. /\ IsFiniteSet(db.events)
        /\ \A e \in db.events : e.id \in e.covers /\ e.delta <= SumFunctionOnSet(Gain, e.covers)
    BY DEF AmountInv, Paid
  <2>2. \A e \in db.events : e.covers \in SUBSET DOMAIN log
    BY CoversWritten
  <2>3. \A e \in db.events : e.delta <= SumFunctionOnSet(Gain', e.covers)
    BY <1>3, <2>1, <2>2
  <2> QED BY <2>1, <2>3 DEF Paid
<1>5. \A i \in Inodes : Stored(i)' => PlainSince(db.checkpoints[i])'
  <2> TAKE i \in Inodes
  <2>1. Stored(i)' => Stored(i)
    BY DEF Stored
  <2>2. Stored(i) => PlainSince(db.checkpoints[i])
    BY DEF AmountInv
  <2> QED BY <2>1, <2>2 DEF PlainSince, LogKept
<1>6. ASSUME phase' # "idle", batch'.outcome # NoOutcome
      PROVE  (Paid(batch.outcome.events) /\ PlainSince(batch.outcome.checkpoint))'
  <2>1. phase # "idle" /\ batch' = batch
    BY <1>6
  <2>2. /\ IsFiniteSet(batch.outcome.events)
        /\ \A e \in batch.outcome.events :
               e.id \in e.covers /\ e.delta <= SumFunctionOnSet(Gain, e.covers)
        /\ PlainSince(batch.outcome.checkpoint)
    BY <1>6, <2>1 DEF AmountInv, Paid
  <2>3. \A e \in batch.outcome.events : e.covers \in SUBSET DOMAIN log
    BY <1>6, <2>1, CoversWritten
  <2>4. \A e \in batch.outcome.events : e.delta <= SumFunctionOnSet(Gain', e.covers)
    BY <1>3, <2>2, <2>3
  <2>5. Paid(batch.outcome.events)'
    BY <2>1, <2>2, <2>4 DEF Paid
  <2>6. PlainSince(batch.outcome.checkpoint)'
    BY <2>1, <2>2 DEF PlainSince, LogKept
  <2> QED BY <2>5, <2>6
<1> QED BY <1>4, <1>5, <1>6 DEF AmountInv

LEMMA InitAmount ==
    ASSUME Init
    PROVE  AmountInv
<1>1. DOMAIN file.ids = {}
  BY DEF Init
<1>2. CounterInv
  BY <1>1 DEF CounterInv
<1>3. \A i \in Inodes : ~Stored(i)
  BY DEF Init, Stored
<1>4. db.events = {} /\ phase = "idle"
  BY DEF Init
<1>5. Paid(db.events)
  BY <1>4, FS_EmptySet DEF Paid
<1> QED BY <1>2, <1>3, <1>4, <1>5 DEF AmountInv

\* A new record: unless it is an adjustment, the counter grows by no more
\* than was consumed.
LEMMA WriteAmount ==
    ASSUME CollectionInv, Typed', AmountInv, NEW r \in RecordType, Write(r),
           r.kind # "adjust" /\ file.ids # <<>> => r.total <= Counter + r.gain
    PROVE  AmountInv'
<1>0. Typed
  BY DEF CollectionInv
<1>1. /\ log \in Seq(RecordType) /\ Len(log) \in Nat /\ DOMAIN log = 1..Len(log)
  BY <1>0, LogFacts
<1>2. /\ log' = Append(log, r)
      /\ UNCHANGED <<phase, batch, db>>
  BY DEF Write, process
<1>3. /\ DOMAIN log' = 1..(Len(log) + 1) /\ log'[Len(log) + 1] = r
      /\ \A i \in 1..Len(log) : log'[i] = log[i]
  BY <1>1, <1>2
<1>4. LogKept
  BY <1>1, <1>3 DEF LogKept
<1>5. /\ file.ids \in Seq(Nat) /\ Len(file.ids) \in Nat /\ DOMAIN file.ids = 1..Len(file.ids)
      /\ file \in [inode : Inodes, ids : Seq(DOMAIN log)]
  BY <1>0, FileFacts DEF Typed
<1> DEFINE n == Len(file.ids)
<1>6. file'.ids = Append(file.ids, Len(log) + 1)
  BY <1>5 DEF Write
<1>7. /\ DOMAIN file'.ids = 1..(n + 1) /\ file'.ids[n + 1] = Len(log) + 1
      /\ \A q \in 1..n : file'.ids[q] = file.ids[q]
  BY <1>1, <1>5, <1>6
<1>8. CounterInv'
  <2> SUFFICES ASSUME NEW p \in DOMAIN file'.ids, p > 1, log'[file'.ids[p]].kind # "adjust"
               PROVE  log'[file'.ids[p]].total
                          <= log'[file'.ids[p - 1]].total + log'[file'.ids[p]].gain
    BY DEF CounterInv
  <2>1. p - 1 \in DOMAIN file.ids /\ file'.ids[p - 1] = file.ids[p - 1]
    BY <1>5, <1>7
  <2>2. log'[file.ids[p - 1]] = log[file.ids[p - 1]]
    <3>1. file.ids[p - 1] \in DOMAIN log
      BY <1>0, <2>1, RecordOfFile
    <3> QED BY <1>4, <3>1 DEF LogKept
  <2>3. CASE p \in DOMAIN file.ids
    <3>1. file'.ids[p] = file.ids[p] /\ file.ids[p] \in DOMAIN log
      BY <1>0, <1>5, <1>7, <2>3, RecordOfFile
    <3>2. log'[file.ids[p]] = log[file.ids[p]]
      BY <1>4, <3>1 DEF LogKept
    <3>3. log[file.ids[p]].total <= log[file.ids[p - 1]].total + log[file.ids[p]].gain
      BY <2>3, <3>1, <3>2 DEF AmountInv, CounterInv
    <3> QED BY <2>1, <2>2, <3>1, <3>2, <3>3
  <2>4. CASE p \notin DOMAIN file.ids
    <3>1. p = n + 1 /\ file'.ids[p] = Len(log) + 1 /\ p - 1 = n /\ n # 0
      BY <1>5, <1>7, <2>1, <2>4
    <3>2. log'[file'.ids[p]] = r
      BY <1>3, <3>1
    <3>3. file.ids # <<>> /\ Counter = log[file.ids[n]].total
      <4>1. file.ids # <<>>
        BY <1>5, <3>1
      <4> QED BY <4>1 DEF Counter, Last
    <3> HIDE DEF n
    <3> QED BY <2>1, <2>2, <3>1, <3>2, <3>3
  <2> QED BY <2>3, <2>4
<1> QED BY <1>2, <1>4, <1>8, AmountKept

LEMMA AppendsAmount ==
    ASSUME CollectionInv, CollectionInv', AmountInv,
           AppendCount \/ AppendAdjust \/ AppendBad \/ AppendDrop
    PROVE  AmountInv'
<1>1. Counter \in Nat /\ clock \in Nat /\ Window \in Nat \ {0} /\ Typed /\ Typed'
  BY CounterFacts, SessionAssumption DEF CollectionInv
<1>2. CASE AppendCount
  <2>1. PICK n \in {0, 1} : Write([kind |-> "count", at |-> clock, total |-> Counter + n, gain |-> n])
    BY <1>2 DEF AppendCount
  <2> DEFINE r == [kind |-> "count", at |-> clock, total |-> Counter + n, gain |-> n]
  <2>2. r \in RecordType /\ r.total <= Counter + r.gain
    BY <1>1 DEF RecordType
  <2> HIDE DEF r
  <2> QED BY <1>1, <2>1, <2>2, WriteAmount DEF r
<1>3. CASE AppendAdjust
  <2> DEFINE r == [kind |-> "adjust", at |-> clock, total |-> Window, gain |-> 0]
  <2>1. Write(r)
    BY <1>3 DEF AppendAdjust
  <2>2. r \in RecordType /\ r.kind = "adjust"
    BY <1>1 DEF RecordType
  <2> HIDE DEF r
  <2> QED BY <1>1, <2>1, <2>2, WriteAmount
<1>4. CASE AppendBad
  <2> DEFINE r == [kind |-> "bad", at |-> clock, total |-> Counter + 1, gain |-> 1]
  <2>1. Write(r)
    BY <1>4 DEF AppendBad
  <2>2. r \in RecordType /\ r.total <= Counter + r.gain
    BY <1>1 DEF RecordType
  <2> HIDE DEF r
  <2> QED BY <1>1, <2>1, <2>2, WriteAmount
<1>5. CASE AppendDrop
  <2> DEFINE r == [kind |-> "drop", at |-> clock, total |-> 1, gain |-> 1]
  <2>1. Write(r)
    BY <1>5 DEF AppendDrop
  <2>2. r \in RecordType /\ r.total <= Counter + r.gain
    BY <1>1 DEF RecordType
  <2> HIDE DEF r
  <2> QED BY <1>1, <2>1, <2>2, WriteAmount
<1> QED BY <1>2, <1>3, <1>4, <1>5

\* What is left of a file that is cut still grows by what was consumed.
LEMMA ReplaceAmount ==
    ASSUME CollectionInv, CollectionInv', AmountInv, Replace
    PROVE  AmountInv'
<1>1. Typed /\ Typed' /\ UNCHANGED <<log, phase, batch, db>>
  BY DEF CollectionInv, Replace, process
<1>2. PICK k \in 0..Len(file.ids), i \in {file.inode, file.inode + 1} :
          file' = [inode |-> i, ids |-> SubSeq(file.ids, 1, k)]
  BY DEF Replace
<1>3. file.ids \in Seq(Nat) /\ Len(file.ids) \in Nat /\ DOMAIN file.ids = 1..Len(file.ids)
  BY <1>1, FileFacts
<1>4. file'.ids = SubSeq(file.ids, 1, k) /\ k \in Nat /\ k <= Len(file.ids)
  BY <1>2, <1>3
<1>5. DOMAIN file'.ids = 1..k /\ \A q \in 1..k : file'.ids[q] = file.ids[q] /\ q \in DOMAIN file.ids
  BY <1>3, <1>4
<1>6. CounterInv'
  <2> SUFFICES ASSUME NEW p \in DOMAIN file'.ids, p > 1, log'[file'.ids[p]].kind # "adjust"
               PROVE  log'[file'.ids[p]].total
                          <= log'[file'.ids[p - 1]].total + log'[file'.ids[p]].gain
    BY DEF CounterInv
  <2>1. p \in DOMAIN file.ids /\ file'.ids[p] = file.ids[p] /\ file'.ids[p - 1] = file.ids[p - 1]
    BY <1>4, <1>5
  <2> QED BY <1>1, <2>1 DEF AmountInv, CounterInv
<1>7. LogKept
  BY <1>1 DEF LogKept
<1> QED BY <1>1, <1>6, <1>7, AmountKept

\* A step that leaves the file alone and forgets the batch or keeps it.
LEMMA QuietAmount ==
    ASSUME CollectionInv, Typed', AmountInv, UNCHANGED <<log, file>>,
           db' = db \/ db' = Reopened(db),
           phase' = "idle" \/ (phase # "idle" /\ batch' = batch) \/ batch'.outcome = NoOutcome
    PROVE  AmountInv'
<1>1. db \in DbType
  BY DbFacts DEF CollectionInv
<1>2. db'.checkpoints = db.checkpoints /\ db'.events = db.events
  BY <1>1 DEF Reopened, DbType
<1>3. LogKept /\ CounterInv'
  BY DEF LogKept, AmountInv, CounterInv
<1> QED BY <1>2, <1>3, AmountKept

\* A cycle prepares a batch that charges no more than was consumed.
LEMMA PrepareAmount ==
    ASSUME CollectionInv, CollectionInv', FileInv, AmountInv,
           PrepareSource \/ PrepareUnchanged \/ PrepareUnbound
    PROVE  AmountInv'
<1>1. Typed /\ Typed' /\ SoundDb
  BY DEF CollectionInv
<1>2. phase' = "prepared" /\ UNCHANGED <<log, file, db>>
  BY DEF PrepareSource, PrepareUnchanged, PrepareUnbound, StartCycle
<1>3. PICK o, u : /\ batch' = Batch(o, u)
                  /\ \/ o = NoOutcome
                     \/ o = Admitted(OutcomeOf(Scan)) /\ Scannable
  BY DEF PrepareSource, PrepareUnchanged, PrepareUnbound, Outcomes
<1>4. batch'.outcome = o
  BY <1>3 DEF Batch
<1>5. CASE o = NoOutcome
  BY <1>1, <1>2, <1>4, <1>5, QuietAmount
<1>6. CASE o = Admitted(OutcomeOf(Scan)) /\ Scannable
  <2>1. Paid(o.events) /\ PlainSince(o.checkpoint)
    <3>1. PICK p : p = OutcomeOf(Scan)
      OBVIOUS
    <3>2. o.events \subseteq p.events /\ o.checkpoint = p.checkpoint
      BY <1>1, <1>6, <3>1, PreparedOutcome
    <3>3. Paid(p.events) /\ PlainSince(p.checkpoint)
      BY <1>1, <1>6, <3>1, OutcomePaid
    <3>4. IsFiniteSet(o.events)
      BY <3>2, <3>3, FS_Subset DEF Paid
    <3> QED BY <3>2, <3>3, <3>4 DEF Paid
  <2>2. Paid(batch.outcome.events)'
    BY <1>2, <1>4, <2>1 DEF Paid, Gain
  <2>3. PlainSince(batch.outcome.checkpoint)'
    BY <1>2, <1>4, <2>1 DEF PlainSince
  <2>4. CounterInv'
    BY <1>2 DEF AmountInv, CounterInv
  <2>5. Paid(db.events)'
    BY <1>2 DEF AmountInv, Paid, Gain
  <2>6. \A i \in Inodes : Stored(i)' => PlainSince(db.checkpoints[i])'
    BY <1>2 DEF AmountInv, Stored, PlainSince
  <2> QED BY <2>2, <2>3, <2>4, <2>5, <2>6 DEF AmountInv
<1> QED BY <1>3, <1>5, <1>6

\* What a transaction adds to the tables.
LEMMA StoreAdds ==
    ASSUME CollectionInv, phase # "idle", db' = Store(db, batch)
    PROVE  \/ db'.checkpoints = db.checkpoints /\ db'.events = db.events
           \/ /\ batch.outcome # NoOutcome /\ batch.cycle = db.cycle + 1
              /\ batch.outcome \in OutcomeType /\ batch.outcome.checkpoint.inode \in Inodes
              /\ db'.events = db.events \cup batch.outcome.events
              /\ db'.checkpoints = [db.checkpoints EXCEPT
                     ![batch.outcome.checkpoint.inode] = batch.outcome.checkpoint]
<1>1. Typed /\ SoundBatch /\ batch \in BatchType /\ db \in DbType
  BY DEF CollectionInv, Typed
<1>2. CASE Replayed(db, batch)
  BY <1>1, <1>2, StoreReplayed
<1>3. CASE ~Replayed(db, batch) /\ batch.outcome = NoOutcome
  BY <1>1, <1>3, StoreNothing
<1>4. CASE ~Replayed(db, batch) /\ batch.outcome # NoOutcome
  <2> DEFINE o == batch.outcome
             a == Accept(db, o)
  <2>1. batch.cycle = db.cycle + 1
    BY <1>1, <1>4 DEF SoundBatch
  <2>2. o \in OutcomeType
    BY <1>1, <1>4 DEF BatchType
  <2>3. o.checkpoint.inode \in Inodes
    BY <2>2 DEF OutcomeType, CheckpointType
  <2>4. a.events = db.events \cup o.events
    <3>1. a = Accept(db, o)
      OBVIOUS
    <3> HIDE DEF a, o
    <3> QED BY <1>1, <2>2, <3>1, AcceptFields
  <2>5. /\ db'.checkpoints = [db.checkpoints EXCEPT ![o.checkpoint.inode] = o.checkpoint]
        /\ db'.events = a.events
    BY <1>1, <1>4, StoreFields
  <2> HIDE DEF a
  <2> QED BY <1>4, <2>1, <2>2, <2>3, <2>4, <2>5
<1> QED BY <1>2, <1>3, <1>4

\* A transaction stores charges that were consumed.
LEMMA StoreAmount ==
    ASSUME CollectionInv, CollectionInv', AmountInv, phase # "idle", db' = Store(db, batch),
           phase' = "idle" \/ batch' = batch, UNCHANGED <<log, file>>
    PROVE  AmountInv'
<1>1. Typed /\ Typed'
  BY DEF CollectionInv
<1>2. LogKept /\ CounterInv' /\ Gain' = Gain
  BY DEF LogKept, AmountInv, CounterInv, Gain
<1>3. CASE db'.checkpoints = db.checkpoints /\ db'.events = db.events
  BY <1>1, <1>2, <1>3, AmountKept
<1>4. CASE ~(db'.checkpoints = db.checkpoints /\ db'.events = db.events)
  <2> DEFINE o == batch.outcome
             k == o.checkpoint.inode
  <2>1. /\ o # NoOutcome /\ k \in Inodes
        /\ db'.events = db.events \cup o.events
        /\ db'.checkpoints = [db.checkpoints EXCEPT ![k] = o.checkpoint]
    BY <1>4, StoreAdds
  <2>2. Paid(db.events) /\ Paid(o.events) /\ PlainSince(o.checkpoint)
    BY <2>1 DEF AmountInv
  <2>3. (Paid(batch.outcome.events) /\ PlainSince(batch.outcome.checkpoint))' \/ phase' = "idle"
    <3> SUFFICES ASSUME batch' = batch
                 PROVE  (Paid(batch.outcome.events) /\ PlainSince(batch.outcome.checkpoint))'
      OBVIOUS
    <3>1. Paid(batch.outcome.events)'
      BY <1>2, <2>2 DEF Paid
    <3>2. PlainSince(batch.outcome.checkpoint)'
      BY <2>2 DEF PlainSince
    <3> QED BY <3>1, <3>2
  <2> HIDE DEF o, k
  <2>4. IsFiniteSet(db.events \cup o.events)
    BY <2>2, FS_Union DEF Paid
  <2>5. Paid(db.events)'
    BY <1>2, <2>1, <2>2, <2>4 DEF Paid
  <2>6. /\ db'.checkpoints[k] = o.checkpoint
        /\ \A i \in Inodes : i # k => db'.checkpoints[i] = db.checkpoints[i]
    BY <1>1, <2>1, DbFacts
  <2>7. ASSUME NEW i \in Inodes, Stored(i)' PROVE PlainSince(db.checkpoints[i])'
    <3>1. CASE i = k
      <4>1. db'.checkpoints[i] = o.checkpoint
        BY <2>6, <3>1
      <4> QED BY <2>2, <4>1 DEF PlainSince
    <3>2. CASE i # k
      <4>1. db'.checkpoints[i] = db.checkpoints[i]
        BY <2>6, <3>2
      <4>2. Stored(i)
        BY <2>7, <4>1 DEF Stored
      <4>3. PlainSince(db.checkpoints[i])
        BY <4>2 DEF AmountInv
      <4> QED BY <4>1, <4>3 DEF PlainSince
    <3> QED BY <3>1, <3>2
  <2> QED BY <1>2, <2>3, <2>5, <2>7 DEF AmountInv
<1> QED BY <1>3, <1>4

LEMMA StepAmount ==
    ASSUME CollectionInv, LedgerInv, AmountInv, [Next]_vars
    PROVE  AmountInv'
<1>1. CollectionInv'
  BY StepSound
<1>2. Typed /\ Typed' /\ FileInv
  BY <1>1 DEF CollectionInv, LedgerInv
<1>3. CASE UNCHANGED vars \/ Tick
  <2>1. UNCHANGED <<log, file, phase, batch, db>>
    BY <1>3 DEF vars, env, process, Tick
  <2>2. phase = "idle" \/ phase # "idle"
    OBVIOUS
  <2> QED BY <1>2, <2>1, <2>2, QuietAmount
<1>4. CASE CommitRefused \/ DropChanged \/ Kill \/ Leave \/ Return
  <2>1. UNCHANGED <<log, file>>
    BY <1>4 DEF CommitRefused, DropChanged, Kill, Leave, Return, env
  <2>2. ~Active => phase = "idle"
    BY <1>2 DEF Typed
  <2>3. \/ phase' = "idle" /\ (db' = db \/ db' = Reopened(db))
        \/ batch' = batch /\ db' = db /\ phase # "idle"
    BY <1>4, <2>2 DEF CommitRefused, DropChanged, Kill, Leave, Return, TakeOver, Forget, process
  <2> QED BY <1>2, <2>1, <2>3, QuietAmount
<1>5. CASE Commit \/ CommitFails
  <2>1. UNCHANGED <<log, file>> /\ phase # "idle"
    BY <1>5 DEF Commit, CommitFails, Attempt, env
  <2>2. phase' = "idle" \/ batch' = batch
    BY <1>5 DEF Commit, CommitFails, Forget
  <2>3. db' = Store(db, batch) \/ (db' = db /\ batch' = batch)
    BY <1>5 DEF Commit, CommitFails
  <2>4. CASE db' = Store(db, batch)
    BY <1>1, <2>1, <2>2, <2>4, StoreAmount
  <2>5. CASE db' = db /\ batch' = batch
    BY <1>2, <2>1, <2>5, QuietAmount
  <2> QED BY <2>3, <2>4, <2>5
<1>6. CASE Next /\ ~(UNCHANGED vars \/ Tick)
  BY <1>1, <1>2, <1>4, <1>5, <1>6, AppendsAmount, ReplaceAmount, PrepareAmount DEF Next
<1> QED BY <1>3, <1>6

\* However a Session file is cut, copied, replayed or retried, no charge of
\* scan_source is larger than what the records it stands for consumed.
THEOREM ChargesAreConsumed == Spec => []Paid(db.events)
<1>1. Init => CollectionInv /\ LedgerInv /\ AmountInv
  BY InitSound, InitLedger, InitAmount
<1>2. CollectionInv /\ LedgerInv /\ AmountInv /\ [Next]_vars
          => CollectionInv' /\ LedgerInv' /\ AmountInv'
  BY StepLedger, StepAmount
<1>3. AmountInv => Paid(db.events)
  BY DEF AmountInv
<1> QED BY <1>1, <1>2, <1>3, PTL DEF Spec

-----------------------------------------------------------------------------
(* The tables implement TokenLedger.                                        *)

\* No session, no charge.
LEMMA InitMaps ==
    ASSUME Init
    PROVE  Ledger!Init
<1>1. log = <<>> /\ db.events = {}
  BY DEF Init
<1>2. Gain = <<>>
  BY <1>1 DEF Gain
<1>3. Charged = {}
  BY <1>1 DEF Charged
<1>4. SumFunction([e \in db.events |-> e.delta]) = 0
  <2> DEFINE f == [e \in db.events |-> e.delta]
  <2>1. DOMAIN f = {}
    BY <1>1
  <2> HIDE DEF f
  <2>2. SumFunctionOnSet(f, {}) = 0
    BY FS_EmptySet, SumType
  <2>3. SumFunction(f) = 0
    BY <2>1, <2>2 DEF SumFunction
  <2> QED BY <2>3 DEF f
<1> QED BY <1>2, <1>3, <1>4 DEF Ledger!Init

\* A record is a consumption.
LEMMA WriteMaps ==
    ASSUME Typed, NEW r \in RecordType, Write(r)
    PROVE  Ledger!Consume
<1>1. /\ log \in Seq(RecordType) /\ Len(log) \in Nat /\ DOMAIN log = 1..Len(log)
  BY LogFacts
<1>2. log' = Append(log, r) /\ db' = db
  BY DEF Write
<1>3. /\ DOMAIN log' = 1..(Len(log) + 1)
      /\ \A i \in 1..Len(log) : log'[i] = log[i]
  BY <1>1, <1>2
<1> DEFINE g == Gain
           h == Gain'
           n == Len(log)
<1>4. \A i \in DOMAIN log : log[i].gain \in Nat
  BY GainFacts
<1>5. r.gain \in Nat /\ log'[n + 1] = r
  BY <1>1, <1>2 DEF RecordType
<1>6. g = [i \in 1..n |-> log[i].gain] /\ h = [i \in 1..(n + 1) |-> log'[i].gain]
  BY <1>1, <1>3 DEF Gain
<1>7. \A i \in 1..(n + 1) : log'[i].gain \in Nat
  BY <1>1, <1>3, <1>4, <1>5
<1>8. g \in Seq(Nat) /\ Len(g) = n /\ n \in Nat
  BY <1>1, <1>4, <1>6
<1>9. h \in Seq(Nat) /\ Len(h) = n + 1
  BY <1>1, <1>6, <1>7
<1>10. \A i \in 1..n : h[i] = g[i]
  BY <1>1, <1>3, <1>6
<1> HIDE DEF g, h, n
<1>11. SubSeq(h, 1, n) = g
  <2>1. SubSeq(h, 1, n) \in Seq(Nat) /\ Len(SubSeq(h, 1, n)) = n
        /\ \A i \in 1..n : SubSeq(h, 1, n)[i] = h[i]
    BY <1>8, <1>9
  <2> DEFINE u == SubSeq(h, 1, n)
  <2>2. u \in Seq(Nat) /\ Len(u) = n /\ \A i \in 1..n : u[i] = g[i]
    BY <1>10, <2>1
  <2> HIDE DEF u
  <2>3. u = g
    BY <1>8, <2>2
  <2> QED BY <2>3 DEF u
<1>12. Len(Gain') = Len(Gain) + 1 /\ SubSeq(Gain', 1, Len(Gain)) = Gain
  BY <1>8, <1>9, <1>11 DEF g, h
<1>13. Charged' = Charged
       /\ SumFunction([e \in db.events |-> e.delta])' = SumFunction([e \in db.events |-> e.delta])
  BY <1>2 DEF Charged
<1> QED BY <1>12, <1>13 DEF Ledger!Consume

\* A step that neither writes nor stores leaves the ledger alone.
LEMMA QuietMaps ==
    ASSUME log' = log, db'.events = db.events
    PROVE  UNCHANGED Ledger!ledgerVars
<1>1. Gain' = Gain /\ Charged' = Charged
  BY DEF Gain, Charged
<1>2. SumFunction([e \in db.events |-> e.delta])' = SumFunction([e \in db.events |-> e.delta])
  OBVIOUS
<1> QED BY <1>1, <1>2 DEF Ledger!ledgerVars

\* The ledger's sum is the sum of this module.
LEMMA SameSum ==
    ASSUME NEW w, NEW S
    PROVE  Ledger!SumFunctionOnSet(w, S) = SumFunctionOnSet(w, S)
BY DEF Ledger!SumFunctionOnSet, Ledger!FoldFunctionOnSet, Ledger!MapThenFoldSet,
       SumFunctionOnSet, FoldFunctionOnSet, MapThenFoldSet

\* A transaction charges consumption that was not charged before, and no
\* more of it than there was.
LEMMA StoreMaps ==
    ASSUME CollectionInv, LedgerInv, AmountInv, OneAdjustment, phase # "idle",
           db' = Store(db, batch), log' = log
    PROVE  Ledger!Charge \/ UNCHANGED Ledger!ledgerVars
<1>1. Typed
  BY DEF CollectionInv
<1>2. CASE db'.events = db.events
  BY <1>2, QuietMaps
<1>3. CASE db'.events # db.events
  <2> DEFINE o == batch.outcome
             A == db.events
             B == o.events
  <2>1. /\ o # NoOutcome /\ batch.cycle = db.cycle + 1 /\ o \in OutcomeType
        /\ db'.events = A \cup B
    BY <1>3, StoreAdds
  <2>2. /\ \A e, d \in B : e # d => e.covers \cap d.covers = {}
        /\ Covered(B) \cap Charged = {}
    BY <2>1 DEF LedgerInv, LedgerBatch
  <2>3. Paid(A) /\ Paid(B)
    BY <2>1 DEF AmountInv
  <2>4. /\ \A e \in A : e.covers \subseteq DOMAIN log
        /\ \A e \in B : e.covers \subseteq DOMAIN log
    BY <2>1, CoversWritten
  <2>5. \A e \in A \cup B : e.delta \in Nat
    <3>1. A \subseteq EventType
      BY <1>1, DbFacts
    <3>2. B \subseteq EventType
      BY <2>1 DEF OutcomeType
    <3>3. \A e \in EventType : e.delta \in Nat
      BY DEF EventType
    <3> HIDE DEF A, B
    <3> QED BY <3>1, <3>2, <3>3
  <2> HIDE DEF A, B, o
  <2>6. Charged = Covered(A) /\ Charged' = Covered(A) \cup Covered(B)
    BY <2>1 DEF Charged, Covered, A
  <2>7. Charged' \ Charged = Covered(B)
    BY <2>2, <2>6
  <2>8. Charged \subseteq Charged' /\ Charged' \subseteq DOMAIN log
    <3>1. Covered(A) \subseteq DOMAIN log /\ Covered(B) \subseteq DOMAIN log
      BY <2>4 DEF Covered
    <3> QED BY <2>6, <3>1
  <2>9. IsFiniteSet(DOMAIN log) /\ DOMAIN Gain = DOMAIN log /\ \A x \in DOMAIN log : Gain[x] \in Nat
    BY <1>1, GainFacts
  <2>10. /\ SumFunction([e \in A \cup B |-> e.delta]) >= SumFunction([e \in A |-> e.delta])
         /\ SumFunction([e \in A \cup B |-> e.delta])
                <= SumFunction([e \in A |-> e.delta]) + SumFunctionOnSet(Gain, Covered(B))
    BY <2>2, <2>3, <2>4, <2>5, <2>9, LedgerGrows DEF Paid
  <2>11. /\ SumFunction([e \in db.events |-> e.delta]) = SumFunction([e \in A |-> e.delta])
         /\ SumFunction([e \in db.events |-> e.delta])' = SumFunction([e \in A \cup B |-> e.delta])
    BY <2>1 DEF A
  <2>12. Gain' = Gain
    BY DEF Gain
  <2>13. Charged' \subseteq DOMAIN Gain
    BY <2>8, <2>9
  <2>14. SumFunction([e \in db.events |-> e.delta])' >= SumFunction([e \in db.events |-> e.delta])
    BY <2>10, <2>11
  <2>15. SumFunctionOnSet(Gain, Charged' \ Charged) = SumFunctionOnSet(Gain, Covered(B))
    BY <2>7
  <2>16. SumFunction([e \in db.events |-> e.delta])'
             <= SumFunction([e \in db.events |-> e.delta])
                  + Ledger!SumFunctionOnSet(Gain, Charged' \ Charged)
    BY <2>10, <2>11, <2>15, SameSum
  <2>17. Ledger!Charge
    BY <2>8, <2>12, <2>13, <2>14, <2>16 DEF Ledger!Charge
  <2> QED BY <2>17
<1> QED BY <1>2, <1>3

\* Every step of the recorder, the writer and the file is a step of the
\* ledger or none.
LEMMA StepMaps ==
    ASSUME CollectionInv, LedgerInv, AmountInv, OneAdjustment, [Next]_vars
    PROVE  [Ledger!Next]_Ledger!ledgerVars
<1>1. Typed
  BY DEF CollectionInv
<1>2. CASE AppendCount \/ AppendAdjust \/ AppendBad \/ AppendDrop
  <2>1. \E r \in RecordType : Write(r)
    <3>1. Counter \in Nat /\ clock \in Nat /\ Window \in Nat \ {0}
      BY <1>1, CounterFacts, SessionAssumption
    <3>2. CASE AppendCount
      <4>1. PICK n \in {0, 1} :
                Write([kind |-> "count", at |-> clock, total |-> Counter + n, gain |-> n])
        BY <3>2 DEF AppendCount
      <4>2. [kind |-> "count", at |-> clock, total |-> Counter + n, gain |-> n] \in RecordType
        BY <3>1 DEF RecordType
      <4> QED BY <4>1, <4>2
    <3>3. CASE AppendAdjust
      <4>1. [kind |-> "adjust", at |-> clock, total |-> Window, gain |-> 0] \in RecordType
        BY <3>1 DEF RecordType
      <4> QED BY <3>3, <4>1 DEF AppendAdjust
    <3>4. CASE AppendBad
      <4>1. [kind |-> "bad", at |-> clock, total |-> Counter + 1, gain |-> 1] \in RecordType
        BY <3>1 DEF RecordType
      <4> QED BY <3>4, <4>1 DEF AppendBad
    <3>5. CASE AppendDrop
      <4>1. [kind |-> "drop", at |-> clock, total |-> 1, gain |-> 1] \in RecordType
        BY <3>1 DEF RecordType
      <4> QED BY <3>5, <4>1 DEF AppendDrop
    <3> QED BY <1>2, <3>2, <3>3, <3>4, <3>5
  <2>2. Ledger!Consume
    BY <1>1, <2>1, WriteMaps
  <2> QED BY <2>2 DEF Ledger!Next
<1>3. CASE Commit \/ CommitFails
  <2>1. log' = log /\ phase # "idle"
    BY <1>3 DEF Commit, CommitFails, Attempt, env
  <2>2. db' = Store(db, batch) \/ db' = db
    BY <1>3 DEF Commit, CommitFails
  <2>3. Ledger!Charge \/ UNCHANGED Ledger!ledgerVars
    BY <2>1, <2>2, StoreMaps, QuietMaps
  <2> QED BY <2>3 DEF Ledger!Next
<1>4. CASE \/ UNCHANGED vars \/ Tick \/ Replace
           \/ PrepareSource \/ PrepareUnchanged \/ PrepareUnbound
           \/ CommitRefused \/ DropChanged \/ Kill \/ Leave \/ Return
  <2>1. log' = log /\ (db' = db \/ db' = Reopened(db))
    BY <1>4 DEF vars, env, Tick, Replace, PrepareSource, PrepareUnchanged, PrepareUnbound,
                StartCycle, CommitRefused, DropChanged, Kill, Leave, Return, TakeOver
  <2>2. db \in DbType
    BY <1>1, DbFacts
  <2>3. db'.events = db.events
    BY <2>1, <2>2 DEF Reopened, DbType
  <2> QED BY <2>1, <2>3, QuietMaps
<1> QED BY <1>2, <1>3, <1>4 DEF Next

\* The database implements TokenLedger for every chunk size, number of
\* records, replacements, failed commits, kills and account changes: as long
\* as no counter but zero repeats, scan_source and the writer charge a
\* consumption at most once and never for more than it was.
THEOREM LedgerIsImplemented == Spec /\ []OneAdjustment => ChargedOnce
<1>1. Init => CollectionInv /\ LedgerInv /\ AmountInv
  BY InitSound, InitLedger, InitAmount
<1>2. CollectionInv /\ LedgerInv /\ AmountInv /\ [Next]_vars
          => CollectionInv' /\ LedgerInv' /\ AmountInv'
  BY StepLedger, StepAmount
<1>3. Init => Ledger!Init
  BY InitMaps
<1>4. CollectionInv /\ LedgerInv /\ AmountInv /\ OneAdjustment /\ [Next]_vars
          => [Ledger!Next]_Ledger!ledgerVars
  BY StepMaps
<1> QED BY <1>1, <1>2, <1>3, <1>4, PTL DEF Spec, ChargedOnce, Ledger!Spec

-----------------------------------------------------------------------------
(* What is skipped leaves evidence: the argument behind CompleteIsComplete.  *)

\* What the counters of the file say about its p-th record.
LEMMA GainOf ==
    ASSUME Typed, GainInv, NEW p \in DOMAIN file.ids
    PROVE  /\ log[file.ids[p]].gain \in Nat /\ log[file.ids[p]].total \in Nat
           /\ log[file.ids[p]].kind \in {"count", "adjust", "bad", "drop"}
           /\ log[file.ids[p]].total = 0 \/ log[file.ids[p]].kind = "adjust" =>
                  log[file.ids[p]].gain = 0
           /\ p > 1 /\ log[file.ids[p]].kind = "count" =>
                  log[file.ids[p]].total = log[file.ids[p - 1]].total + log[file.ids[p]].gain
           /\ p > 1 /\ log[file.ids[p]].kind = "drop" =>
                  log[file.ids[p]].total < log[file.ids[p - 1]].total
<1> DEFINE id == file.ids[p]
<1>1. id \in DOMAIN log /\ log[id] \in RecordType
  BY RecordOfFile
<1>2. log[id].gain <= log[id].total /\ (log[id].kind = "adjust" => log[id].gain = 0)
  BY <1>1 DEF GainInv
<1>3. \A r \in RecordType : r.gain \in Nat /\ r.total \in Nat
                            /\ r.kind \in {"count", "adjust", "bad", "drop"}
  BY DEF RecordType
<1>4. p > 1 => /\ log[id].kind = "count" =>
                      log[id].total = log[file.ids[p - 1]].total + log[id].gain
               /\ log[id].kind = "drop" => log[id].total < log[file.ids[p - 1]].total
  BY DEF GainInv
<1> DEFINE r == log[id]
<1>5. r \in RecordType /\ r.gain <= r.total /\ (r.kind = "adjust" => r.gain = 0)
  BY <1>1, <1>2
<1> HIDE DEF r
<1>6. r.gain \in Nat /\ r.total \in Nat /\ r.kind \in {"count", "adjust", "bad", "drop"}
      /\ (r.total = 0 \/ r.kind = "adjust" => r.gain = 0)
  BY <1>3, <1>5
<1> QED BY <1>4, <1>6 DEF r

\* More charges settle no less.
LEMMA SettledMore ==
    ASSUME NEW C, NEW D, C \subseteq D, NEW f, Settled(C, f)
    PROVE  Settled(D, f)
BY DEF Settled

\* The settled part grows by a record that consumed nothing or is charged.
LEMMA SettledMoves ==
    ASSUME Typed, FileInv, NEW C, NEW f, NEW p \in DOMAIN file.ids,
           Settled(C, f), \A x \in 1..(p - 1) : file.ids[x] <= f,
           log[file.ids[p]].gain > 0 => file.ids[p] \in C
    PROVE  Settled(C, file.ids[p]) /\ \A x \in 1..p : file.ids[x] <= file.ids[p]
<1>1. DOMAIN file.ids = 1..Len(file.ids) /\ Len(file.ids) \in Nat /\ p \in Nat
  BY FileFacts
<1>2. \A x \in DOMAIN file.ids : file.ids[x] \in Nat
  BY RecordOfFile
<1>3. \A x, y \in DOMAIN file.ids : x < y => file.ids[x] < file.ids[y]
  BY DEF FileInv
<1>4. ASSUME NEW x \in DOMAIN file.ids, file.ids[x] <= file.ids[p], log[file.ids[x]].gain > 0
      PROVE  file.ids[x] \in C
  <2>1. x = p \/ x < p
    BY <1>1, <1>2, <1>3, <1>4
  <2>2. CASE x = p
    BY <1>4, <2>2
  <2>3. CASE x < p
    <3>1. x \in 1..(p - 1)
      BY <1>1, <2>3
    <3> QED BY <1>4, <3>1 DEF Settled
  <2> QED BY <2>1, <2>2, <2>3
<1>5. ASSUME NEW x \in 1..p PROVE file.ids[x] <= file.ids[p]
  <2>1. x \in DOMAIN file.ids /\ (x = p \/ x < p)
    BY <1>1
  <2> QED BY <1>2, <1>3, <2>1
<1> QED BY <1>4, <1>5 DEF Settled

\* A search ends at the counter it waits for, or at another zero: both ways
\* all before it is settled.
LEMMA SettledFound ==
    ASSUME Typed, FileInv, GainInv, OneAdjustment, NEW C, NEW f \in DOMAIN log,
           NEW p \in DOMAIN file.ids, Settled(C, f), SameCounter(file.ids[p], f)
    PROVE  Settled(C, file.ids[p]) /\ \A x \in 1..p : file.ids[x] <= file.ids[p]
<1>1. DOMAIN file.ids = 1..Len(file.ids) /\ Len(file.ids) \in Nat /\ p \in Nat
  BY FileFacts
<1>2. \A x \in DOMAIN file.ids : file.ids[x] \in Nat /\ file.ids[x] \in DOMAIN log
  BY RecordOfFile
<1>3. \A x, y \in DOMAIN file.ids : x < y => file.ids[x] < file.ids[y]
  BY DEF FileInv
<1>4. \A x \in 1..p : file.ids[x] <= file.ids[p]
  <2> TAKE x \in 1..p
  <2>1. x \in DOMAIN file.ids /\ (x = p \/ x < p)
    BY <1>1
  <2> QED BY <1>2, <1>3, <2>1
<1>5. CASE file.ids[p] = f
  BY <1>4, <1>5
<1>6. CASE log[file.ids[p]].kind = "adjust" /\ log[f].kind = "adjust"
  <2>1. file.ids[p] = f
    BY <1>2, <1>6 DEF OneAdjustment
  <2> QED BY <1>4, <2>1
<1>7. CASE log[file.ids[p]].total = 0
  <2>1. ASSUME NEW x \in DOMAIN file.ids, file.ids[x] <= file.ids[p] PROVE log[file.ids[x]].gain = 0
    <3>1. x = p \/ x < p
      BY <1>1, <1>2, <1>3, <2>1
    <3>2. log[file.ids[x]].total \in Nat
      BY GainOf
    <3>3. x < p /\ log[file.ids[x]].total > 0 => log[file.ids[p]].total > 0
      BY DEF FileInv
    <3>4. log[file.ids[x]].total = 0
      BY <1>7, <3>1, <3>2, <3>3
    <3> QED BY <3>4, GainOf
  <2>2. Settled(C, file.ids[p])
    BY <2>1 DEF Settled
  <2> QED BY <1>4, <2>2
<1> QED BY <1>5, <1>6, <1>7 DEF SameCounter

\* A search that a cycle opens is for a counter it must search for.
Searched(seek) ==
    seek # None /\ db.recovery = NoRecovery => ~(Prior.full /\ log[seek].total = 0)

\* After p records: nothing was skipped so far, or a row says so.
ScanEvidence(s, p) ==
    /\ s.rows \subseteq 1..p /\ Searched(s.seek)
    /\ s.rows = {} /\ NothingSkipped(db.rows) =>
           /\ s.seek # None => Settled(Charged, s.seek)
           /\ s.seek = None => /\ Settled(Charged \cup Covered(s.events), s.previous)
                               /\ \A x \in 1..p : file.ids[x] <= s.previous

\* One record keeps it, whatever its kind and owner.
LEMMA ScanRecordEvidence ==
    ASSUME Typed, FileInv, GainInv, OneAdjustment, NEW p \in DOMAIN file.ids,
           NEW s, ScanInv(s, p - 1), ScanEvidence(s, p - 1), NEW from
    PROVE  ScanEvidence(ScanRecord(s, p, from), p)
<1> DEFINE id == file.ids[p]
           t == ScanRecord(s, p, from)
<1>0. Searched(s.seek) /\ Searched(None)
  BY DEF ScanEvidence, Searched
<1>1. /\ id \in DOMAIN log /\ id \in Nat \ {0} /\ log[id] \in RecordType
      /\ p \in Nat \ {0} /\ p <= Len(file.ids)
  BY RecordOfFile
<1>2. s \in ScanType
  BY DEF ScanInv
<1>3. 1..(p - 1) \subseteq 1..p /\ p \in 1..p
  BY <1>1
<1>4. ASSUME t.rows = s.rows \cup {p}, t.seek = s.seek PROVE ScanEvidence(t, p)
  <2> HIDE DEF t
  <2>1. t.rows \subseteq 1..p /\ t.rows # {}
    BY <1>3, <1>4 DEF ScanEvidence
  <2> QED BY <1>0, <1>4, <2>1 DEF ScanEvidence
<1>5. ASSUME s.seek # None, t = Seek(s, id) PROVE ScanEvidence(t, p)
  <2> HIDE DEF t
  <2>1. CASE SameCounter(id, s.seek)
    <3>1. /\ t.rows = s.rows /\ t.previous = id /\ t.seek = None /\ t.events = s.events
      BY <1>2, <1>5, <2>1 DEF Seek, Baseline, ScanType, None
    <3>2. s.seek \in DOMAIN log
      <4>1. s.seek \in 1..Len(log)
        BY <1>2, <1>5, LogFacts DEF ScanInv, ScanType, None
      <4> QED BY <4>1, LogFacts
    <3>3. ASSUME s.rows = {}, NothingSkipped(db.rows)
          PROVE  Settled(Charged \cup Covered(s.events), id) /\ \A x \in 1..p : file.ids[x] <= id
      <4>1. Settled(Charged, s.seek)
        BY <1>5, <3>3 DEF ScanEvidence
      <4>2. Settled(Charged, id) /\ \A x \in 1..p : file.ids[x] <= id
        BY <2>1, <3>2, <4>1, SettledFound
      <4> HIDE DEF id
      <4> QED BY <4>2, SettledMore
    <3> HIDE DEF id
    <3> QED BY <1>0, <1>3, <3>1, <3>3 DEF ScanEvidence
  <2>2. CASE ~SameCounter(id, s.seek)
    <3>1. t.rows = s.rows /\ t.seek = s.seek /\ t.events = s.events
      BY <1>2, <1>5, <2>2 DEF Seek, ScanType
    <3> QED BY <1>0, <1>3, <1>5, <3>1 DEF ScanEvidence
  <2> QED BY <2>1, <2>2
<1>6. ASSUME s.seek = None, t = Baseline(s, id), log[id].gain = 0 PROVE ScanEvidence(t, p)
  <2> HIDE DEF t
  <2>1. t.rows = s.rows /\ t.previous = id /\ t.seek = None /\ t.events = s.events
    <3> HIDE DEF id
    <3> QED BY <1>2, <1>6 DEF Baseline, ScanType
  <2>2. ASSUME s.rows = {}, NothingSkipped(db.rows)
        PROVE  Settled(Charged \cup Covered(s.events), id) /\ \A x \in 1..p : file.ids[x] <= id
    <3>1. /\ Settled(Charged \cup Covered(s.events), s.previous)
          /\ \A x \in 1..(p - 1) : file.ids[x] <= s.previous
      BY <1>6, <2>2 DEF ScanEvidence
    <3>2. ~(log[id].gain > 0)
      BY <1>6
    <3> QED BY <3>1, <3>2, SettledMoves
  <2> HIDE DEF id
  <2> QED BY <1>0, <1>3, <2>1, <2>2 DEF ScanEvidence
<1>7. ASSUME s.seek = None, log[id].kind # "bad", log[id].kind # "adjust", OwnedPair(s, id, from),
             ~(log[id].total < log[s.previous].total), t = Charge(s, id)
      PROVE  ScanEvidence(t, p)
  <2> DEFINE delta == log[id].total - log[s.previous].total
             event == [id |-> id, delta |-> delta, before |-> log[s.raw].at, at |-> log[id].at,
                       covers |-> Between(s.previous, id)]
  <2>1. t = [Baseline(s, id) EXCEPT !.events = IF delta > 0 THEN @ \cup {event} ELSE @]
    BY <1>7 DEF Charge
  <2>2. event.covers = Between(s.previous, id)
    OBVIOUS
  <2>3. ASSUME s.rows = {}, NothingSkipped(db.rows)
        PROVE  /\ log[id].gain > 0 => delta > 0
               /\ id \in Between(s.previous, id)
               /\ Settled(Charged \cup Covered(s.events), s.previous)
               /\ \A x \in 1..(p - 1) : file.ids[x] <= s.previous
    <3>1. /\ Settled(Charged \cup Covered(s.events), s.previous)
          /\ \A x \in 1..(p - 1) : file.ids[x] <= s.previous
      BY <1>7, <2>3 DEF ScanEvidence
    <3>2. PICK q \in 1..(p - 1) : file.ids[q] = s.previous
      BY <1>7 DEF OwnedPair, ScanInv
    <3>3. q \in DOMAIN file.ids /\ p - 1 \in DOMAIN file.ids /\ p - 1 \in 1..(p - 1) /\ p > 1
      BY <1>1, <3>2, FileFacts
    <3>4. q = p - 1
      <4>1. file.ids[p - 1] <= file.ids[q]
        BY <3>1, <3>2, <3>3
      <4>2. file.ids[p - 1] \in Nat /\ file.ids[q] \in Nat
        BY <3>3, RecordOfFile
      <4>3. q < p - 1 => file.ids[q] < file.ids[p - 1]
        BY <3>3 DEF FileInv
      <4> QED BY <1>1, <3>2, <4>1, <4>2, <4>3
    <3>5. s.previous = file.ids[p - 1]
      BY <3>2, <3>4
    <3>6. /\ log[id].gain \in Nat /\ log[id].total \in Nat
          /\ log[id].kind \in {"count", "adjust", "bad", "drop"}
          /\ log[id].kind = "count" => log[id].total = log[s.previous].total + log[id].gain
          /\ log[id].kind = "drop" => log[id].total < log[s.previous].total
      BY <3>3, <3>5, GainOf
    <3>7. log[s.previous].total \in Nat
      BY <3>3, <3>5, GainOf
    <3>8. delta = log[id].gain
      <4> HIDE DEF id
      <4> QED BY <1>7, <3>6, <3>7
    <3>9. id \in Between(s.previous, id)
      <4>1. Between(file.ids[p - 1], file.ids[p]) = {file.ids[x] : x \in ((p - 1) + 1)..p}
        BY <3>3, BetweenAt
      <4>2. p \in ((p - 1) + 1)..p
        BY <1>1
      <4> QED BY <3>5, <4>1, <4>2
    <3> HIDE DEF delta, id
    <3> QED BY <3>1, <3>8, <3>9
  <2> HIDE DEF t, delta, event
  <2>4. /\ t.rows = s.rows /\ t.previous = id /\ t.seek = None
        /\ t.events = IF delta > 0 THEN s.events \cup {event} ELSE s.events
    <3> HIDE DEF id
    <3> QED BY <1>2, <1>7, <2>1 DEF Baseline, ScanType
  <2>5. ASSUME s.rows = {}, NothingSkipped(db.rows)
        PROVE  Settled(Charged \cup Covered(t.events), id) /\ \A x \in 1..p : file.ids[x] <= id
    <3> DEFINE C == Charged \cup Covered(s.events)
               D == Charged \cup Covered(t.events)
    <3>1. C \subseteq D /\ (delta > 0 => event.covers \subseteq D)
      BY <2>4 DEF Covered
    <3>2. Settled(C, s.previous) /\ \A x \in 1..(p - 1) : file.ids[x] <= s.previous
      BY <2>3, <2>5
    <3>3. log[id].gain > 0 => id \in D
      <4> HIDE DEF D, id
      <4> QED BY <2>2, <2>3, <2>5, <3>1
    <3> HIDE DEF C, D
    <3>4. Settled(D, s.previous)
      BY <3>1, <3>2, SettledMore
    <3>5. Settled(D, id) /\ \A x \in 1..p : file.ids[x] <= id
      BY <3>2, <3>3, <3>4, SettledMoves
    <3> QED BY <3>5 DEF D
  <2> HIDE DEF id
  <2> QED BY <1>0, <1>3, <2>4, <2>5 DEF ScanEvidence
<1>8. log[id].kind = "adjust" \/ log[id].total = 0 => log[id].gain = 0
  BY GainOf
<1>9. \/ t = Reject(s, p)
      \/ t = Reject(Baseline(s, id), p)
      \/ s.seek # None /\ t = Seek(s, id)
      \/ s.seek = None /\ log[id].kind = "adjust" /\ t = Baseline(s, id)
      \/ s.seek = None /\ log[id].total = 0 /\ t = Baseline(s, id)
      \/ /\ s.seek = None /\ log[id].kind # "bad" /\ log[id].kind # "adjust"
         /\ OwnedPair(s, id, from) /\ ~(log[id].total < log[s.previous].total)
         /\ t = Charge(s, id)
  BY DEF ScanRecord, Unowned
<1> HIDE DEF t, id
<1>10. ASSUME t = Reject(s, p) \/ t = Reject(Baseline(s, id), p)
       PROVE  t.rows = s.rows \cup {p} /\ t.seek = s.seek
  BY <1>2, <1>10 DEF Reject, Baseline, ScanType
<1>11. ScanEvidence(t, p)
  BY <1>4, <1>5, <1>6, <1>7, <1>8, <1>9, <1>10
<1> QED BY <1>11 DEF t

\* A pass over the records n + 1 to m keeps it.
LEMMA PassEvidence ==
    ASSUME Typed, FileInv, GainInv, OneAdjustment,
           NEW n \in Nat, NEW m \in Nat, n <= m, m <= Len(file.ids),
           NEW s, ScanInv(s, n), ScanEvidence(s, n), NEW from
    PROVE  ScanEvidence(Pass(s, n, m, from), m)
<1>0. PICK f : IsPass(f, s, n, m, from)
  BY PassEquation
<1>1. /\ f[0] = s
      /\ \A k \in 1..(m - n) : f[k] = ScanRecord(f[k - 1], n + k, from)
      /\ Pass(s, n, m, from) = f[m - n]
  BY <1>0 DEF IsPass
<1> DEFINE Good(k) == ScanInv(f[k], n + k) /\ ScanEvidence(f[k], n + k)
           Bad == {k \in 0..(m - n) : ~Good(k)}
<1>2. Good(0)
  BY <1>1
<1>3. ASSUME NEW k \in 1..(m - n), Good(k - 1) PROVE Good(k)
  <2>1. n + k \in DOMAIN file.ids
    BY DEF Typed
  <2>2. (n + k) - 1 = n + (k - 1)
    OBVIOUS
  <2>3. ScanInv(f[k - 1], (n + k) - 1) /\ ScanEvidence(f[k - 1], (n + k) - 1)
    BY <1>3, <2>2
  <2>4. ScanInv(f[k], n + k)
    BY <1>1, <2>1, <2>3, ScanRecordSound
  <2>5. ScanEvidence(f[k], n + k)
    BY <1>1, <2>1, <2>3, ScanRecordEvidence
  <2> QED BY <2>4, <2>5
<1> HIDE DEF Good
<1>4. Bad = {}
  <2> SUFFICES ASSUME Bad # {} PROVE FALSE
    OBVIOUS
  <2>0. Bad \subseteq Nat
    OBVIOUS
  <2>1. PICK k \in Bad : \A j \in Bad : k <= j
    <3> HIDE DEF Bad
    <3> QED BY <2>0, LeastExists
  <2>2. k \in 1..(m - n)
    BY <1>2
  <2>3. Good(k - 1)
    BY <2>1, <2>2
  <2> QED BY <1>3, <2>2, <2>3
<1>5. Good(m - n)
  BY <1>4
<1>6. n + (m - n) = m
  OBVIOUS
<1> QED BY <1>1, <1>5, <1>6 DEF Good

\* What the tables say about the cursor a cycle continues.
LEMMA PriorEvidence ==
    ASSUME Typed, SoundDb, OrderInv, EvidenceDb
    PROVE  /\ Stored(file.inode) <=> Prior # NoCheckpoint /\ Resumable(Prior)
           /\ Stored(file.inode) => Prior = db.checkpoints[file.inode] /\ Follows(Prior)
           /\ Prior # NoCheckpoint /\ NothingSkipped(db.rows) =>
                  SettledBehind(Charged, Prior, db.recovery)
<1>1. file.inode \in Inodes
  BY FileFacts
<1>2. \A i \in Inodes : Stored(i) => db.checkpoints[i].inode = i /\ Follows(db.checkpoints[i])
  BY DEF EvidenceDb
<1>3. Stored(file.inode) => Prior = db.checkpoints[file.inode] /\ Prior # NoCheckpoint
  BY DEF Prior, Stored
<1>4. Stored(file.inode) => Follows(Prior) /\ Resumable(Prior)
  BY <1>1, <1>2, <1>3 DEF Follows, Resumable
<1>5. ASSUME Prior # NoCheckpoint
      PROVE  /\ Resumable(Prior) => Stored(file.inode)
             /\ NothingSkipped(db.rows) => SettledBehind(Charged, Prior, db.recovery)
  <2>1. PICK i \in Inodes : Top(i) /\ Prior = db.checkpoints[i]
    BY <1>5, PriorIsTop
  <2>2. Resumable(Prior) => i = file.inode
    BY <1>2, <2>1 DEF Resumable, Top
  <2>3. NothingSkipped(db.rows) => SettledBehind(Charged, db.checkpoints[i], db.recovery)
    BY <2>1 DEF EvidenceDb, Top
  <2> QED BY <2>1, <2>2, <2>3 DEF Top
<1> QED BY <1>3, <1>4, <1>5

\* A scan that may run starts where the tables are settled.
LEMMA StartEvidence ==
    ASSUME Typed, SoundDb, OrderInv, EvidenceDb, Scannable,
           NEW n, NEW m \in Nat, NEW s, IsStart(s, n, m)
    PROVE  ScanEvidence(s, n)
<1> DEFINE resumed == Prior # NoCheckpoint /\ Resumable(Prior)
           anchor  == Anchor(Prior, resumed, db.recovery)
           origin  == AtOrigin(anchor, resumed, Prior)
           base == [known    |-> resumed /\ Prior.known,
                    previous |-> IF resumed THEN Prior.previous ELSE None,
                    raw      |-> IF resumed THEN Prior.raw ELSE None,
                    full     |-> IF resumed THEN Prior.full ELSE Prior = NoCheckpoint,
                    seek     |-> anchor.id, matched |-> anchor.full,
                    rows     |-> {}, events |-> {},
                    resumed  |-> resumed, first |-> 0, last |-> 0]
<1>0. /\ n = IF resumed THEN Len(Prior.prefix) ELSE 0
      /\ s = [Start EXCEPT !.first = n, !.last = m]
  BY DEF IsStart
<1>1. Prior # NoCheckpoint => Prior \in CheckpointType
  BY PriorStored
<1>2. Start = IF origin
              THEN [base EXCEPT !.known = TRUE, !.previous = anchor.id, !.full = TRUE, !.seek = None]
              ELSE base
  BY DEF Start, StartScan
<1>3. Settled(Charged, None) /\ 1..0 = {}
  <2>1. \A x \in DOMAIN file.ids : file.ids[x] \in Nat \ {0}
    BY RecordOfFile
  <2>2. \A x \in DOMAIN file.ids : ~(file.ids[x] <= None)
    BY <2>1 DEF None
  <2>3. 1..0 = {}
    OBVIOUS
  <2> QED BY <2>2, <2>3 DEF Settled
<1>4. CASE db.recovery # NoRecovery
  <2>1. anchor.id = db.recovery.anchor /\ anchor.full = db.recovery.full
    BY <1>4 DEF Anchor
  <2>2. anchor.id # None /\ ~origin
    BY <1>4, <2>1 DEF AtOrigin, EvidenceDb, SearchRecorded
  <2>3. Prior # NoCheckpoint
    <3>1. db.recovery.inode = file.inode
      BY <1>4 DEF Scannable, AnchorElsewhere
    <3>2. Stored(file.inode)
      BY <1>4, <3>1 DEF SoundDb, Stored
    <3> QED BY <3>2, PriorEvidence
  <2>4. NothingSkipped(db.rows) => Settled(Charged, anchor.id)
    BY <1>4, <2>1, <2>3, PriorEvidence DEF SettledBehind
  <2> HIDE DEF resumed, anchor, origin
  <2>5. s.rows = {} /\ s.seek = anchor.id
    BY <1>0, <1>2, <2>2
  <2> QED BY <1>4, <2>2, <2>4, <2>5 DEF ScanEvidence, Searched
<1>5. CASE db.recovery = NoRecovery /\ resumed
  <2>1. anchor.id = None /\ ~origin
    BY <1>5 DEF Anchor, AtOrigin
  <2>2. /\ Follows(Prior) /\ Prior.inode = file.inode
        /\ NothingSkipped(db.rows) => SettledBehind(Charged, Prior, db.recovery)
    BY <1>5, PriorEvidence DEF Resumable
  <2>3. Prior.prefix \in Seq(Nat) /\ n = Len(Prior.prefix) /\ DOMAIN Prior.prefix = 1..n
    BY <1>0, <1>1, <1>5 DEF CheckpointType
  <2>4. \A x \in 1..n : Prior.prefix[x] = file.ids[x]
    BY <2>2, <2>3 DEF Follows
  <2>5. NothingSkipped(db.rows) =>
            Settled(Charged, Prior.previous) /\ \A x \in 1..n : file.ids[x] <= Prior.previous
    BY <1>5, <2>2, <2>3, <2>4 DEF SettledBehind
  <2>6. resumed
    BY <1>5
  <2> HIDE DEF resumed, anchor, origin
  <2>7. s.rows = {} /\ s.seek = None /\ s.previous = Prior.previous /\ s.events = {}
    BY <1>0, <1>2, <2>1, <2>6
  <2>8. Charged \cup Covered(s.events) = Charged
    BY <2>7 DEF Covered
  <2> QED BY <2>5, <2>7, <2>8 DEF ScanEvidence, Searched
<1>6. CASE db.recovery = NoRecovery /\ ~resumed
  <2>1. n = 0
    BY <1>0, <1>6
  <2>2. CASE anchor.id = None
    <3>1. ~origin /\ ~resumed
      BY <1>6, <2>2 DEF AtOrigin
    <3> HIDE DEF resumed, anchor, origin
    <3>2. s.rows = {} /\ s.seek = None /\ s.previous = None /\ s.events = {}
      BY <1>0, <1>2, <2>2, <3>1
    <3>3. Charged \cup Covered(s.events) = Charged
      BY <3>2 DEF Covered
    <3> QED BY <1>3, <2>1, <3>2, <3>3 DEF ScanEvidence, Searched
  <2>3. CASE anchor.id # None
    <3>1. Prior # NoCheckpoint /\ anchor.id = Prior.previous /\ anchor.full = Prior.full
      BY <1>6, <2>3 DEF Anchor
    <3>2. NothingSkipped(db.rows) => Settled(Charged, anchor.id)
      BY <1>6, <3>1, PriorEvidence DEF SettledBehind
    <3>3. ~origin => ~(Prior.full /\ log[anchor.id].total = 0)
      BY <1>6, <2>3, <3>1 DEF AtOrigin
    <3> HIDE DEF resumed, anchor, origin
    <3>4. /\ s.rows = {} /\ s.events = {}
          /\ origin => s.seek = None /\ s.previous = anchor.id
          /\ ~origin => s.seek = anchor.id
      BY <1>0, <1>2
    <3>5. Charged \cup Covered(s.events) = Charged
      BY <3>4 DEF Covered
    <3>6. Searched(s.seek) /\ s.rows \subseteq 1..n
      BY <3>3, <3>4 DEF Searched
    <3> QED BY <1>3, <2>1, <2>3, <3>2, <3>4, <3>5, <3>6 DEF ScanEvidence
  <2> QED BY <2>2, <2>3
<1> QED BY <1>4, <1>5, <1>6

\* scan_source skips nothing without evidence, and reads on behind the
\* cursor of its inode.
LEMMA ScanKeepsEvidence ==
    ASSUME Typed, SoundDb, FileInv, GainInv, OneAdjustment, OrderInv, EvidenceDb, Scannable,
           NEW s, s = Scan
    PROVE  /\ ScanEvidence(s, s.last)
           /\ s.resumed <=> Stored(file.inode)
           /\ Stored(file.inode) => s.first = Len(db.checkpoints[file.inode].prefix)
<1> DEFINE resumed == Prior # NoCheckpoint /\ Resumable(Prior)
           n == IF resumed THEN Len(Prior.prefix) ELSE 0
           m == n + Min({Chunk, Len(file.ids) - n})
           from == IF resumed THEN EligibleFrom(Prior) ELSE clock
           t == [Start EXCEPT !.first = n, !.last = m]
<1>1. Scan = Pass(t, n, m, from)
  BY DEF Scan, Start
<1>2. Len(file.ids) \in Nat
  BY FileFacts
<1>3. n \in Nat /\ n <= Len(file.ids)
  <2>1. resumed => Prior.prefix \in Seq(Nat)
    BY PriorStored DEF CheckpointType
  <2> QED BY <1>2, <2>1 DEF Resumable
<1>4. n = IF Prior # NoCheckpoint /\ Resumable(Prior) THEN Len(Prior.prefix) ELSE 0
  OBVIOUS
<1> HIDE DEF resumed, n
<1>5. m \in Nat /\ n <= m /\ m <= Len(file.ids)
  BY <1>2, <1>3, ChunkBound
<1>6. t = [Start EXCEPT !.first = n, !.last = m]
  OBVIOUS
<1> HIDE DEF m, t, from
<1>7. IsStart(t, n, m)
  BY <1>4, <1>6 DEF IsStart
<1>8. /\ ScanInv(t, n) /\ t.last = m /\ t.first = n
      /\ t.resumed = (Prior # NoCheckpoint /\ Resumable(Prior))
  BY <1>5, <1>7, StartSound
<1>9. ScanEvidence(t, n)
  BY <1>5, <1>7, StartEvidence
<1>10. ScanEvidence(Scan, m)
  BY <1>1, <1>3, <1>5, <1>8, <1>9, PassEvidence
<1>11. SameScan(Scan, t)
  BY <1>1, <1>3, <1>5, <1>8, PassSound
<1>12. /\ s.last = m /\ s.first = n
       /\ s.resumed = (Prior # NoCheckpoint /\ Resumable(Prior))
  BY <1>8, <1>11 DEF SameScan
<1> QED BY <1>4, <1>10, <1>12, PriorEvidence

\* Which evidence an accepted outcome leaves: its own, and what it neither
\* supersedes nor resolves.
LEMMA AcceptRows ==
    ASSUME NEW d \in DbType, NEW o \in OutcomeType, NEW a, a = Accept(d, o)
    PROVE  /\ \A r \in a.rows : r \in o.rows \/ r \in d.rows
           /\ \A r \in a.rows \ o.rows :
                  o.resolved /\ d.recovery # NoRecovery => r # d.recovery.row
           /\ \A r \in d.rows : \/ r \in a.rows
                                \/ Superseded(o, r)
                                \/ d.recovery # NoRecovery /\ r = d.recovery.row
<1> DEFINE settled == IF o.resolved /\ d.recovery # NoRecovery
                      THEN [d EXCEPT !.recovery = NoRecovery, !.rows = @ \ {d.recovery.row}]
                      ELSE d
           rows == {r \in settled.rows : ~Superseded(o, r)} \cup o.rows
<1>1. a = [settled EXCEPT
             !.rows     = rows,
             !.recovery = IF o.recovery # NoRecovery THEN o.recovery ELSE @,
             !.events   = @ \cup o.events]
  BY DEF Accept, ReplaceRows, Superseded
<1>2. /\ settled.rows = IF o.resolved /\ d.recovery # NoRecovery
                        THEN d.rows \ {d.recovery.row} ELSE d.rows
      /\ settled = [settled EXCEPT !.rows = settled.rows]
      /\ DOMAIN settled = DOMAIN d
  <2>1. CASE o.resolved /\ d.recovery # NoRecovery
    <3>1. settled = [d EXCEPT !.recovery = NoRecovery, !.rows = d.rows \ {d.recovery.row}]
      BY <2>1
    <3> HIDE DEF settled
    <3> QED BY <2>1, <3>1 DEF DbType
  <2>2. CASE ~(o.resolved /\ d.recovery # NoRecovery)
    <3>1. settled = d
      BY <2>2
    <3> HIDE DEF settled
    <3> QED BY <2>2, <3>1 DEF DbType
  <2> QED BY <2>1, <2>2
<1>3. "rows" \in DOMAIN d
  BY DEF DbType
<1> HIDE DEF settled
<1>4. a.rows = rows
  <2> HIDE DEF rows
  <2> QED BY <1>1, <1>2, <1>3
<1> QED BY <1>2, <1>4

\* The evidence of an outcome and the search it continues.
LEMMA OutcomeRows ==
    ASSUME Typed, NEW s, NEW o, o = OutcomeOf(s)
    PROVE  /\ o.range.start = IF s.resumed THEN s.first + 1 ELSE 0
           /\ o.resolved => db.recovery # NoRecovery
           /\ \A r \in o.rows :
                  \/ db.recovery # NoRecovery /\ r = db.recovery.row
                  \/ r.inode = file.inode /\ (r.start \in s.rows \/ r.start = 0)
           /\ s.rows # {} => \E r \in o.rows : r.reason = "record"
           /\ s.seek # None =>
                  /\ o.recovery.row \in o.rows
                  /\ db.recovery # NoRecovery =>
                         o.recovery.row = db.recovery.row /\ o.recovery.full = db.recovery.full
                  /\ db.recovery = NoRecovery =>
                         o.recovery.row.reason = "anchor" /\ o.recovery.full = Prior.full
<1> DEFINE prior   == Prior
           saved   == db.recovery
           start   == IF s.resumed THEN s.first + 1 ELSE 0
           prefix  == SubSeq(file.ids, 1, s.last)
           lineage == IF s.resumed THEN prior.lineage ELSE <<epoch, file.inode, prefix>>
           bound   == IF s.resumed THEN prior.bound ELSE clock
           missing == Row(lineage, 0, prefix, "anchor")
           record(p) == Row(lineage, p, <<file.ids[p]>>, "record")
           rows    == {record(p) : p \in s.rows}
                        \cup (IF s.seek # None /\ saved = NoRecovery THEN {missing} ELSE {})
           search  == IF saved # NoRecovery THEN saved
                      ELSE [anchor |-> s.seek, full |-> prior.full, row |-> missing]
           full    == (s.full \/ ~s.resumed) /\ rows = {}
           origin  == (s.resumed /\ prior.origin) \/ CreatedHere(bound)
           cp      == [inode |-> file.inode, lineage |-> lineage, epoch |-> epoch,
                       cycle |-> db.cycle + 1, prefix |-> prefix,
                       known |-> s.known, previous |-> s.previous, raw |-> s.raw,
                       full  |-> full, bound |-> bound, origin |-> origin]
           range   == [lineage |-> lineage, start |-> start, end |-> s.last + 1,
                       ids |-> SubSeq(file.ids, s.first + 1, s.last)]
           allrows == rows \cup
                      (IF s.seek # None /\ saved # NoRecovery THEN {saved.row} ELSE {})
           found   == [inode |-> file.inode, epoch |-> epoch, lineage |-> lineage,
                       offset |-> s.last + 1, anchor |-> search.anchor,
                       full |-> search.full, row |-> search.row]
           recovery == IF s.seek = None THEN NoRecovery ELSE found
           resolved == saved # NoRecovery /\ s.seek = None
           backlog == s.last < Len(file.ids)
           events  == {[inode |-> file.inode, lineage |-> lineage, start |-> start,
                        end |-> s.last + 1, id |-> e.id, delta |-> e.delta,
                        before |-> e.before, at |-> e.at, covers |-> e.covers] : e \in s.events}
<1>1. o = [checkpoint |-> cp, range |-> range, rows |-> allrows, recovery |-> recovery,
           resolved |-> resolved, backlog |-> backlog, events |-> events]
  BY DEF OutcomeOf
<1>2. /\ saved # NoRecovery => search.full = saved.full /\ search.row = saved.row
      /\ saved = NoRecovery => search.full = prior.full /\ search.row = missing
  <2> HIDE DEF missing, prior, saved
  <2> QED OBVIOUS
<1>3. /\ missing.inode = file.inode /\ missing.start = 0 /\ missing.reason = "anchor"
      /\ \A p \in s.rows : /\ record(p).inode = file.inode /\ record(p).start = p
                           /\ record(p).reason = "record"
  BY DEF Row
<1> HIDE DEF events, backlog, resolved, full, origin, bound, missing, record, cp, search, prefix,
             lineage, prior
<1>4. range.start = start /\ found.full = search.full /\ found.row = search.row
  OBVIOUS
<1> HIDE DEF found, range, start
<1>5. /\ o.range = range /\ o.rows = allrows /\ o.recovery = recovery
      /\ o.resolved = resolved
  <2> HIDE DEF allrows, recovery
  <2> QED BY <1>1
<1>10. o.resolved => db.recovery # NoRecovery
  BY <1>5 DEF resolved
<1>6. o.range.start = IF s.resumed THEN s.first + 1 ELSE 0
  BY <1>4, <1>5 DEF start
<1>7. \A r \in allrows :
          \/ db.recovery # NoRecovery /\ r = db.recovery.row
          \/ r.inode = file.inode /\ (r.start \in s.rows \/ r.start = 0)
  BY <1>3
<1>8. s.rows # {} => \E r \in allrows : r.reason = "record"
  BY <1>3
<1>9. ASSUME s.seek # None
      PROVE  /\ recovery.row \in allrows
             /\ db.recovery # NoRecovery =>
                    recovery.row = db.recovery.row /\ recovery.full = db.recovery.full
             /\ db.recovery = NoRecovery =>
                    recovery.row.reason = "anchor" /\ recovery.full = Prior.full
  BY <1>2, <1>3, <1>4, <1>9 DEF prior
<1> HIDE DEF allrows, recovery
<1> QED BY <1>5, <1>6, <1>7, <1>8, <1>9, <1>10

\* What run_cycle prepares has evidence for all it skips.
LEMMA OutcomeKeepsEvidence ==
    ASSUME Typed, SoundDb, FileInv, GainInv, OneAdjustment, OrderInv, EvidenceDb, Scannable,
           NEW o, o = OutcomeOf(Scan)
    PROVE  EvidenceOutcome(o) /\ (o.resolved => db.recovery # NoRecovery)
<1> DEFINE s == Scan
<1>0. o = OutcomeOf(s)
  OBVIOUS
<1>1. /\ ScanResult(s) /\ ScanEvidence(s, s.last)
      /\ s.resumed <=> Stored(file.inode)
      /\ Stored(file.inode) => s.first = Len(db.checkpoints[file.inode].prefix)
  BY ScanSound, ScanKeepsEvidence
<1> HIDE DEF s
<1>2. /\ o.checkpoint.inode = file.inode /\ o.checkpoint.previous = s.previous
      /\ s.seek = None => o.recovery = NoRecovery
      /\ s.seek # None =>
             /\ o.recovery # NoRecovery
             /\ o.recovery.anchor =
                   IF db.recovery # NoRecovery THEN db.recovery.anchor ELSE s.seek
      /\ o.checkpoint.prefix = SubSeq(file.ids, 1, s.last)
      /\ SameAmounts(o.events, s.events)
  BY <1>0, OutcomeFields
<1>3. /\ o.range.start = IF s.resumed THEN s.first + 1 ELSE 0
      /\ o.resolved => db.recovery # NoRecovery
      /\ \A r \in o.rows :
             \/ db.recovery # NoRecovery /\ r = db.recovery.row
             \/ r.inode = file.inode /\ (r.start \in s.rows \/ r.start = 0)
      /\ s.rows # {} => \E r \in o.rows : r.reason = "record"
      /\ s.seek # None =>
             /\ o.recovery.row \in o.rows
             /\ db.recovery # NoRecovery =>
                    o.recovery.row = db.recovery.row /\ o.recovery.full = db.recovery.full
             /\ db.recovery = NoRecovery =>
                    o.recovery.row.reason = "anchor" /\ o.recovery.full = Prior.full
  BY <1>0, OutcomeRows
<1>4. s.last \in Nat /\ s.first \in Nat /\ s.last <= Len(file.ids) /\ s.first <= s.last
  BY <1>1 DEF ScanResult, ScanInv, ScanType
<1> DEFINE u == o.checkpoint.prefix
<1>5. Len(u) = s.last /\ DOMAIN u = 1..s.last /\ \A x \in 1..s.last : u[x] = file.ids[x]
  BY <1>2, <1>4, PrefixFacts
<1> HIDE DEF u
<1>6. Follows(o.checkpoint)
  BY <1>4, <1>5 DEF Follows, u
<1>7. Stored(file.inode) => /\ o.range.start > Len(db.checkpoints[file.inode].prefix)
                            /\ Len(u) >= Len(db.checkpoints[file.inode].prefix)
  BY <1>1, <1>3, <1>4, <1>5
<1>8. SearchRecorded(db.recovery, db.rows)
  BY DEF EvidenceDb
<1>9. ASSUME NEW r \in o.rows \ db.rows PROVE r.inode = file.inode /\ r.start <= Len(u)
  <2>1. r.inode = file.inode /\ (r.start \in s.rows \/ r.start = 0)
    BY <1>3, <1>8, <1>9 DEF SearchRecorded
  <2>2. s.rows \subseteq 1..s.last
    BY <1>1 DEF ScanEvidence
  <2> QED BY <1>4, <1>5, <2>1, <2>2
<1>10. SearchRecorded(o.recovery, o.rows)
  <2>1. CASE s.seek = None
    BY <1>2, <2>1 DEF SearchRecorded
  <2>2. CASE s.seek # None /\ db.recovery # NoRecovery
    BY <1>2, <1>3, <1>8, <2>2 DEF SearchRecorded
  <2>3. CASE s.seek # None /\ db.recovery = NoRecovery
    BY <1>1, <1>2, <1>3, <2>3 DEF SearchRecorded, ScanEvidence, Searched
  <2> QED BY <2>1, <2>2, <2>3
<1>11. ASSUME NothingSkipped(db.rows \cup o.rows)
       PROVE  SettledBehind(Charged \cup Covered(o.events), o.checkpoint, o.recovery)
  <2>1. NothingSkipped(db.rows) /\ s.rows = {}
    BY <1>3, <1>11 DEF NothingSkipped
  <2>2. Covered(o.events) = Covered(s.events)
    <3>1. PICK g : /\ o.events = {g[e] : e \in s.events} /\ g = [e \in s.events |-> g[e]]
                   /\ \A e \in s.events : g[e].delta = e.delta /\ g[e].covers = e.covers
      BY <1>2 DEF SameAmounts
    <3> QED BY <3>1 DEF Covered
  <2>3. CASE s.seek = None
    <3>1. /\ Settled(Charged \cup Covered(s.events), s.previous)
          /\ \A x \in 1..s.last : file.ids[x] <= s.previous
      BY <1>1, <2>1, <2>3 DEF ScanEvidence
    <3>2. \A x \in DOMAIN u : u[x] <= s.previous
      BY <1>5, <3>1
    <3> QED BY <1>2, <2>2, <2>3, <3>1, <3>2 DEF SettledBehind, u
  <2>4. CASE s.seek # None
    <3>1. Settled(Charged, o.recovery.anchor)
      <4>1. CASE db.recovery = NoRecovery
        BY <1>1, <1>2, <2>1, <2>4, <4>1 DEF ScanEvidence
      <4>2. CASE db.recovery # NoRecovery
        <5>1. Stored(file.inode)
          BY <4>2 DEF Scannable, AnchorElsewhere, SoundDb, Stored
        <5>2. SettledBehind(Charged, Prior, db.recovery)
          BY <2>1, <5>1, PriorEvidence
        <5> QED BY <1>2, <2>4, <4>2, <5>2 DEF SettledBehind
      <4> QED BY <4>1, <4>2
    <3>2. Settled(Charged \cup Covered(o.events), o.recovery.anchor)
      BY <3>1, SettledMore
    <3> QED BY <1>2, <2>4, <3>2 DEF SettledBehind
  <2> QED BY <2>3, <2>4
<1> QED BY <1>2, <1>3, <1>6, <1>7, <1>9, <1>10, <1>11 DEF EvidenceOutcome, u

-----------------------------------------------------------------------------
(* What is skipped leaves evidence: the steps.                               *)

\* How a file moves that is never cut in place: records are added behind all
\* that were written, or a copy of a prefix gets a new inode.
FileMoves ==
    /\ \A x \in DOMAIN file'.ids :
           \/ x \in DOMAIN file.ids /\ file'.ids[x] = file.ids[x]
           \/ file'.ids[x] > Len(log)
    /\ \/ file'.inode > file.inode
       \/ /\ file'.inode = file.inode /\ Len(file.ids) <= Len(file'.ids)
          /\ \A x \in DOMAIN file.ids : file'.ids[x] = file.ids[x]

\* What is settled stays settled.
StaysSettled(C, f) ==
    \A x \in DOMAIN file'.ids :
        file'.ids[x] <= f /\ log'[file'.ids[x]].gain > 0 => file'.ids[x] \in C

LEMMA SettledKept ==
    ASSUME Typed, Typed', LogKept, FileMoves, NEW C, NEW f \in Nat, f <= Len(log), Settled(C, f)
    PROVE  StaysSettled(C, f)
<1> SUFFICES ASSUME NEW x \in DOMAIN file'.ids,
                    file'.ids[x] <= f, log'[file'.ids[x]].gain > 0
             PROVE  file'.ids[x] \in C
  BY DEF StaysSettled
<1>1. file'.ids[x] \in Nat /\ Len(log) \in Nat
  <2>1. file'.ids \in Seq(DOMAIN log') /\ log' \in Seq(RecordType)
    BY DEF Typed
  <2>2. file'.ids[x] \in DOMAIN log' /\ DOMAIN log' \subseteq Nat
    BY <2>1
  <2> QED BY <2>2, LogFacts
<1>2. x \in DOMAIN file.ids /\ file'.ids[x] = file.ids[x]
  BY <1>1 DEF FileMoves
<1>3. log'[file.ids[x]] = log[file.ids[x]]
  <2>1. file.ids[x] \in DOMAIN log
    BY <1>2, RecordOfFile
  <2> QED BY <2>1 DEF LogKept
<1> QED BY <1>2, <1>3 DEF Settled

LEMMA SettledBehindKept ==
    ASSUME Typed, Typed', LogKept, FileMoves, NEW C, NEW cp, NEW recovery,
           cp.previous \in Nat, cp.previous <= Len(log),
           recovery # NoRecovery => recovery.anchor \in Nat /\ recovery.anchor <= Len(log),
           SettledBehind(C, cp, recovery)
    PROVE  IF recovery # NoRecovery THEN StaysSettled(C, recovery.anchor)
           ELSE StaysSettled(C, cp.previous) /\ \A x \in DOMAIN cp.prefix : cp.prefix[x] <= cp.previous
<1>1. CASE recovery # NoRecovery
  BY <1>1, SettledKept DEF SettledBehind
<1>2. CASE recovery = NoRecovery
  BY <1>2, SettledKept DEF SettledBehind
<1> QED BY <1>1, <1>2

\* An accepted prefix of the inode stays the start of the file.
LEMMA FollowsKept ==
    ASSUME Typed, Typed', FileMoves, NEW cp \in CheckpointType, cp.inode <= file.inode, Follows(cp)
    PROVE  cp.inode = file'.inode =>
               /\ Len(cp.prefix) <= Len(file'.ids)
               /\ \A x \in DOMAIN cp.prefix : cp.prefix[x] = file'.ids[x]
<1> SUFFICES ASSUME cp.inode = file'.inode
             PROVE  /\ Len(cp.prefix) <= Len(file'.ids)
                    /\ \A x \in DOMAIN cp.prefix : cp.prefix[x] = file'.ids[x]
  OBVIOUS
<1>1. file.inode \in Nat /\ file'.inode \in Nat /\ Len(file.ids) \in Nat /\ Len(file'.ids) \in Nat
  <2>1. file.inode \in Inodes /\ file'.inode \in Inodes /\ file'.ids \in Seq(DOMAIN log')
    BY FileFacts DEF Typed
  <2> QED BY <2>1, FileFacts DEF Inodes
<1>2. /\ file'.inode = file.inode /\ Len(file.ids) <= Len(file'.ids)
      /\ \A x \in DOMAIN file.ids : file'.ids[x] = file.ids[x]
  BY <1>1 DEF FileMoves
<1>3. /\ cp.prefix \in Seq(Nat) /\ Len(cp.prefix) \in Nat /\ Len(cp.prefix) <= Len(file.ids)
      /\ \A x \in DOMAIN cp.prefix : cp.prefix[x] = file.ids[x]
  BY <1>2 DEF Follows, CheckpointType
<1>4. \A x \in DOMAIN cp.prefix : x \in DOMAIN file.ids
  BY <1>1, <1>3, FileFacts
<1> QED BY <1>1, <1>2, <1>3, <1>4

\* A step that leaves cursors, charges, search and evidence as they are.
LEMMA EvidenceKept ==
    ASSUME CollectionInv, Typed', LedgerInv, OneAdjustment, EvidenceInv, LogKept, FileMoves, GainInv',
           db'.checkpoints = db.checkpoints, db'.events = db.events, db'.recovery = db.recovery,
           db'.rows = db.rows, db'.complete => db.rows = {},
           \/ phase' = "idle"
           \/ phase # "idle" /\ UNCHANGED <<batch, db>>
           \/ EvidenceBatch'
    PROVE  EvidenceInv'
<1>1. Typed /\ SoundDb /\ OrderInv /\ EvidenceDb
  BY DEF CollectionInv, LedgerInv, EvidenceInv
<1>2. \A i \in Inodes : Stored(i)' <=> Stored(i)
  BY DEF Stored
<1>3. Charged' = Charged
  BY DEF Charged
<1>4. LogKept /\ FileInv
  BY DEF LedgerInv
<1>5. ASSUME NEW i \in Inodes, Stored(i)
      PROVE  /\ db.checkpoints[i] \in CheckpointType /\ db.checkpoints[i].inode = i
             /\ i <= file.inode /\ Follows(db.checkpoints[i])
             /\ db.checkpoints[i].previous \in Nat /\ db.checkpoints[i].previous <= Len(log)
  <2>1. db.checkpoints[i] \in CheckpointType /\ SoundCheckpoint(db.checkpoints[i])
    BY <1>1, <1>5, StoredCheckpoint DEF Stored
  <2>2. db.checkpoints[i].previous \in Nat
    BY <2>1 DEF CheckpointType
  <2> QED BY <1>1, <1>5, <2>1, <2>2 DEF OrderInv, EvidenceDb, SoundCheckpoint
<1>6. db.recovery # NoRecovery => db.recovery.anchor \in Nat /\ db.recovery.anchor <= Len(log)
  BY <1>1, DbFacts DEF SoundDb
<1>7. EvidenceDb'
  <2>1. ASSUME NEW i \in Inodes, Stored(i)'
        PROVE  (db.checkpoints[i].inode = i /\ Follows(db.checkpoints[i]))'
    <3>1. Stored(i)
      BY <1>2, <2>1
    <3>2. db.checkpoints[i].inode = file'.inode =>
              /\ Len(db.checkpoints[i].prefix) <= Len(file'.ids)
              /\ \A x \in DOMAIN db.checkpoints[i].prefix :
                     db.checkpoints[i].prefix[x] = file'.ids[x]
      BY <1>1, <1>5, <3>1, FollowsKept
    <3> QED BY <1>5, <3>1, <3>2 DEF Follows
  <2>2. \A r \in db.rows : Stored(r.inode)' /\ r.start <= Len(db'.checkpoints[r.inode].prefix)
    BY <1>1 DEF EvidenceDb, Stored
  <2>3. SearchRecorded(db.recovery, db.rows)'
    <3>1. db.recovery # NoRecovery => log'[db.recovery.anchor] = log[db.recovery.anchor]
      <4>1. db.recovery # NoRecovery => db.recovery.anchor # None
        BY <1>1 DEF EvidenceDb, SearchRecorded
      <4>2. db.recovery # NoRecovery => db.recovery.anchor \in DOMAIN log
        BY <1>1, <1>6, <4>1, LogFacts DEF None
      <4> QED BY <4>2 DEF LogKept
    <3> QED BY <1>1, <3>1 DEF EvidenceDb, SearchRecorded
  <2>4. ASSUME NothingSkipped(db'.rows), NEW i \in Inodes, Stored(i)',
               \A j \in Inodes : Stored(j)' => j <= i
        PROVE  SettledBehind(Charged, db.checkpoints[i], db.recovery)'
    <3>1. Stored(i) /\ SettledBehind(Charged, db.checkpoints[i], db.recovery)
      BY <1>1, <1>2, <2>4 DEF EvidenceDb
    <3> DEFINE C == Charged
               cp == db.checkpoints[i]
               recovery == db.recovery
    <3>2. IF recovery # NoRecovery THEN StaysSettled(C, recovery.anchor)
          ELSE StaysSettled(C, cp.previous) /\ \A x \in DOMAIN cp.prefix : cp.prefix[x] <= cp.previous
      BY <1>1, <1>5, <1>6, <3>1, SettledBehindKept
    <3> QED BY <1>3, <3>2 DEF SettledBehind, Settled, StaysSettled
  <2> QED BY <2>1, <2>2, <2>3, <2>4 DEF EvidenceDb, NothingSkipped
<1>8. ASSUME phase # "idle", phase' # "idle", UNCHANGED <<batch, db>> PROVE EvidenceBatch'
  <2> SUFFICES ASSUME batch.cycle = db.cycle + 1 PROVE EvidenceBatch'
    BY <1>8 DEF EvidenceBatch
  <2> DEFINE o == batch.outcome
  <2>1. /\ o # NoOutcome => EvidenceOutcome(o)
        /\ batch.complete =>
               /\ o # NoOutcome => o.rows = {}
               /\ \A r \in db.rows : /\ o # NoOutcome /\ o.resolved
                                     /\ db.recovery # NoRecovery /\ r = db.recovery.row
    BY <1>8 DEF EvidenceInv, EvidenceBatch
  <2>2. ASSUME o # NoOutcome PROVE EvidenceOutcome(batch.outcome)'
    <3>1. o \in OutcomeType /\ SoundOutcome(o) /\ o.checkpoint.inode <= file.inode
      BY <1>1, <1>8, <2>2 DEF CollectionInv, SoundBatch, Typed, BatchType, LedgerInv, LedgerBatch
    <3>2. o.checkpoint \in CheckpointType /\ o.recovery \in RecoveryType \cup {NoRecovery}
      BY <3>1 DEF OutcomeType
    <3>3. /\ o.checkpoint.previous \in Nat /\ o.checkpoint.previous <= Len(log)
          /\ o.recovery # NoRecovery => o.recovery.anchor \in Nat /\ o.recovery.anchor <= Len(log)
      <4>1. o.checkpoint.previous \in Nat /\ (o.recovery # NoRecovery => o.recovery.anchor \in Nat)
        <5> HIDE DEF o
        <5> QED BY <3>2 DEF CheckpointType, RecoveryType
      <4> QED BY <3>1, <4>1 DEF SoundOutcome, SoundCheckpoint
    <3>4. EvidenceOutcome(o)
      BY <2>1, <2>2
    <3>5. Follows(batch.outcome.checkpoint)'
      <4> DEFINE cp == o.checkpoint
      <4>1. cp \in CheckpointType /\ cp.inode <= file.inode /\ Follows(cp)
        BY <3>1, <3>2, <3>4 DEF EvidenceOutcome
      <4> HIDE DEF cp
      <4>2. cp.inode = file'.inode =>
               /\ Len(cp.prefix) <= Len(file'.ids)
               /\ \A x \in DOMAIN cp.prefix : cp.prefix[x] = file'.ids[x]
        BY <1>1, <4>1, FollowsKept
      <4> QED BY <1>8, <4>2 DEF Follows, cp
    <3>6. SearchRecorded(batch.outcome.recovery, batch.outcome.rows)'
      <4>1. o.recovery # NoRecovery => log'[o.recovery.anchor] = log[o.recovery.anchor]
        <5>1. o.recovery # NoRecovery => o.recovery.anchor # None
          BY <3>4 DEF EvidenceOutcome, SearchRecorded
        <5>2. o.recovery # NoRecovery => o.recovery.anchor \in DOMAIN log
          BY <1>1, <3>3, <5>1, LogFacts DEF None
        <5> QED BY <5>2 DEF LogKept
      <4> QED BY <1>8, <3>4, <4>1 DEF EvidenceOutcome, SearchRecorded
    <3>7. ASSUME NothingSkipped(db.rows \cup o.rows)
          PROVE  SettledBehind(Charged \cup Covered(batch.outcome.events),
                               batch.outcome.checkpoint, batch.outcome.recovery)'
      <4> DEFINE C == Charged \cup Covered(o.events)
                 cp == o.checkpoint
                 recovery == o.recovery
      <4>1. SettledBehind(C, cp, recovery)
        BY <3>4, <3>7 DEF EvidenceOutcome
      <4>2. C = (Charged \cup Covered(batch.outcome.events))'
        BY <1>3, <1>8 DEF Covered
      <4>3. /\ cp.previous \in Nat /\ cp.previous <= Len(log)
            /\ recovery # NoRecovery => recovery.anchor \in Nat /\ recovery.anchor <= Len(log)
        BY <3>3
      <4>4. cp = batch'.outcome.checkpoint /\ recovery = batch'.outcome.recovery
        BY <1>8
      <4> HIDE DEF C, cp, recovery
      <4>5. IF recovery # NoRecovery THEN StaysSettled(C, recovery.anchor)
            ELSE StaysSettled(C, cp.previous) /\ \A x \in DOMAIN cp.prefix : cp.prefix[x] <= cp.previous
        BY <1>1, <4>1, <4>3, SettledBehindKept
      <4> QED BY <4>2, <4>4, <4>5 DEF SettledBehind, Settled, StaysSettled
    <3>8. Stored(o.checkpoint.inode)' <=> Stored(o.checkpoint.inode)
      BY <1>8 DEF Stored
    <3> QED BY <1>8, <3>4, <3>5, <3>6, <3>7, <3>8 DEF EvidenceOutcome, NothingSkipped
  <2> QED BY <1>8, <2>1, <2>2 DEF EvidenceBatch
<1> QED BY <1>7, <1>8 DEF EvidenceInv

LEMMA InitEvidence ==
    ASSUME Init
    PROVE  EvidenceInv
<1>1. DOMAIN file.ids = {} /\ DOMAIN log = {}
  BY DEF Init
<1>2. GainInv
  BY <1>1 DEF GainInv
<1>3. \A i \in Inodes : ~Stored(i)
  BY DEF Init, Stored
<1>4. db.rows = {} /\ db.recovery = NoRecovery /\ phase = "idle"
  BY DEF Init
<1> QED BY <1>2, <1>3, <1>4 DEF EvidenceInv, EvidenceDb, SearchRecorded

\* A new record consumed no more than its counter shows, and its counter
\* follows from the one before.
LEMMA WriteEvidence ==
    ASSUME CollectionInv, Typed', LedgerInv, OneAdjustment, EvidenceInv,
           NEW r \in RecordType, Write(r),
           r.gain <= r.total, r.kind = "adjust" => r.gain = 0,
           r.kind = "count" => r.total = Counter + r.gain,
           r.kind = "drop" => r.total < Counter
    PROVE  EvidenceInv'
<1>0. Typed /\ GainInv
  BY DEF CollectionInv, EvidenceInv
<1>1. /\ log \in Seq(RecordType) /\ Len(log) \in Nat /\ DOMAIN log = 1..Len(log)
  BY <1>0, LogFacts
<1>2. /\ log' = Append(log, r)
      /\ UNCHANGED <<phase, batch, db>>
  BY DEF Write, process
<1>3. /\ DOMAIN log' = 1..(Len(log) + 1) /\ log'[Len(log) + 1] = r
      /\ \A i \in 1..Len(log) : log'[i] = log[i]
  BY <1>1, <1>2
<1>4. LogKept
  BY <1>1, <1>3 DEF LogKept
<1>5. /\ file.ids \in Seq(Nat) /\ Len(file.ids) \in Nat /\ DOMAIN file.ids = 1..Len(file.ids)
      /\ file \in [inode : Inodes, ids : Seq(DOMAIN log)]
  BY <1>0, FileFacts DEF Typed
<1> DEFINE n == Len(file.ids)
<1>6. file'.inode = file.inode /\ file'.ids = Append(file.ids, Len(log) + 1)
  BY <1>5 DEF Write
<1>7. /\ DOMAIN file'.ids = 1..(n + 1) /\ file'.ids[n + 1] = Len(log) + 1
      /\ Len(file'.ids) = n + 1
      /\ \A q \in 1..n : file'.ids[q] = file.ids[q]
  BY <1>1, <1>5, <1>6
<1>8. \A i \in DOMAIN log' :
          log'[i].gain <= log'[i].total /\ (log'[i].kind = "adjust" => log'[i].gain = 0)
  <2> TAKE i \in DOMAIN log'
  <2>1. CASE i \in DOMAIN log
    BY <1>0, <1>4, <2>1 DEF GainInv, LogKept
  <2>2. CASE i \notin DOMAIN log
    <3>1. i = Len(log) + 1
      BY <1>1, <1>3, <2>2
    <3> QED BY <1>3, <3>1
  <2> QED BY <2>1, <2>2
<1>9. ASSUME NEW p \in DOMAIN file'.ids, p > 1
      PROVE  /\ log'[file'.ids[p]].kind = "count" =>
                    log'[file'.ids[p]].total = log'[file'.ids[p - 1]].total + log'[file'.ids[p]].gain
             /\ log'[file'.ids[p]].kind = "drop" =>
                    log'[file'.ids[p]].total < log'[file'.ids[p - 1]].total
  <2>1. p - 1 \in DOMAIN file.ids /\ file'.ids[p - 1] = file.ids[p - 1]
    BY <1>5, <1>7, <1>9
  <2>2. log'[file.ids[p - 1]] = log[file.ids[p - 1]]
    <3>1. file.ids[p - 1] \in DOMAIN log
      BY <1>0, <2>1, RecordOfFile
    <3> QED BY <1>4, <3>1 DEF LogKept
  <2>3. CASE p \in DOMAIN file.ids
    <3>1. file'.ids[p] = file.ids[p] /\ file.ids[p] \in DOMAIN log
      BY <1>0, <1>5, <1>7, <2>3, RecordOfFile
    <3>2. log'[file.ids[p]] = log[file.ids[p]]
      BY <1>4, <3>1 DEF LogKept
    <3>3. /\ log[file.ids[p]].kind = "count" =>
                 log[file.ids[p]].total = log[file.ids[p - 1]].total + log[file.ids[p]].gain
          /\ log[file.ids[p]].kind = "drop" =>
                 log[file.ids[p]].total < log[file.ids[p - 1]].total
      BY <1>0, <1>9, <2>3, GainOf
    <3> QED BY <2>1, <2>2, <3>1, <3>2, <3>3
  <2>4. CASE p \notin DOMAIN file.ids
    <3>1. p = n + 1 /\ file'.ids[p] = Len(log) + 1 /\ p - 1 = n /\ n # 0
      BY <1>5, <1>7, <2>1, <2>4
    <3>2. log'[file'.ids[p]] = r
      BY <1>3, <3>1
    <3>3. Counter = log[file.ids[n]].total
      <4>1. file.ids # <<>>
        BY <1>5, <3>1
      <4> QED BY <4>1 DEF Counter, Last
    <3> HIDE DEF n
    <3> QED BY <2>1, <2>2, <3>1, <3>2, <3>3
  <2> QED BY <2>3, <2>4
<1>10. GainInv'
  BY <1>8, <1>9 DEF GainInv
<1>11. FileMoves
  <2>1. \A x \in DOMAIN file'.ids : \/ x \in DOMAIN file.ids /\ file'.ids[x] = file.ids[x]
                                    \/ file'.ids[x] > Len(log)
    <3> TAKE x \in DOMAIN file'.ids
    <3>1. x \in 1..n \/ x = n + 1
      BY <1>5, <1>7
    <3> QED BY <1>1, <1>5, <1>7, <3>1
  <2>2. Len(file.ids) <= Len(file'.ids)
    BY <1>5, <1>7
  <2>3. \A x \in DOMAIN file.ids : file'.ids[x] = file.ids[x]
    BY <1>5, <1>7
  <2> QED BY <1>6, <2>1, <2>2, <2>3 DEF FileMoves
<1>12. db.complete => db.rows = {}
  BY DEF EvidenceInv, EvidenceDb
<1> QED BY <1>2, <1>4, <1>10, <1>11, <1>12, EvidenceKept

LEMMA AppendsEvidence ==
    ASSUME CollectionInv, CollectionInv', LedgerInv, OneAdjustment, EvidenceInv,
           AppendCount \/ AppendAdjust \/ AppendBad \/ AppendDrop
    PROVE  EvidenceInv'
<1>1. Counter \in Nat /\ clock \in Nat /\ Window \in Nat \ {0} /\ Typed /\ Typed'
  BY CounterFacts, SessionAssumption DEF CollectionInv
<1>2. CASE AppendCount
  <2>1. PICK n \in {0, 1} : Write([kind |-> "count", at |-> clock, total |-> Counter + n, gain |-> n])
    BY <1>2 DEF AppendCount
  <2> DEFINE r == [kind |-> "count", at |-> clock, total |-> Counter + n, gain |-> n]
  <2>2. r \in RecordType /\ r.kind = "count" /\ r.gain <= r.total /\ r.total = Counter + r.gain
    BY <1>1 DEF RecordType
  <2> HIDE DEF r
  <2> QED BY <1>1, <2>1, <2>2, WriteEvidence DEF r
<1>3. CASE AppendAdjust
  <2> DEFINE r == [kind |-> "adjust", at |-> clock, total |-> Window, gain |-> 0]
  <2>1. Write(r)
    BY <1>3 DEF AppendAdjust
  <2>2. r \in RecordType /\ r.kind = "adjust" /\ r.gain = 0 /\ r.gain <= r.total
    BY <1>1 DEF RecordType
  <2> HIDE DEF r
  <2> QED BY <1>1, <2>1, <2>2, WriteEvidence
<1>4. CASE AppendBad
  <2> DEFINE r == [kind |-> "bad", at |-> clock, total |-> Counter + 1, gain |-> 1]
  <2>1. Write(r)
    BY <1>4 DEF AppendBad
  <2>2. r \in RecordType /\ r.kind = "bad" /\ r.gain <= r.total
    BY <1>1 DEF RecordType
  <2> HIDE DEF r
  <2> QED BY <1>1, <2>1, <2>2, WriteEvidence
<1>5. CASE AppendDrop
  <2> DEFINE r == [kind |-> "drop", at |-> clock, total |-> 1, gain |-> 1]
  <2>1. Write(r) /\ Counter > 1
    BY <1>5 DEF AppendDrop
  <2>2. r \in RecordType /\ r.kind = "drop" /\ r.gain <= r.total /\ r.total < Counter
    BY <1>1, <2>1 DEF RecordType
  <2> HIDE DEF r
  <2> QED BY <1>1, <2>1, <2>2, WriteEvidence
<1> QED BY <1>2, <1>3, <1>4, <1>5

\* A copy of a prefix on a new inode.
LEMMA ReplaceEvidence ==
    ASSUME CollectionInv, CollectionInv', LedgerInv, OneAdjustment, EvidenceInv, GrowsInPlace, Replace
    PROVE  EvidenceInv'
<1>1. Typed /\ Typed' /\ UNCHANGED <<log, phase, batch, db>>
  BY DEF CollectionInv, Replace, process
<1>2. PICK k \in 0..Len(file.ids), i \in {file.inode, file.inode + 1} :
          /\ k < Len(file.ids) \/ i # file.inode
          /\ file' = [inode |-> i, ids |-> SubSeq(file.ids, 1, k)]
  BY DEF Replace
<1>3. file.ids \in Seq(Nat) /\ Len(file.ids) \in Nat /\ DOMAIN file.ids = 1..Len(file.ids)
      /\ file.inode \in Nat
  BY <1>1, FileFacts DEF Inodes
<1>4. file'.ids = SubSeq(file.ids, 1, k) /\ file'.inode = i /\ k \in Nat /\ k <= Len(file.ids)
  BY <1>2, <1>3
<1>5. /\ DOMAIN file'.ids = 1..k /\ Len(file'.ids) = k
      /\ \A q \in 1..k : file'.ids[q] = file.ids[q] /\ q \in DOMAIN file.ids
  BY <1>3, <1>4
<1>6. GainInv'
  <2>1. ASSUME NEW p \in DOMAIN file'.ids
        PROVE  /\ p \in DOMAIN file.ids /\ file'.ids[p] = file.ids[p]
               /\ p > 1 => file'.ids[p - 1] = file.ids[p - 1]
    <3>1. p \in 1..k /\ (p > 1 => p - 1 \in 1..k)
      BY <1>4, <1>5
    <3> QED BY <1>5, <3>1
  <2>2. \A j \in DOMAIN log' :
            log'[j].gain <= log'[j].total /\ (log'[j].kind = "adjust" => log'[j].gain = 0)
    BY <1>1 DEF EvidenceInv, GainInv
  <2>3. ASSUME NEW p \in DOMAIN file'.ids, p > 1
        PROVE  /\ log'[file'.ids[p]].kind = "count" =>
                      log'[file'.ids[p]].total = log'[file'.ids[p - 1]].total + log'[file'.ids[p]].gain
               /\ log'[file'.ids[p]].kind = "drop" =>
                      log'[file'.ids[p]].total < log'[file'.ids[p - 1]].total
    <3>1. GainInv
      BY DEF EvidenceInv
    <3> QED BY <1>1, <2>1, <2>3, <3>1, GainOf
  <2> QED BY <2>2, <2>3 DEF GainInv
<1>7. file'.inode > file.inode
  BY <1>2, <1>3, <1>4, <1>5 DEF GrowsInPlace
<1>8. FileMoves
  BY <1>5, <1>7 DEF FileMoves
<1>9. LogKept /\ (db.complete => db.rows = {})
  BY <1>1 DEF LogKept, EvidenceInv, EvidenceDb
<1>10. phase' = "idle" \/ (phase # "idle" /\ UNCHANGED <<batch, db>>)
  BY <1>1
<1> QED BY <1>1, <1>6, <1>8, <1>9, <1>10, EvidenceKept

\* A step that leaves file and evidence alone.
LEMMA QuietEvidence ==
    ASSUME CollectionInv, Typed', LedgerInv, OneAdjustment, EvidenceInv, UNCHANGED <<log, file>>,
           db'.checkpoints = db.checkpoints, db'.events = db.events, db'.recovery = db.recovery,
           db'.rows = db.rows, db'.complete => db.rows = {},
           \/ phase' = "idle"
           \/ phase # "idle" /\ UNCHANGED <<batch, db>>
           \/ EvidenceBatch'
    PROVE  EvidenceInv'
<1>1. LogKept /\ GainInv'
  BY DEF LogKept, EvidenceInv, GainInv
<1>2. FileMoves
  <2>1. Len(file.ids) \in Nat
    BY FileFacts DEF CollectionInv
  <2>2. Len(file.ids) <= Len(file'.ids)
    BY <2>1
  <2> QED BY <2>2 DEF FileMoves
<1> QED BY <1>1, <1>2, EvidenceKept

\* The same for tables that are reopened at most.
LEMMA ReopenEvidence ==
    ASSUME CollectionInv, Typed', LedgerInv, OneAdjustment, EvidenceInv, UNCHANGED <<log, file>>,
           \/ phase' = "idle" /\ (db' = db \/ db' = Reopened(db))
           \/ phase # "idle" /\ UNCHANGED <<batch, db>>
    PROVE  EvidenceInv'
<1>1. db \in DbType
  BY DbFacts DEF CollectionInv
<1>2. /\ db'.checkpoints = db.checkpoints /\ db'.events = db.events /\ db'.recovery = db.recovery
      /\ db'.rows = db.rows /\ db'.complete = db.complete
  BY <1>1 DEF Reopened, DbType
<1>3. db.complete => db.rows = {}
  BY DEF EvidenceInv, EvidenceDb
<1> QED BY <1>2, <1>3, QuietEvidence

\* A cycle prepares a batch that says "complete" only when nothing is open.
\* The replay filter takes nothing away from it: an event it drops would be
\* charged twice.
LEMMA PrepareEvidence ==
    ASSUME CollectionInv, CollectionInv', LedgerInv, AmountInv, OneAdjustment, EvidenceInv,
           PrepareSource \/ PrepareUnchanged \/ PrepareUnbound
    PROVE  EvidenceInv'
<1>1. Typed /\ Typed' /\ SoundDb /\ FileInv /\ OrderInv /\ LedgerDb /\ GainInv /\ EvidenceDb
  BY DEF CollectionInv, LedgerInv, EvidenceInv
<1>2. phase' = "prepared" /\ UNCHANGED <<log, file, db>>
  BY DEF PrepareSource, PrepareUnchanged, PrepareUnbound, StartCycle
<1>3. PICK o, u : /\ batch' = Batch(o, u)
                  /\ \/ o = NoOutcome
                     \/ o = Admitted(OutcomeOf(Scan)) /\ Scannable /\ (~u => o.rows = {})
  <2>1. Scannable => Admitted(OutcomeOf(Scan)).rows = OutcomeOf(Scan).rows
    BY <1>1, PreparedOutcome
  <2> QED BY <2>1 DEF PrepareSource, PrepareUnchanged, PrepareUnbound, Outcomes
<1>4. batch'.outcome = o /\ batch'.complete = Complete(o, u)
  BY <1>3 DEF Batch
<1>5. o # NoOutcome => EvidenceOutcome(o) /\ (o.resolved => db.recovery # NoRecovery)
  <2> SUFFICES ASSUME o = Admitted(OutcomeOf(Scan)), Scannable
               PROVE  EvidenceOutcome(o) /\ (o.resolved => db.recovery # NoRecovery)
    BY <1>3
  <2>1. PICK p : p = OutcomeOf(Scan)
    OBVIOUS
  <2>2. /\ EvidenceOutcome(p) /\ (p.resolved => db.recovery # NoRecovery)
        /\ Covered(p.events) \cap Charged = {} /\ Paid(p.events)
    BY <1>1, <2>1, OutcomeKeepsEvidence, OutcomeLedger, OutcomePaid
  <2>3. /\ o.checkpoint = p.checkpoint /\ o.range = p.range /\ o.rows = p.rows
        /\ o.recovery = p.recovery /\ o.resolved = p.resolved
        /\ o.events = {e \in p.events : \A d \in db.events : ~IsReplay(d, e)}
    BY <1>1, <2>1, PreparedOutcome
  <2>4. ASSUME NEW e \in p.events, NEW d \in db.events, IsReplay(d, e) PROVE FALSE
    <3>1. d.id = e.id /\ d.id \in d.covers /\ e.id \in e.covers
      BY <2>2, <2>4 DEF IsReplay, AmountInv, Paid
    <3>2. d.id \in Charged /\ e.id \in Covered(p.events)
      BY <3>1 DEF Charged, Covered
    <3> QED BY <2>2, <3>1, <3>2
  <2>5. o.events = p.events
    BY <2>3, <2>4
  <2> QED BY <2>2, <2>3, <2>5 DEF EvidenceOutcome
<1>6. o # NoOutcome => EvidenceOutcome(batch.outcome)'
  BY <1>2, <1>4, <1>5
     DEF EvidenceOutcome, Follows, SearchRecorded, SettledBehind, Settled, Stored, Charged, Covered
<1>7. batch'.complete =>
          /\ o # NoOutcome => o.rows = {}
          /\ \A r \in db.rows : /\ o # NoOutcome /\ o.resolved
                                /\ db.recovery # NoRecovery /\ r = db.recovery.row
  BY <1>3, <1>4, <1>5 DEF Complete
<1>8. EvidenceBatch'
  BY <1>2, <1>4, <1>6, <1>7 DEF EvidenceBatch
<1>9. db.complete => db.rows = {}
  BY <1>1 DEF EvidenceDb
<1> QED BY <1>1, <1>2, <1>8, <1>9, QuietEvidence

\* A transaction keeps all evidence of skipped records: what it removes is
\* the search it resolves, never a record's row.
LEMMA StoreEvidence ==
    ASSUME CollectionInv, CollectionInv', LedgerInv, OneAdjustment, EvidenceInv,
           phase # "idle", db' = Store(db, batch),
           phase' = "idle" \/ batch' = batch, UNCHANGED <<log, file>>
    PROVE  EvidenceInv'
<1>1. Typed /\ Typed' /\ SoundDb /\ SoundBatch /\ batch \in BatchType
      /\ OrderInv /\ LedgerBatch /\ EvidenceDb /\ EvidenceBatch /\ GainInv
  BY DEF CollectionInv, Typed, LedgerInv, EvidenceInv
<1>2. db \in DbType /\ db.cycle \in Nat
  BY <1>1, DbFacts
<1>3. CASE Replayed(db, batch)
  <2>1. db' = db
    BY <1>1, <1>3, StoreReplayed
  <2>2. phase' = "idle" \/ (phase # "idle" /\ UNCHANGED <<batch, db>>)
    BY <2>1
  <2> QED BY <1>1, <2>1, <2>2, ReopenEvidence
<1>4. CASE ~Replayed(db, batch) /\ batch.outcome = NoOutcome
  <2>1. /\ db'.checkpoints = db.checkpoints /\ db'.cycle = batch.cycle
        /\ db'.events = db.events /\ db'.recovery = db.recovery
        /\ db'.rows = db.rows /\ db'.complete = batch.complete
    BY <1>1, <1>2, <1>4, StoreNothing
  <2>2. batch.cycle = db.cycle + 1
    BY <1>1, <1>4 DEF SoundBatch
  <2>3. batch.complete => db.rows = {}
    BY <1>1, <1>4, <2>2 DEF EvidenceBatch
  <2>4. batch' = batch => EvidenceBatch'
    <3>1. batch.cycle # db'.cycle + 1
      BY <1>2, <2>1, <2>2
    <3> QED BY <3>1 DEF EvidenceBatch
  <2> QED BY <1>1, <2>1, <2>3, <2>4, QuietEvidence
<1>5. CASE ~Replayed(db, batch) /\ batch.outcome # NoOutcome
  <2> DEFINE o == batch.outcome
             k == o.checkpoint.inode
             a == Accept(db, o)
             C == Charged \cup Covered(o.events)
  <2>1. /\ batch.cycle = db.cycle + 1
        /\ db.recovery # NoRecovery => o.resolved \/ o.recovery # NoRecovery
    BY <1>1, <1>5 DEF SoundBatch
  <2>2. o \in OutcomeType
    BY <1>1, <1>5 DEF BatchType
  <2>3. EvidenceOutcome(o) /\ \A j \in Inodes : Stored(j) => j <= k
    BY <1>1, <1>5, <2>1 DEF EvidenceBatch, LedgerBatch
  <2>4. batch.complete =>
            /\ o.rows = {}
            /\ \A r \in db.rows : o.resolved /\ db.recovery # NoRecovery /\ r = db.recovery.row
    BY <1>1, <1>5, <2>1 DEF EvidenceBatch
  <2>5. /\ o.checkpoint \in CheckpointType /\ k \in Inodes /\ o.checkpoint # NoCheckpoint
        /\ o.rows \subseteq RowType
    <3>1. o.checkpoint \in CheckpointType /\ o.rows \subseteq RowType
      BY <2>2 DEF OutcomeType
    <3>2. k \in Inodes
      BY <3>1 DEF CheckpointType
    <3> HIDE DEF o
    <3> QED BY <3>1, <3>2, RealCheckpoint
  <2>6. /\ a.events = db.events \cup o.events
        /\ a.recovery = IF o.recovery # NoRecovery THEN o.recovery
                        ELSE IF o.resolved THEN NoRecovery ELSE db.recovery
        /\ o.rows \subseteq a.rows
        /\ \A r \in a.rows : r \in o.rows \/ r \in db.rows
        /\ \A r \in a.rows \ o.rows :
               o.resolved /\ db.recovery # NoRecovery => r # db.recovery.row
        /\ \A r \in db.rows : \/ r \in a.rows
                              \/ Superseded(o, r)
                              \/ db.recovery # NoRecovery /\ r = db.recovery.row
    <3>1. a = Accept(db, o)
      OBVIOUS
    <3> HIDE DEF a, o
    <3> QED BY <1>2, <2>2, <3>1, AcceptFields, AcceptRows
  <2>7. /\ db'.cycle = batch.cycle /\ db'.complete = batch.complete
        /\ db'.checkpoints = [db.checkpoints EXCEPT ![k] = o.checkpoint]
        /\ db'.events = a.events /\ db'.recovery = a.recovery /\ db'.rows = a.rows
    BY <1>1, <1>2, <1>5, StoreFields
  <2> HIDE DEF a, o, k
  <2>8. db'.recovery = o.recovery /\ db'.events = db.events \cup o.events
    BY <2>1, <2>6, <2>7
  <2>9. /\ db'.checkpoints[k] = o.checkpoint
        /\ \A i \in Inodes : i # k => db'.checkpoints[i] = db.checkpoints[i]
    BY <1>1, <2>5, <2>7, DbFacts
  <2>10. /\ \A i \in Inodes : i = k => Stored(i)'
         /\ \A i \in Inodes : i # k => (Stored(i)' <=> Stored(i))
         /\ \A i \in Inodes : Stored(i) => Stored(i)'
    <3>1. db'.checkpoints[k] # NoCheckpoint
      BY <2>5, <2>9
    <3> QED BY <2>9, <3>1 DEF Stored
  <2>11. /\ Follows(o.checkpoint)
         /\ Stored(k) => /\ o.range.start > Len(db.checkpoints[k].prefix)
                         /\ Len(o.checkpoint.prefix) >= Len(db.checkpoints[k].prefix)
         /\ \A r \in o.rows \ db.rows : r.inode = k /\ r.start <= Len(o.checkpoint.prefix)
         /\ SearchRecorded(o.recovery, o.rows)
         /\ NothingSkipped(db.rows \cup o.rows) => SettledBehind(C, o.checkpoint, o.recovery)
    BY <2>3 DEF EvidenceOutcome, k
  <2>12. Charged' = C
    BY <2>8 DEF Charged, Covered
  <2>13. ASSUME NEW i \in Inodes, Stored(i)'
         PROVE  (db.checkpoints[i].inode = i /\ Follows(db.checkpoints[i]))'
    <3>1. CASE i = k
      BY <2>9, <2>11, <3>1 DEF Follows, k
    <3>2. CASE i # k
      <4>1. Stored(i) /\ db'.checkpoints[i] = db.checkpoints[i]
        BY <2>9, <2>10, <2>13, <3>2
      <4> QED BY <1>1, <4>1 DEF EvidenceDb, Follows
    <3> QED BY <3>1, <3>2
  <2>14. ASSUME NEW i \in Inodes, Stored(i)
         PROVE  /\ Len(db.checkpoints[i].prefix) \in Nat
                /\ Len(db'.checkpoints[i].prefix) \in Nat
                /\ Len(db.checkpoints[i].prefix) <= Len(db'.checkpoints[i].prefix)
    <3>1. Len(db.checkpoints[i].prefix) \in Nat
      <4>1. db.checkpoints[i] \in CheckpointType
        BY <1>1, <2>14, StoredCheckpoint DEF Stored
      <4> QED BY <4>1 DEF CheckpointType
    <3>2. Len(o.checkpoint.prefix) \in Nat
      BY <2>5 DEF CheckpointType
    <3>3. CASE i = k
      BY <2>9, <2>11, <2>14, <3>1, <3>2, <3>3
    <3>4. CASE i # k
      BY <2>9, <3>1, <3>4
    <3> QED BY <3>3, <3>4
  <2>15. ASSUME NEW r \in db.rows
         PROVE  /\ r.inode \in Inodes /\ r.start \in Nat /\ Stored(r.inode)
                /\ r.start <= Len(db.checkpoints[r.inode].prefix)
    <3>1. r \in RowType
      BY <1>2 DEF DbType
    <3> QED BY <1>1, <3>1 DEF EvidenceDb, RowType
  <2>16. ASSUME NEW r \in db'.rows
         PROVE  Stored(r.inode)' /\ r.start <= Len(db'.checkpoints[r.inode].prefix)
    <3>1. CASE r \in db.rows
      <4>1. Stored(r.inode)'
        BY <2>10, <2>15, <3>1
      <4>2. r.inode \in Inodes /\ r.start \in Nat
            /\ r.start <= Len(db.checkpoints[r.inode].prefix)
        BY <2>15, <3>1
      <4>3. /\ Len(db.checkpoints[r.inode].prefix) \in Nat
            /\ Len(db'.checkpoints[r.inode].prefix) \in Nat
            /\ Len(db.checkpoints[r.inode].prefix) <= Len(db'.checkpoints[r.inode].prefix)
        BY <2>14, <2>15, <3>1
      <4>4. \A x, y, z \in Nat : x <= y /\ y <= z => x <= z
        OBVIOUS
      <4>5. r.start <= Len(db'.checkpoints[r.inode].prefix)
        BY <4>2, <4>3, <4>4
      <4> QED BY <4>1, <4>5
    <3>2. CASE r \notin db.rows
      <4>1. r \in o.rows \ db.rows
        BY <2>6, <2>7, <2>16, <3>2
      <4>2. r.inode = k /\ r.inode \in Inodes /\ r.start <= Len(o.checkpoint.prefix)
        BY <2>5, <2>11, <4>1
      <4>3. Stored(r.inode)'
        BY <2>10, <4>2
      <4> QED BY <2>9, <4>2, <4>3
    <3> QED BY <3>1, <3>2
  <2>17. SearchRecorded(db.recovery, db.rows)'
    BY <2>6, <2>7, <2>8, <2>11 DEF SearchRecorded
  <2>18. db'.complete => db'.rows = {}
    <3> SUFFICES ASSUME batch.complete, NEW r \in a.rows PROVE FALSE
      BY <2>7
    <3>1. r \in db.rows /\ r \in a.rows \ o.rows
      BY <2>4, <2>6
    <3> QED BY <2>4, <2>6, <3>1
  <2>19. ASSUME NothingSkipped(db'.rows) PROVE NothingSkipped(db.rows \cup o.rows)
    <3> SUFFICES ASSUME NEW r \in db.rows \cup o.rows, r.reason = "record" PROVE FALSE
      BY DEF NothingSkipped
    <3>1. r \notin a.rows
      BY <2>7, <2>19 DEF NothingSkipped
    <3>2. r \in db.rows
      BY <2>6, <3>1
    <3>3. ~(db.recovery # NoRecovery /\ r = db.recovery.row)
      BY <1>1 DEF EvidenceDb, SearchRecorded
    <3>4. Superseded(o, r)
      BY <2>6, <3>1, <3>2, <3>3
    <3>5. r.inode = k /\ r.start = o.range.start
      BY <3>4 DEF Superseded, k
    <3>6. Stored(k) /\ r.start <= Len(db.checkpoints[k].prefix) /\ r.start \in Nat
      BY <2>15, <3>2, <3>5
    <3>7. r.start > Len(db.checkpoints[k].prefix)
      BY <2>11, <3>5, <3>6
    <3>8. Len(db.checkpoints[k].prefix) \in Nat
      BY <2>5, <2>14, <3>6
    <3> QED BY <3>6, <3>7, <3>8
  <2>20. ASSUME NothingSkipped(db'.rows), NEW i \in Inodes, Stored(i)',
                \A j \in Inodes : Stored(j)' => j <= i
         PROVE  SettledBehind(Charged, db.checkpoints[i], db.recovery)'
    <3>1. i = k
      <4> SUFFICES ASSUME i # k PROVE FALSE
        OBVIOUS
      <4>1. i <= k
        BY <2>3, <2>10, <2>20
      <4>2. k <= i
        BY <2>5, <2>10, <2>20
      <4> QED BY <2>5, <4>1, <4>2 DEF Inodes
    <3>2. db'.checkpoints[i] = o.checkpoint
      BY <2>9, <3>1
    <3>3. SettledBehind(C, o.checkpoint, o.recovery)
      BY <2>11, <2>19, <2>20
    <3> HIDE DEF C
    <3> QED BY <2>8, <2>12, <3>2, <3>3 DEF SettledBehind, Settled
  <2>21. EvidenceDb'
    BY <2>13, <2>16, <2>17, <2>18, <2>20 DEF EvidenceDb, NothingSkipped
  <2>22. GainInv'
    BY <1>1 DEF GainInv
  <2>23. batch' = batch => EvidenceBatch'
    <3>1. batch.cycle # db'.cycle + 1
      BY <1>2, <2>1, <2>7
    <3> QED BY <3>1 DEF EvidenceBatch
  <2> QED BY <2>21, <2>22, <2>23 DEF EvidenceInv
<1> QED BY <1>3, <1>4, <1>5

LEMMA StepEvidence ==
    ASSUME CollectionInv, LedgerInv, AmountInv, OneAdjustment, EvidenceInv,
           [Next]_vars, [GrowsInPlace]_vars
    PROVE  EvidenceInv'
<1>1. CollectionInv'
  BY StepSound
<1>2. Typed /\ Typed'
  BY <1>1 DEF CollectionInv
<1>3. CASE UNCHANGED vars \/ Tick
  <2>1. UNCHANGED <<log, file, phase, batch, db>>
    BY <1>3 DEF vars, env, process, Tick
  <2> QED BY <1>2, <2>1, ReopenEvidence
<1>4. CASE CommitRefused \/ DropChanged \/ Kill \/ Leave \/ Return
  <2>1. UNCHANGED <<log, file>>
    BY <1>4 DEF CommitRefused, DropChanged, Kill, Leave, Return, env
  <2>2. ~Active => phase = "idle"
    BY <1>2 DEF Typed
  <2>3. \/ phase' = "idle" /\ (db' = db \/ db' = Reopened(db))
        \/ batch' = batch /\ db' = db /\ phase # "idle"
    BY <1>4, <2>2 DEF CommitRefused, DropChanged, Kill, Leave, Return, TakeOver, Forget, process
  <2> QED BY <1>2, <2>1, <2>3, ReopenEvidence
<1>5. CASE Commit \/ CommitFails
  <2>1. UNCHANGED <<log, file>> /\ phase # "idle"
    BY <1>5 DEF Commit, CommitFails, Attempt, env
  <2>2. phase' = "idle" \/ batch' = batch
    BY <1>5 DEF Commit, CommitFails, Forget
  <2>3. db' = Store(db, batch) \/ (db' = db /\ batch' = batch)
    BY <1>5 DEF Commit, CommitFails
  <2>4. CASE db' = Store(db, batch)
    BY <1>1, <2>1, <2>2, <2>4, StoreEvidence
  <2>5. CASE db' = db /\ batch' = batch
    BY <1>2, <2>1, <2>5, ReopenEvidence
  <2> QED BY <2>3, <2>4, <2>5
<1>6. CASE Replace /\ ~UNCHANGED vars
  BY <1>1, <1>6, ReplaceEvidence
<1>7. CASE Next /\ ~(UNCHANGED vars \/ Tick \/ Replace)
  BY <1>1, <1>4, <1>5, <1>7, AppendsEvidence, PrepareEvidence DEF Next
<1> QED BY <1>3, <1>6, <1>7

\* When the tables say "complete", all that the accepted part of the file
\* consumed is charged.
LEMMA CompleteBecause ==
    ASSUME CollectionInv, LedgerInv, OneAdjustment, EvidenceInv
    PROVE  CompleteIsComplete
<1> DEFINE cp == db.checkpoints[file.inode]
<1> SUFFICES ASSUME db.complete, cp # NoCheckpoint, NEW p \in DOMAIN cp.prefix,
                    log[cp.prefix[p]].gain > 0
             PROVE  cp.prefix[p] \in Charged
  BY DEF CompleteIsComplete
<1>1. Typed /\ SoundDb /\ OrderInv /\ EvidenceDb
  BY DEF CollectionInv, LedgerInv, EvidenceInv
<1>2. file.inode \in Inodes /\ Stored(file.inode)
  BY <1>1, FileFacts DEF Stored
<1>3. db.rows = {} /\ db.recovery = NoRecovery
  BY <1>1 DEF EvidenceDb, SearchRecorded
<1>4. SettledBehind(Charged, cp, db.recovery)
  <2>1. NothingSkipped(db.rows)
    BY <1>3 DEF NothingSkipped
  <2> QED BY <1>1, <1>2, <2>1, PriorEvidence
<1>5. cp.prefix[p] <= cp.previous
  BY <1>3, <1>4 DEF SettledBehind
<1>6. p \in DOMAIN file.ids /\ cp.prefix[p] = file.ids[p]
  <2>1. cp \in CheckpointType /\ cp.inode = file.inode /\ Follows(cp)
    BY <1>1, <1>2, StoredCheckpoint DEF EvidenceDb
  <2>2. cp.prefix \in Seq(Nat)
    BY <2>1 DEF CheckpointType
  <2> HIDE DEF cp
  <2>3. /\ Len(cp.prefix) <= Len(file.ids) /\ Len(cp.prefix) \in Nat
        /\ DOMAIN cp.prefix = 1..Len(cp.prefix) /\ cp.prefix[p] = file.ids[p]
    BY <2>1, <2>2 DEF Follows
  <2> QED BY <1>1, <2>3, FileFacts
<1>7. Settled(Charged, cp.previous)
  BY <1>3, <1>4 DEF SettledBehind
<1> HIDE DEF cp
<1> QED BY <1>5, <1>6, <1>7 DEF Settled

\* When candidate_model_totals_complete says the model totals are complete,
\* every token consumed in the accepted part of the file is charged, whatever
\* is copied to a new inode, killed, retried or refused, as long as the file
\* is not cut in place and no counter but zero repeats.
THEOREM CompletenessIsEarned ==
    Spec /\ []OneAdjustment /\ [][GrowsInPlace]_vars => []CompleteIsComplete
<1>1. Init => CollectionInv /\ LedgerInv /\ AmountInv /\ EvidenceInv
  BY InitSound, InitLedger, InitAmount, InitEvidence
<1>2. CollectionInv /\ LedgerInv /\ AmountInv /\ [Next]_vars
          => CollectionInv' /\ LedgerInv' /\ AmountInv'
  BY StepLedger, StepAmount
<1>3. CollectionInv /\ LedgerInv /\ AmountInv /\ OneAdjustment /\ EvidenceInv
          /\ [Next]_vars /\ [GrowsInPlace]_vars => EvidenceInv'
  BY StepEvidence
<1>4. CollectionInv /\ LedgerInv /\ OneAdjustment /\ EvidenceInv => CompleteIsComplete
  BY CompleteBecause
<1> QED BY <1>1, <1>2, <1>3, <1>4, PTL DEF Spec

=============================================================================
