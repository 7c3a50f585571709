------------------------ MODULE AccountRegistryProofs ------------------------
(***************************************************************************)
(* Proofs about AccountRegistry, for any set of accounts, any mixture of   *)
(* registries left by older versions, and any number of logins, kills,     *)
(* failed writes and steps of the clock.                                   *)
(*                                                                         *)
(* The argument: every operation turns a sound registry into a sound one   *)
(* (the lemmas on operations), and a copy that waits to be stored remains  *)
(* a successor of the file, because beside the inactive-history thread no  *)
(* operation allocates an epoch or confirms an account (CopyInv), and      *)
(* differs from it in the ends of the running account at most (ScopeInv).  *)
(***************************************************************************)
EXTENDS AccountRegistry, FiniteSetTheorems, TLAPS

-----------------------------------------------------------------------------
(* Closing intervals.                                                       *)

\* What closing at a time makes of one interval.
Closed(i, at) == IF i.end = None THEN [i EXCEPT !.end = at] ELSE i

\* A closed interval is an interval; only its end may be new.
LEMMA ClosedFacts ==
    ASSUME NEW i \in Interval, NEW at \in Time
    PROVE  /\ Closed(i, at) \in Interval
           /\ Closed(i, at).start = i.start
           /\ i.end = None => Closed(i, at).end = at
           /\ i.end # None => Closed(i, at) = i
           /\ Closed(i, at).end # None
  BY DEF Closed, Interval, Time, None

\* CloseOpen changes nothing but intervals.
LEMMA CloseOpenFacts ==
    ASSUME NEW r \in Registry, NEW at \in Time
    PROVE  /\ CloseOpen(r, at) \in Registry
           /\ CloseOpen(r, at).epoch = r.epoch
           /\ CloseOpen(r, at).next = r.next
           /\ CloseOpen(r, at).initialized = r.initialized
           /\ CloseOpen(r, at).confirmed = r.confirmed
           /\ CloseOpen(r, at).activation = r.activation
           /\ CloseOpen(r, at).label = r.label
           /\ \A a \in Accounts :
                CloseOpen(r, at).intervals[a] = {Closed(i, at) : i \in r.intervals[a]}
<1> DEFINE closed == [a \in Accounts |-> {Closed(i, at) : i \in r.intervals[a]}]
<1>1. closed \in [Accounts -> SUBSET Interval]
  <2>1. ASSUME NEW a \in Accounts PROVE {Closed(i, at) : i \in r.intervals[a]} \subseteq Interval
    <3>1. r.intervals[a] \subseteq Interval
      BY DEF Registry
    <3> QED BY <3>1, ClosedFacts
  <2> QED BY <2>1
<1>2. CloseOpen(r, at) = [r EXCEPT !.intervals = closed]
  BY DEF CloseOpen, Closed
<1> HIDE DEF closed
<1>3. [r EXCEPT !.intervals = closed] \in Registry
  BY <1>1 DEF Registry
<1>4. /\ CloseOpen(r, at).intervals = closed
      /\ CloseOpen(r, at).epoch = r.epoch
      /\ CloseOpen(r, at).next = r.next
      /\ CloseOpen(r, at).initialized = r.initialized
      /\ CloseOpen(r, at).confirmed = r.confirmed
      /\ CloseOpen(r, at).activation = r.activation
      /\ CloseOpen(r, at).label = r.label
  BY <1>2 DEF Registry
<1> QED BY <1>2, <1>3, <1>4 DEF closed

\* The intervals of a registry are intervals, and what NotBefore says of them.
LEMMA IntervalFacts ==
    ASSUME NEW r \in Registry
    PROVE  /\ \A a \in Accounts : \A i \in r.intervals[a] :
                i \in Interval /\ i.start \in Nat /\ i.end \in Nat
           /\ \A at : NotBefore(r, at) =>
                \A a \in Accounts : \A i \in r.intervals[a] : i.start <= at /\ i.end <= at
<1>1. ASSUME NEW a \in Accounts, NEW i \in r.intervals[a]
      PROVE  i \in Interval /\ i.start \in Nat /\ i.end \in Nat
  BY DEF Registry, Interval
<1>2. ASSUME NEW at, NotBefore(r, at), NEW a \in Accounts, NEW i \in r.intervals[a]
      PROVE  i.start <= at /\ i.end <= at
  <2>1. i \in Recorded(r)
    BY DEF Recorded
  <2>2. i.start \in Boundaries(r) /\ i.end \in Boundaries(r)
    BY <2>1 DEF Boundaries
  <2> QED BY <1>2, <2>2 DEF NotBefore
<1> QED BY <1>1, <1>2

\* Validity, interval by interval.
LEMMA ValidFacts ==
    ASSUME NEW r
    PROVE  Valid(r) <=>
             /\ ValidEpochs(r)
             /\ \A a \in Accounts : \A i \in r.intervals[a] :
                  (i.start # None /\ i.end # None) => i.start <= i.end
             /\ ValidTimeline(r)
  BY DEF Valid, Recorded

\* Closing keeps a registry sound: the interval that ends now was the only
\* open one, and everything that ended before lies before its start.
LEMMA CloseSound ==
    ASSUME NEW r, Sound(r), NEW at \in Time, NotBefore(r, at)
    PROVE  /\ Sound(CloseOpen(r, at))
           /\ SameOwners(r, CloseOpen(r, at)) /\ KeepsEnds(r, CloseOpen(r, at))
<1> DEFINE c == CloseOpen(r, at)
<1>1. r \in Registry /\ History(r) /\ Valid(r)
  BY DEF Sound
<1>2. /\ c \in Registry /\ c.epoch = r.epoch /\ c.next = r.next /\ c.initialized = r.initialized
      /\ c.confirmed = r.confirmed /\ c.activation = r.activation
      /\ \A a \in Accounts : c.intervals[a] = {Closed(i, at) : i \in r.intervals[a]}
  BY <1>1, CloseOpenFacts
<1>3. \A a \in Accounts : \A i \in r.intervals[a] :
         i \in Interval /\ i.start \in Nat /\ i.end \in Nat /\ i.start <= at /\ i.end <= at
  BY <1>1, IntervalFacts
<1> HIDE DEF c
<1>4. SameOwners(r, c)
  BY <1>2 DEF SameOwners
<1>5. KeepsEnds(r, c)
  BY <1>2, <1>3, ClosedFacts DEF KeepsEnds, Ended
<1>6. History(c)
  BY <1>1, <1>2 DEF History
<1>7. ValidEpochs(c)
  BY <1>1, <1>2 DEF Valid, ValidEpochs
<1>8. ASSUME NEW a \in Accounts, NEW i \in c.intervals[a], i.start # None, i.end # None
      PROVE  i.start <= i.end
  <2>1. PICK j \in r.intervals[a] : i = Closed(j, at)
    BY <1>2
  <2>2. j.start # None /\ j.end # None => j.start <= j.end
    BY <1>1, ValidFacts
  <2> QED BY <1>3, <1>8, <2>1, <2>2, ClosedFacts
<1>9. ValidTimeline(c)
  <2> SUFFICES ASSUME NEW a \in Accounts, NEW b \in Accounts,
                      NEW i \in c.intervals[a], NEW j \in c.intervals[b], a # b \/ i # j
               PROVE  /\ ~(i.end = None /\ j.end = None)
                      /\ (Positive(i) /\ Positive(j)) => Apart(i, j)
    BY DEF ValidTimeline
  <2>1. PICK x \in r.intervals[a] : i = Closed(x, at)
    BY <1>2
  <2>2. PICK y \in r.intervals[b] : j = Closed(y, at)
    BY <1>2
  <2>3. /\ ~(x.end = None /\ y.end = None)
        /\ (Positive(x) /\ Positive(y)) => Apart(x, y)
    BY <1>1, <2>1, <2>2 DEF Valid, ValidTimeline
  <2>4. x \in Interval /\ y \in Interval /\ x.start \in Nat /\ y.start \in Nat
        /\ x.end \in Nat /\ y.end \in Nat /\ at # None
    BY <1>3 DEF Time, None
  <2>5. i.end # None /\ j.end # None /\ i.start = x.start /\ j.start = y.start
    BY <2>1, <2>2, <2>4, ClosedFacts
  <2>6. ASSUME Positive(i), Positive(j) PROVE Apart(i, j)
    <3>1. CASE x.end # None /\ y.end # None
      <4>1. i = x /\ j = y
        BY <2>1, <2>2, <2>4, <3>1, ClosedFacts
      <4> QED BY <2>3, <2>6, <4>1
    <3>2. CASE x.end = None
      <4>1. y.end # None /\ j = y /\ Positive(x)
        BY <2>2, <2>3, <2>4, <2>5, <2>6, <3>2, ClosedFacts DEF Positive
      <4>2. Apart(x, y)
        BY <2>3, <2>6, <4>1
      <4> QED BY <2>5, <3>2, <4>1, <4>2 DEF Apart
    <3>3. CASE y.end = None
      <4>1. x.end # None /\ i = x /\ Positive(y)
        BY <2>1, <2>3, <2>4, <2>5, <2>6, <3>3, ClosedFacts DEF Positive
      <4>2. Apart(x, y)
        BY <2>3, <2>6, <4>1
      <4> QED BY <2>5, <3>3, <4>1, <4>2 DEF Apart
    <3> QED BY <3>1, <3>2, <3>3
  <2> QED BY <2>5, <2>6
<1>10. Valid(c)
  BY <1>7, <1>8, <1>9, ValidFacts
<1> QED BY <1>2, <1>4, <1>5, <1>6, <1>10 DEF Sound, c

-----------------------------------------------------------------------------
(* The other operations.                                                    *)

\* Nothing is lost by keeping the registry as it is.
LEMMA Unmoved ==
    ASSUME NEW r
    PROVE  SameOwners(r, r) /\ Keeps(r, r) /\ KeepsEnds(r, r)
  BY DEF SameOwners, Keeps, KeepsEnds

\* Equal owners are kept owners, and keeping is transitive.
LEMMA KeepsTransitive ==
    ASSUME NEW r, NEW s, NEW t, Keeps(s, t),
           SameOwners(r, s), KeepsEnds(r, s), KeepsEnds(s, t)
    PROVE  Keeps(r, t) /\ KeepsEnds(r, t)
  BY DEF SameOwners, Keeps, KeepsEnds

\* Allocate gives an account without an epoch a fresh one.
LEMMA AllocateSound ==
    ASSUME NEW r, Sound(r), NEW a \in Accounts
    PROVE  /\ Sound(Allocate(r, a))
           /\ Keeps(r, Allocate(r, a)) /\ KeepsEnds(r, Allocate(r, a))
<1>1. CASE r.epoch[a] # None
  BY <1>1, Unmoved DEF Allocate
<1>2. CASE r.epoch[a] = None
  <2> DEFINE s == [r EXCEPT !.epoch[a] = r.next, !.next = @ + 1]
  <2>1. r \in Registry /\ History(r) /\ Valid(r) /\ r.next \in Nat
        /\ r.epoch \in [Accounts -> Nat]
    BY DEF Sound, Registry
  <2>2. /\ s.epoch = [r.epoch EXCEPT ![a] = r.next] /\ s.next = r.next + 1
        /\ s.initialized = r.initialized /\ s.confirmed = r.confirmed
        /\ s.activation = r.activation /\ s.intervals = r.intervals
    BY <2>1 DEF Registry
  <2>3. s \in Registry
    <3>1. s = [[r EXCEPT !.epoch = [r.epoch EXCEPT ![a] = r.next]] EXCEPT !.next = r.next + 1]
      BY <2>1 DEF Registry
    <3>2. [r.epoch EXCEPT ![a] = r.next] \in [Accounts -> Nat] /\ r.next + 1 \in Nat \ {0}
      BY <2>1
    <3> HIDE DEF s
    <3> QED BY <2>1, <3>1, <3>2 DEF Registry
  <2> HIDE DEF s
  <2>4. ValidEpochs(s)
    <3>1. ValidEpochs(r)
      BY <2>1 DEF Valid
    <3>2. \A b \in Accounts : r.epoch[b] \in Nat /\ (r.epoch[b] # None => r.epoch[b] < r.next)
      BY <2>1, <3>1 DEF ValidEpochs
    <3> QED BY <2>1, <2>2, <3>1, <3>2 DEF ValidEpochs
  <2>5. History(s)
    BY <2>1, <2>2 DEF History
  <2>6. Valid(s)
    BY <2>1, <2>2, <2>4 DEF Valid, Recorded, ValidTimeline
  <2>7. Keeps(r, s) /\ KeepsEnds(r, s)
    BY <1>2, <2>1, <2>2 DEF Keeps, KeepsEnds, Ended
  <2>8. Allocate(r, a) = s
    BY <1>2 DEF Allocate, s
  <2> QED BY <2>3, <2>5, <2>6, <2>7, <2>8 DEF Sound
<1> QED BY <1>1, <1>2

\* reserve_partition_at as a whole.
LEMMA ReserveSound ==
    ASSUME NEW r, Sound(r), NEW a \in Accounts, NEW at \in Time, CanHandover(r, a, at)
    PROVE  LET s == Allocate(Handover(r, a, at), a)
           IN  Sound(s) /\ Keeps(r, s) /\ KeepsEnds(r, s)
<1> DEFINE h == Handover(r, a, at)
<1>1. Sound(h) /\ SameOwners(r, h) /\ KeepsEnds(r, h)
  BY CloseSound, Unmoved DEF Handover, CanHandover
<1> HIDE DEF h
<1>2. Sound(Allocate(h, a)) /\ Keeps(h, Allocate(h, a)) /\ KeepsEnds(h, Allocate(h, a))
  BY <1>1, AllocateSound
<1> DEFINE s == Allocate(h, a)
<1> HIDE DEF s
<1>3. Sound(s) /\ Keeps(h, s) /\ KeepsEnds(h, s)
  BY <1>2 DEF s
<1>4. Keeps(r, s) /\ KeepsEnds(r, s)
  BY <1>1, <1>3, KeepsTransitive
<1> QED BY <1>3, <1>4 DEF s, h

\* The fields of the registry that admit_partition computes when the account
\* has no open interval of its own.
LEMMA AdmittedFacts ==
    ASSUME NEW r \in Registry, NEW a \in Accounts, NEW at \in Time, ~SameOpen(r, a)
    PROVE  LET s == Admitted(r, a, at)
           IN  /\ s \in Registry
               /\ s.epoch = r.epoch /\ s.next = r.next /\ s.initialized = r.initialized
               /\ s.confirmed = r.confirmed \cup {a}
               /\ \A b \in Accounts :
                    /\ b # a => s.activation[b] = r.activation[b]
                    /\ s.intervals[b] = {Closed(i, at) : i \in r.intervals[b]} \cup
                         (IF b = a THEN LegacyInterval(r, a, at) \cup {[start |-> at, end |-> None]}
                          ELSE {})
<1> DEFINE c == CloseOpen(r, at)
           new == LegacyInterval(r, a, at) \cup {[start |-> at, end |-> None]}
           first == IF c.activation[a] = None THEN at ELSE c.activation[a]
           s == [c EXCEPT !.confirmed = @ \cup {a},
                          !.intervals[a] = @ \cup LegacyInterval(r, a, at) \cup {[start |-> at, end |-> None]},
                          !.activation[a] = IF @ = None THEN at ELSE @]
<1>1. Admitted(r, a, at) = s
  BY DEF Admitted
<1>2. /\ c \in Registry /\ c.epoch = r.epoch /\ c.next = r.next /\ c.initialized = r.initialized
      /\ c.confirmed = r.confirmed /\ c.activation = r.activation
      /\ \A b \in Accounts : c.intervals[b] = {Closed(i, at) : i \in r.intervals[b]}
  BY CloseOpenFacts
<1>3. new \subseteq Interval
  <2>1. r.activation[a] \in Nat /\ at \in Nat /\ None \in Nat
    BY DEF Registry, Time, None
  <2> QED BY <2>1 DEF LegacyInterval, Interval
<1>4. first \in Nat
  BY <1>2 DEF Registry, Time
<1>5. s = [[[c EXCEPT !.confirmed = c.confirmed \cup {a}]
              EXCEPT !.intervals = [c.intervals EXCEPT ![a] = c.intervals[a] \cup new]]
              EXCEPT !.activation = [c.activation EXCEPT ![a] = first]]
  BY <1>2 DEF Registry
<1> HIDE DEF s, c, new, first
<1>6. [c.intervals EXCEPT ![a] = c.intervals[a] \cup new] \in [Accounts -> SUBSET Interval]
  BY <1>2, <1>3 DEF Registry
<1>7. [c.activation EXCEPT ![a] = first] \in [Accounts -> Nat]
  BY <1>2, <1>4 DEF Registry
<1>8. c.confirmed \cup {a} \subseteq Accounts
  BY <1>2 DEF Registry
<1>9. /\ s \in Registry
      /\ s.epoch = c.epoch /\ s.next = c.next /\ s.initialized = c.initialized
      /\ s.confirmed = c.confirmed \cup {a}
      /\ s.intervals = [c.intervals EXCEPT ![a] = c.intervals[a] \cup new]
      /\ s.activation = [c.activation EXCEPT ![a] = first]
  BY <1>2, <1>5, <1>6, <1>7, <1>8 DEF Registry
<1>10. ASSUME NEW b \in Accounts
       PROVE  /\ b # a => s.activation[b] = r.activation[b]
              /\ s.intervals[b] = {Closed(i, at) : i \in r.intervals[b]} \cup
                                    (IF b = a THEN new ELSE {})
  <2>1. c.intervals \in [Accounts -> SUBSET Interval] /\ c.activation \in [Accounts -> Nat]
    BY <1>2 DEF Registry
  <2>2. c.intervals[b] = {Closed(i, at) : i \in r.intervals[b]}
    BY <1>2
  <2>3. s.intervals[b] = c.intervals[b] \cup (IF b = a THEN new ELSE {})
    BY <1>9, <2>1
  <2>4. b # a => s.activation[b] = c.activation[b]
    BY <1>9, <2>1
  <2> QED BY <1>2, <2>2, <2>3, <2>4
<1>11. new = LegacyInterval(r, a, at) \cup {[start |-> at, end |-> None]}
  BY DEF new
<1> QED BY <1>1, <1>2, <1>9, <1>10, <1>11

\* admit_partition confirms and owns together.  Its result is valid, unless
\* the account has an activation time of an older version, whose interval may
\* overlap with an owner in between.
LEMMA AdmitSound ==
    ASSUME NEW r, Sound(r), NEW a \in Accounts, NEW at \in Time, NotBefore(r, at)
    PROVE  LET s == Admitted(r, a, at)
           IN  /\ s \in Registry /\ History(s) /\ Keeps(r, s) /\ KeepsEnds(r, s)
               /\ a \notin Activated => Valid(s)
<1>1. CASE SameOpen(r, a)
  BY <1>1, Unmoved DEF Admitted, Sound
<1>2. CASE ~SameOpen(r, a)
  <2> DEFINE s == Admitted(r, a, at)
             c == CloseOpen(r, at)
             old == LegacyInterval(r, a, at)
             new == [start |-> at, end |-> None]
  <2>1. r \in Registry /\ History(r) /\ Valid(r)
    BY DEF Sound
  <2>2. /\ s \in Registry
        /\ s.epoch = r.epoch /\ s.next = r.next /\ s.initialized = r.initialized
        /\ s.confirmed = r.confirmed \cup {a}
        /\ \A b \in Accounts :
             /\ b # a => s.activation[b] = r.activation[b]
             /\ s.intervals[b] = {Closed(i, at) : i \in r.intervals[b]} \cup
                                   (IF b = a THEN old \cup {new} ELSE {})
    BY <1>2, <2>1, AdmittedFacts
  <2>3. Sound(c) /\ KeepsEnds(r, c)
        /\ \A b \in Accounts : c.intervals[b] = {Closed(i, at) : i \in r.intervals[b]}
    BY <2>1, CloseSound, CloseOpenFacts
  <2>4. \A b \in Accounts : s.intervals[b] = c.intervals[b] \cup (IF b = a THEN old \cup {new} ELSE {})
    BY <2>2, <2>3
  <2>5. new.start = at /\ new.end = None /\ at \in Nat /\ at # None
    BY DEF Time, None
  <2>6. \A i \in old : i.start = r.activation[a] /\ i.end = at
    BY DEF LegacyInterval
  <2>7. old # {} => a \in r.initialized /\ r.intervals[a] = {}
    BY DEF LegacyInterval
  <2> HIDE DEF s, c, old, new
  <2>8. Keeps(r, s)
    BY <2>2 DEF Keeps
  <2>9. KeepsEnds(r, s)
    BY <2>3, <2>4 DEF KeepsEnds, Ended
  <2>10. History(s)
    BY <2>1, <2>2 DEF History
  <2>11. ASSUME a \notin Activated PROVE Valid(s)
    <3>1. \A b \in Accounts : \A i \in c.intervals[b] :
             i.start \in Nat /\ i.end \in Nat /\ i.end # None /\ i.start <= at /\ i.end <= at
      <4> SUFFICES ASSUME NEW b \in Accounts, NEW i \in c.intervals[b]
                   PROVE  i.start \in Nat /\ i.end \in Nat /\ i.end # None /\ i.start <= at /\ i.end <= at
        OBVIOUS
      <4>1. PICK j \in r.intervals[b] : i = Closed(j, at)
        BY <2>3
      <4>2. j \in Interval /\ j.start \in Nat /\ j.end \in Nat /\ j.start <= at /\ j.end <= at
        BY <2>1, IntervalFacts
      <4> QED BY <2>5, <4>1, <4>2, ClosedFacts
    <3>2. \A i \in old : i.start = None /\ ~Positive(i) /\ i.end = at
      BY <2>1, <2>6, <2>7, <2>11 DEF History, Positive
    <3>3. ValidEpochs(s)
      BY <2>1, <2>2 DEF Valid, ValidEpochs
    <3>4. \A b \in Accounts : \A i \in s.intervals[b] :
             i \in c.intervals[b] \/ i = new \/ i \in old
      BY <2>4
    <3>5. ASSUME NEW b \in Accounts, NEW i \in s.intervals[b], i.start # None, i.end # None
          PROVE  i.start <= i.end
      <4>1. i \in c.intervals[b]
        BY <2>5, <3>2, <3>4, <3>5
      <4>2. Valid(c)
        BY <2>3 DEF Sound
      <4> QED BY <3>5, <4>1, <4>2, ValidFacts
    <3>6. ValidTimeline(s)
      <4> SUFFICES ASSUME NEW x \in Accounts, NEW y \in Accounts,
                          NEW i \in s.intervals[x], NEW j \in s.intervals[y], x # y \/ i # j
                   PROVE  /\ ~(i.end = None /\ j.end = None)
                          /\ (Positive(i) /\ Positive(j)) => Apart(i, j)
        BY DEF ValidTimeline
      <4>1. CASE i \in c.intervals[x] /\ j \in c.intervals[y]
        <5>1. ValidTimeline(c)
          BY <2>3 DEF Sound, Valid
        <5> QED BY <4>1, <5>1 DEF ValidTimeline
      <4>2. CASE i \in old
        BY <2>5, <3>2, <4>2
      <4>3. CASE j \in old
        BY <2>5, <3>2, <4>3
      <4>4. CASE i = new /\ j \in c.intervals[y]
        BY <2>5, <3>1, <4>4 DEF Apart
      <4>5. CASE j = new /\ i \in c.intervals[x]
        BY <2>5, <3>1, <4>5 DEF Apart
      <4>6. CASE i = new /\ j = new
        <5>1. x = a /\ y = a
          BY <2>4, <2>5, <3>1, <4>6
        <5> QED BY <4>6, <5>1
      <4> QED BY <3>4, <4>1, <4>2, <4>3, <4>4, <4>5, <4>6
    <3> QED BY <3>3, <3>5, <3>6, ValidFacts
  <2> QED BY <2>2, <2>8, <2>9, <2>10, <2>11 DEF s
<1> QED BY <1>1, <1>2

\* mark_partition_initialized marks confirmed accounts only.
LEMMA InitializeSound ==
    ASSUME NEW r, Sound(r), NEW a \in Accounts
    PROVE  LET s == Initialized(r, a)
           IN  Sound(s) /\ SameOwners(r, s) /\ s.intervals = r.intervals
<1>1. CASE a \notin r.confirmed
  BY <1>1 DEF Initialized, SameOwners
<1>2. CASE a \in r.confirmed
  <2> DEFINE s == [r EXCEPT !.initialized = @ \cup {a}]
  <2>1. r \in Registry /\ History(r) /\ Valid(r)
    BY DEF Sound
  <2>2. /\ s.epoch = r.epoch /\ s.next = r.next /\ s.initialized = r.initialized \cup {a}
        /\ s.confirmed = r.confirmed /\ s.activation = r.activation /\ s.intervals = r.intervals
    BY <2>1 DEF Registry
  <2>3. s \in Registry
    BY <2>1 DEF Registry
  <2>4. Initialized(r, a) = s
    BY <1>2 DEF Initialized
  <2> HIDE DEF s
  <2>5. History(s)
    BY <1>2, <2>1, <2>2 DEF History
  <2>6. Valid(s)
    BY <2>1, <2>2 DEF Valid, ValidEpochs, Recorded, ValidTimeline
  <2> QED BY <2>2, <2>3, <2>4, <2>5, <2>6 DEF Sound, SameOwners
<1> QED BY <1>1, <1>2

\* set_registry_login_id touches a label.
LEMMA LabelSound ==
    ASSUME NEW r, Sound(r), NEW a \in Accounts, NEW l \in Labels
    PROVE  LET s == [r EXCEPT !.label[a] = l]
           IN  Sound(s) /\ SameOwners(r, s)
<1> DEFINE s == [r EXCEPT !.label[a] = l]
<1>1. r \in Registry /\ History(r) /\ Valid(r)
  BY DEF Sound
<1>2. /\ s.epoch = r.epoch /\ s.next = r.next /\ s.initialized = r.initialized
      /\ s.confirmed = r.confirmed /\ s.activation = r.activation /\ s.intervals = r.intervals
  BY <1>1 DEF Registry
<1>3. s \in Registry
  BY <1>1 DEF Registry
<1> HIDE DEF s
<1>4. History(s)
  BY <1>1, <1>2 DEF History
<1>5. Valid(s)
  BY <1>1, <1>2 DEF Valid, ValidEpochs, Recorded, ValidTimeline
<1> QED BY <1>2, <1>3, <1>4, <1>5 DEF Sound, SameOwners, s

-----------------------------------------------------------------------------
(* The start.                                                               *)

LEMMA EmptyType == Empty \in Registry
  BY DEF Empty, Registry, None

\* A registry of an older version is sound.
LEMMA LegacySound == \A r \in LegacyRegistries : Sound(r)
<1> SUFFICES ASSUME NEW r \in LegacyRegistries PROVE Sound(r)
  OBVIOUS
<1> DEFINE n == Cardinality(Legacy)
           first == [a \in Accounts |-> IF a \in Activated THEN 1 ELSE None]
<1>1. n \in Nat
  BY RegistryAssumption, FS_Subset, FS_CardinalityType
<1> HIDE DEF n
<1>2. PICK e \in [Accounts -> 0..n] :
          r = [Empty EXCEPT !.epoch = e, !.next = n + 1, !.initialized = Legacy, !.activation = first]
  BY DEF LegacyRegistries, n
<1>3. ValidEpochs(r)
  BY DEF LegacyRegistries
<1>4. first \in [Accounts -> Nat]
  BY DEF None
<1> HIDE DEF first
<1>5. /\ r.epoch = e /\ r.next = n + 1 /\ r.initialized = Legacy /\ r.activation = first
      /\ r.confirmed = {} /\ \A a \in Accounts : r.intervals[a] = {}
  BY <1>2 DEF Empty
<1>6. r \in Registry
  <2>1. e \in [Accounts -> Nat] /\ n + 1 \in Nat \ {0} /\ Legacy \subseteq Accounts
    BY <1>1, RegistryAssumption
  <2> QED BY <1>2, <1>4, <2>1, EmptyType DEF Registry
<1>7. History(r)
  BY <1>5, RegistryAssumption DEF History, first
<1>8. Valid(r)
  BY <1>3, <1>5 DEF Valid, Recorded, ValidTimeline
<1> QED BY <1>6, <1>7, <1>8 DEF Sound

\* The first start satisfies the inductive invariant.
LEMMA InitRegistryInv == Init => RegistryInv
<1> SUFFICES ASSUME Init PROVE RegistryInv
  OBVIOUS
<1>1. Sound(reg)
  BY LegacySound DEF Init
<1>2. TypeOK
  <2>1. used \in [logins : Nat, setbacks : Nat, faults : Nat, kills : Nat]
    BY DEF Init
  <2>2. reg \in Registry /\ mcopy \in Registry /\ wcopy \in Registry
    BY <1>1, EmptyType DEF Init, NoProcess, Sound
  <2>3. auth \in Accounts \cup {LoggedOut, Damaged} /\ now \in Time
    BY DEF Init, Time
  <2>4. /\ mpc \in MainSteps /\ wpc \in {"off", "idle", "loss", "closing", "reported"}
        /\ acct \in Accounts \cup {None} /\ proof \in Accounts \cup {None}
        /\ stamp \in Nat /\ signalled \in BOOLEAN
    BY DEF Init, NoProcess, MainSteps, None
  <2> QED BY <2>1, <2>2, <2>3, <2>4 DEF TypeOK
<1>3. StepInv
  BY DEF Init, NoProcess, StepInv
<1>4. DataInv /\ CopyInv
  BY <1>1, EmptyType DEF Init, NoProcess, DataInv, CopyInv, MainHolds
<1> QED BY <1>2, <1>3, <1>4 DEF RegistryInv

-----------------------------------------------------------------------------
(* The steps: types and program counters.                                   *)

\* TypeOK without the registries.
Shape ==
    /\ auth \in Accounts \cup {LoggedOut, Damaged}
    /\ now \in Time
    /\ used \in [logins : Nat, setbacks : Nat, faults : Nat, kills : Nat]
    /\ mpc \in MainSteps /\ wpc \in {"off", "idle", "loss", "closing", "reported"}
    /\ acct \in Accounts \cup {None} /\ proof \in Accounts \cup {None}
    /\ stamp \in Nat
    /\ signalled \in BOOLEAN

\* A fault only spends its bound.
LEMMA FaultShape ==
    ASSUME Shape, Fault
    PROVE  /\ auth' = auth /\ now' = now
           /\ used' \in [logins : Nat, setbacks : Nat, faults : Nat, kills : Nat]
  BY DEF Shape, Fault

\* Storing leaves the environment in shape.
LEMMA StoreShape ==
    ASSUME Shape, NEW r, Store(r) \/ StoreFails(r)
    PROVE  /\ auth' = auth /\ now' = now
           /\ used' \in [logins : Nat, setbacks : Nat, faults : Nat, kills : Nat]
  BY FaultShape DEF Store, StoreFails, env, Shape

\* The memory of a process that has ended is in shape.
LEMMA ExitShape ==
    ASSUME Exit, auth' \in Accounts \cup {LoggedOut, Damaged}, now' \in Time,
           used' \in [logins : Nat, setbacks : Nat, faults : Nat, kills : Nat]
    PROVE  Shape' /\ StepInv'
  BY DEF Exit, Shape, StepInv, MainSteps, None

\* One step keeps shape and program counters.
LEMMA ShapeStep == Shape /\ StepInv /\ [Next]_vars => Shape' /\ StepInv'
<1> SUFFICES ASSUME Shape, StepInv, [Next]_vars PROVE Shape' /\ StepInv'
  OBVIOUS
<1> USE RegistryAssumption
<1>1. CASE StartSteps
  <2>1. CASE ReserveRefused \/ BeginFails \/ AdmitRefused
    BY <2>1, ExitShape DEF ReserveRefused, BeginFails, AdmitRefused, env, Shape
  <2>2. CASE ReserveFails
    <3>1. Exit /\ (UNCHANGED env \/ StoreFails(mcopy))
      BY <2>2 DEF ReserveFails
    <3> QED BY <3>1, StoreShape, ExitShape DEF env, Shape
  <2>3. CASE AdmitFails
    <3>1. Exit /\ (UNCHANGED env \/ StoreFails(mcopy))
      BY <2>3 DEF AdmitFails
    <3> QED BY <3>1, StoreShape, ExitShape DEF env, Shape
  <2>4. CASE Refused
    <3>1. CASE Exit
      BY <2>4, <3>1, ExitShape DEF Refused, env, Shape
    <3>2. CASE ~Exit
      BY <2>4, <3>2 DEF Refused, Goto, env, Shape, StepInv, MainSteps
    <3> QED BY <3>1, <3>2
  <2>5. CASE Launch \/ Start \/ Unreadable \/ Reserve
    BY <2>5 DEF Launch, Start, Unreadable, Reserve, Goto, env, Shape, StepInv, MainSteps, Time
  <2>6. CASE Begin \/ Confirm \/ Admit
    BY <2>6 DEF Begin, Confirm, Admit, Goto, env, Shape, StepInv, MainSteps, Time
  <2>7. CASE ConfirmFails
    <3>1. /\ auth' = auth /\ now' = now
          /\ used' \in [logins : Nat, setbacks : Nat, faults : Nat, kills : Nat]
      BY <2>7, FaultShape DEF ConfirmFails, env, Shape
    <3> QED BY <2>7, <3>1 DEF ConfirmFails, Goto, Shape, StepInv, MainSteps
  <2>8. CASE ReserveStore
    <3>1. /\ auth' = auth /\ now' = now
          /\ used' \in [logins : Nat, setbacks : Nat, faults : Nat, kills : Nat]
      BY <2>8, StoreShape DEF ReserveStore
    <3> QED BY <2>8, <3>1 DEF ReserveStore, Goto, Shape, StepInv, MainSteps, None
  <2>9. CASE AdmitStore
    <3>1. /\ auth' = auth /\ now' = now
          /\ used' \in [logins : Nat, setbacks : Nat, faults : Nat, kills : Nat]
      BY <2>9, StoreShape DEF AdmitStore
    <3> QED BY <2>9, <3>1 DEF AdmitStore, Goto, Shape, StepInv, MainSteps, None
  <2> QED BY <1>1, <2>1, <2>2, <2>3, <2>4, <2>5, <2>6, <2>7, <2>8, <2>9 DEF StartSteps
<1>2. CASE LogoutSteps
  <2>1. CASE Probe
    BY <2>1 DEF Probe, Goto, env, Shape, StepInv, MainSteps
  <2>2. CASE ProbeFails
    <3>1. Exit /\ (UNCHANGED env \/ Fault)
      BY <2>2 DEF ProbeFails
    <3> QED BY <3>1, FaultShape, ExitShape DEF env, Shape
  <2>3. CASE LogoutStore
    <3>1. CASE StoreFails(mcopy) /\ Exit
      BY <3>1, StoreShape, ExitShape DEF Shape
    <3>2. CASE Store(mcopy) /\ Goto("idle") /\ UNCHANGED <<acct, proof, stamp, signalled, wpc, wcopy>>
      <4>1. UNCHANGED env
        BY <3>2 DEF Store
      <4> QED BY <2>3, <3>2, <4>1 DEF LogoutStore, Goto, env, Shape, StepInv, MainSteps
    <3> QED BY <2>3, <3>1, <3>2 DEF LogoutStore
  <2>4. CASE IdleEnds
    BY <2>4, ExitShape DEF IdleEnds, env, Shape
  <2> QED BY <1>2, <2>1, <2>2, <2>3, <2>4 DEF LogoutSteps
<1>3. CASE RunSteps
  <2>1. CASE OpenStorage
    <3>1. /\ auth' = auth /\ now' = now
          /\ used' \in [logins : Nat, setbacks : Nat, faults : Nat, kills : Nat]
      BY <2>1, StoreShape DEF OpenStorage
    <3> QED BY <2>1, <3>1 DEF OpenStorage, Goto, Shape, StepInv, MainSteps
  <2>2. CASE NoticeLoss
    BY <2>2 DEF NoticeLoss, Goto, env, Shape, StepInv, MainSteps
  <2>3. CASE CaptureFails \/ WorkerReports
    BY <2>3, ExitShape DEF CaptureFails, WorkerReports, env, Shape
  <2>4. CASE LabelStore
    <3>1. /\ auth' = auth /\ now' = now
          /\ used' \in [logins : Nat, setbacks : Nat, faults : Nat, kills : Nat]
      BY <2>4, StoreShape DEF LabelStore
    <3> QED BY <2>4, <3>1 DEF LabelStore, Goto, Shape, StepInv, MainSteps
  <2>5. CASE Loss
    <3>1. CASE Exit
      BY <2>5, <3>1, ExitShape DEF Loss, env, Shape
    <3>2. CASE ~Exit
      BY <2>5, <3>2 DEF Loss, Goto, env, Shape, StepInv, MainSteps
    <3> QED BY <3>1, <3>2
  <2>6. CASE LossStore
    BY <2>6, StoreShape, ExitShape DEF LossStore, Shape
  <2> QED BY <1>3, <2>1, <2>2, <2>3, <2>4, <2>5, <2>6 DEF RunSteps
<1>4. CASE WorkerSteps
  <2>1. CASE WorkerNotices \/ WorkerLoss
    BY <2>1 DEF WorkerNotices, WorkerLoss, env, Shape, StepInv
  <2>2. CASE WorkerStore
    <3>1. /\ auth' = auth /\ now' = now
          /\ used' \in [logins : Nat, setbacks : Nat, faults : Nat, kills : Nat]
      BY <2>2, StoreShape DEF WorkerStore
    <3> QED BY <2>2, <3>1 DEF WorkerStore, Shape, StepInv
  <2> QED BY <1>4, <2>1, <2>2 DEF WorkerSteps
<1>5. CASE EnvSteps
  <2>1. ASSUME NEW to \in Accounts \cup {LoggedOut, Damaged}, Login(to) PROVE Shape' /\ StepInv'
    BY <2>1 DEF Login, process, Shape, StepInv
  <2>2. CASE Tick \/ SetBack
    BY <2>2 DEF Tick, SetBack, process, Shape, StepInv, Time
  <2>3. CASE Kill
    <3>1. used' \in [logins : Nat, setbacks : Nat, faults : Nat, kills : Nat]
      BY <2>3 DEF Kill, Shape
    <3> QED BY <2>3, <3>1, ExitShape DEF Kill, Shape
  <2>4. CASE Signal
    BY <2>4 DEF Signal, env, Shape, StepInv
  <2>5. ASSUME NEW l \in Labels, Label(l) PROVE Shape' /\ StepInv'
    BY <2>5 DEF Label, Goto, env, Shape, StepInv, MainSteps
  <2> QED BY <1>5, <2>1, <2>2, <2>3, <2>4, <2>5 DEF EnvSteps
<1>6. CASE UNCHANGED vars
  BY <1>6 DEF vars, env, process, Shape, StepInv
<1> QED BY <1>1, <1>2, <1>3, <1>4, <1>5, <1>6 DEF Next

-----------------------------------------------------------------------------
(* The steps: the file and its copies.                                      *)

\* A step that leaves the registries alone and starts no store.
LEMMA QuietFrame ==
    ASSUME DataInv, CopyInv, UNCHANGED <<reg, mcopy, wcopy>>,
           mpc' = mpc \/ ~MainHolds',
           wpc' = wpc \/ wpc' \notin {"off", "closing"}
    PROVE  DataInv' /\ CopyInv'
  BY DEF DataInv, CopyInv, MainHolds

\* A process that has ended holds no copy.
LEMMA ExitFrame ==
    ASSUME Exit, Sound(reg)'
    PROVE  DataInv' /\ CopyInv'
  BY EmptyType DEF Exit, DataInv, CopyInv, MainHolds

\* What write_metadata leaves on disk is sound if the copy was.
LEMMA StoreFrame ==
    ASSUME Sound(reg), NEW r, Sound(r), Store(r) \/ StoreFails(r)
    PROVE  Sound(reg)' /\ reg' \in {reg, r}
<1>1. reg' \in {reg, r}
  BY DEF Store, StoreFails
<1> QED BY <1>1 DEF Sound, Valid, ValidEpochs, Recorded, ValidTimeline, History

\* The main thread has stored its copy, or failed to, and goes on.
LEMMA MainStored ==
    ASSUME DataInv, CopyInv, MainHolds, reg' \in {reg, mcopy}, Sound(reg)', mcopy' = Empty,
           ~MainHolds', UNCHANGED <<wpc, wcopy>>,
           wpc = "closing" => SameOwners(reg, mcopy)
    PROVE  DataInv' /\ CopyInv'
<1>1. wpc = "closing" => SameOwners(reg', wcopy)
  BY DEF CopyInv, SameOwners
<1> QED BY <1>1, EmptyType DEF DataInv, CopyInv, MainHolds

\* The main thread has computed a copy from the file.
LEMMA MainComputed ==
    ASSUME DataInv, CopyInv, UNCHANGED <<reg, wpc, wcopy>>, MainHolds',
           mcopy' \in Registry, History(mcopy)', mpc' # "admitted" \/ Activated = {} => Valid(mcopy)',
           Keeps(reg, mcopy'),
           mpc' \in {"label", "closing", "logout"} => SameOwners(reg, mcopy'),
           wpc = "off" => KeepsEnds(reg, mcopy')
    PROVE  DataInv' /\ CopyInv'
  BY DEF DataInv, CopyInv

\* A registry with the same owners keeps them.
LEMMA SameKeeps == ASSUME NEW r, NEW s, SameOwners(r, s) PROVE Keeps(r, s)
  BY DEF SameOwners, Keeps

\* Where a changed file comes from.
Stored ==
    \/ reg' = reg
    \/ MainHolds /\ reg' = mcopy
    \/ wpc = "closing" /\ reg' = wcopy
    \/ mpc = "storage" /\ acct \in Accounts /\ reg' = Initialized(reg, acct)

\* One step keeps the file and its copies sound.
LEMMA DataStep == RegistryInv /\ [Next]_vars => DataInv' /\ CopyInv' /\ Stored
<1> SUFFICES ASSUME TypeOK, StepInv, DataInv, CopyInv, [Next]_vars
             PROVE  DataInv' /\ CopyInv' /\ Stored
  BY DEF RegistryInv
<1> USE RegistryAssumption
<1>a. Sound(reg) /\ now \in Time /\ auth \in Accounts \cup {LoggedOut, Damaged}
  BY DEF DataInv, TypeOK
<1>b. MainHolds /\ (mpc # "admitted" \/ Valid(mcopy)) => Sound(mcopy)
  BY DEF DataInv, Sound
<1>1. CASE StartSteps
  <2>1. CASE ReserveRefused \/ BeginFails \/ AdmitRefused
    <3>1. Exit /\ reg' = reg
      BY <2>1 DEF ReserveRefused, BeginFails, AdmitRefused
    <3>2. Sound(reg)'
      BY <1>a, <3>1 DEF Sound, Valid, ValidEpochs, Recorded, ValidTimeline, History
    <3> QED BY <3>1, <3>2, ExitFrame DEF Stored
  <2>2. CASE ReserveFails
    <3>1. Exit /\ MainHolds /\ mpc # "admitted" /\ (reg' = reg \/ StoreFails(mcopy))
      BY <2>2 DEF ReserveFails, MainHolds
    <3>2. Sound(reg)' /\ reg' \in {reg, mcopy}
      BY <1>a, <1>b, <3>1, StoreFrame DEF Sound, Valid, ValidEpochs, Recorded, ValidTimeline, History
    <3> QED BY <3>1, <3>2, ExitFrame DEF Stored
  <2>3. CASE AdmitFails
    <3>1. Exit /\ MainHolds /\ (reg' = reg \/ (Valid(mcopy) /\ StoreFails(mcopy)))
      BY <2>3 DEF AdmitFails, MainHolds, CanFinish
    <3>2. Sound(reg)' /\ reg' \in {reg, mcopy}
      BY <1>a, <1>b, <3>1, StoreFrame DEF Sound, Valid, ValidEpochs, Recorded, ValidTimeline, History
    <3> QED BY <3>1, <3>2, ExitFrame DEF Stored
  <2>4. CASE Refused
    <3>1. CASE Exit
      <4>1. Sound(reg)' /\ reg' = reg
        BY <1>a, <2>4 DEF Refused, Sound, Valid, ValidEpochs, Recorded, ValidTimeline, History
      <4> QED BY <3>1, <4>1, ExitFrame DEF Stored
    <3>2. CASE ~Exit
      BY <2>4, <3>2, QuietFrame DEF Refused, Goto, MainHolds, Stored
    <3> QED BY <3>1, <3>2
  <2>5. CASE Launch \/ Start \/ Unreadable \/ Begin \/ Confirm \/ ConfirmFails
    <3>1. UNCHANGED <<reg, mcopy, wcopy, wpc>> /\ ~MainHolds'
      BY <2>5 DEF Launch, Start, Unreadable, Begin, Confirm, ConfirmFails, Goto, MainHolds
    <3> QED BY <3>1, QuietFrame DEF Stored
  <2>6. CASE Reserve
    <3> DEFINE s == Allocate(Handover(reg, auth, stamp), auth)
    <3>1. /\ auth \in Accounts /\ CanHandover(reg, auth, stamp) /\ stamp \in Time
          /\ mcopy' = s /\ mpc' = "reserved" /\ UNCHANGED <<reg, wpc, wcopy>>
      BY <2>6 DEF Reserve, Goto, StepInv
    <3>2. Sound(s) /\ Keeps(reg, s) /\ KeepsEnds(reg, s)
      BY <1>a, <3>1, ReserveSound
    <3> HIDE DEF s
    <3>3. mcopy' \in Registry /\ History(mcopy)' /\ Valid(mcopy)'
      BY <3>1, <3>2 DEF Sound, Valid, ValidEpochs, Recorded, ValidTimeline, History
    <3> QED BY <3>1, <3>2, <3>3, MainComputed DEF MainHolds, Stored
  <2>7. CASE Admit
    <3> DEFINE s == Admitted(reg, acct, stamp)
    <3>1. /\ acct \in Accounts /\ NotBefore(reg, stamp) /\ stamp \in Time
          /\ mcopy' = s /\ mpc' = "admitted" /\ UNCHANGED <<reg, wpc, wcopy>>
      BY <2>7 DEF Admit, Goto, StepInv
    <3>2. /\ s \in Registry /\ History(s) /\ Keeps(reg, s) /\ KeepsEnds(reg, s)
          /\ Activated = {} => Valid(s)
      BY <1>a, <3>1, AdmitSound
    <3> HIDE DEF s
    <3>3. mcopy' \in Registry /\ History(mcopy)' /\ (Activated = {} => Valid(mcopy)')
      BY <3>1, <3>2 DEF Valid, ValidEpochs, Recorded, ValidTimeline, History
    <3> QED BY <3>1, <3>2, <3>3, MainComputed DEF MainHolds, Stored
  <2>8. CASE ReserveStore
    <3>1. /\ MainHolds /\ mpc = "reserved" /\ Store(mcopy) /\ mcopy' = Empty /\ mpc' = "begin"
          /\ UNCHANGED <<wpc, wcopy>>
      BY <2>8 DEF ReserveStore, Goto, MainHolds
    <3>2. Sound(reg)' /\ reg' = mcopy
      BY <1>a, <1>b, <3>1, StoreFrame DEF Store
    <3> QED BY <3>1, <3>2, MainStored DEF StepInv, MainHolds, Stored
  <2>9. CASE AdmitStore
    <3>1. /\ MainHolds /\ mpc = "admitted" /\ Valid(mcopy) /\ Store(mcopy) /\ mcopy' = Empty
          /\ mpc' = "storage" /\ UNCHANGED <<wpc, wcopy>>
      BY <2>9 DEF AdmitStore, Goto, MainHolds, CanFinish
    <3>2. Sound(reg)' /\ reg' = mcopy
      BY <1>a, <1>b, <3>1, StoreFrame DEF Store
    <3> QED BY <3>1, <3>2, MainStored DEF StepInv, MainHolds, Stored
  <2> QED BY <1>1, <2>1, <2>2, <2>3, <2>4, <2>5, <2>6, <2>7, <2>8, <2>9 DEF StartSteps
<1>2. CASE LogoutSteps
  <2>1. CASE Probe
    <3> DEFINE s == CloseOpen(reg, now)
    <3>1. /\ NotBefore(reg, now) /\ mcopy' = s /\ mpc' = "logout" /\ UNCHANGED <<reg, wpc, wcopy>>
      BY <2>1 DEF Probe, Goto
    <3>2. Sound(s) /\ SameOwners(reg, s) /\ KeepsEnds(reg, s) /\ Keeps(reg, s)
      BY <1>a, <3>1, CloseSound, SameKeeps
    <3> HIDE DEF s
    <3>3. mcopy' \in Registry /\ History(mcopy)' /\ Valid(mcopy)'
      BY <3>1, <3>2 DEF Sound, Valid, ValidEpochs, Recorded, ValidTimeline, History
    <3> QED BY <3>1, <3>2, <3>3, MainComputed DEF MainHolds, Stored
  <2>2. CASE ProbeFails \/ IdleEnds
    <3>1. Exit /\ reg' = reg
      BY <2>2 DEF ProbeFails, IdleEnds
    <3>2. Sound(reg)'
      BY <1>a, <3>1 DEF Sound, Valid, ValidEpochs, Recorded, ValidTimeline, History
    <3> QED BY <3>1, <3>2, ExitFrame DEF Stored
  <2>3. CASE LogoutStore
    <3>1. MainHolds /\ mpc = "logout" /\ (Store(mcopy) \/ StoreFails(mcopy))
      BY <2>3 DEF LogoutStore, MainHolds
    <3>2. Sound(reg)' /\ reg' \in {reg, mcopy}
      BY <1>a, <1>b, <3>1, StoreFrame
    <3>3. CASE Exit
      BY <3>1, <3>2, <3>3, ExitFrame DEF Stored
    <3>4. CASE mpc' = "idle" /\ mcopy' = Empty /\ UNCHANGED <<wpc, wcopy>>
      BY <3>1, <3>2, <3>4, MainStored DEF StepInv, MainHolds, Stored
    <3> QED BY <2>3, <3>3, <3>4 DEF LogoutStore, Goto
  <2> QED BY <1>2, <2>1, <2>2, <2>3 DEF LogoutSteps
<1>3. CASE RunSteps
  <2>1. CASE OpenStorage
    <3> DEFINE s == Initialized(reg, acct)
    <3>1. /\ mpc = "storage" /\ acct \in Accounts /\ wpc = "off"
          /\ Store(s) \/ StoreFails(s)
      BY <2>1 DEF OpenStorage, StepInv
    <3>2. Sound(s)
      BY <1>a, <3>1, InitializeSound
    <3>3. Sound(reg)' /\ reg' \in {reg, s}
      BY <1>a, <3>1, <3>2, StoreFrame
    <3>4. mpc' \in {"storage", "run"} /\ wpc' \in {"off", "idle"} /\ UNCHANGED <<mcopy, wcopy>>
      BY <2>1, <3>1 DEF OpenStorage, Goto
    <3>5. DataInv' /\ CopyInv'
      BY <3>3, <3>4 DEF DataInv, CopyInv, MainHolds
    <3> QED BY <3>1, <3>3, <3>5 DEF Stored
  <2>2. CASE NoticeLoss
    BY <2>2, QuietFrame DEF NoticeLoss, Goto, MainHolds, Stored
  <2>3. CASE CaptureFails \/ WorkerReports
    <3>1. Exit /\ reg' = reg
      BY <2>3 DEF CaptureFails, WorkerReports
    <3>2. Sound(reg)'
      BY <1>a, <3>1 DEF Sound, Valid, ValidEpochs, Recorded, ValidTimeline, History
    <3> QED BY <3>1, <3>2, ExitFrame DEF Stored
  <2>4. CASE LabelStore
    <3>1. /\ MainHolds /\ mpc = "label" /\ (Store(mcopy) \/ StoreFails(mcopy)) /\ mpc' = "run"
          /\ mcopy' = Empty /\ UNCHANGED <<wpc, wcopy>>
      BY <2>4 DEF LabelStore, Goto, MainHolds
    <3>2. Sound(reg)' /\ reg' \in {reg, mcopy}
      BY <1>a, <1>b, <3>1, StoreFrame
    <3>3. SameOwners(reg, mcopy)
      BY <3>1 DEF CopyInv
    <3> QED BY <3>1, <3>2, <3>3, MainStored DEF MainHolds, Stored
  <2>5. CASE Loss
    <3>1. CASE Exit
      <4>1. Sound(reg)' /\ reg' = reg
        BY <1>a, <2>5 DEF Loss, Sound, Valid, ValidEpochs, Recorded, ValidTimeline, History
      <4> QED BY <3>1, <4>1, ExitFrame DEF Stored
    <3>2. CASE ~Exit
      <4> DEFINE s == CloseOpen(reg, now)
      <4>1. /\ NotBefore(reg, now) /\ mcopy' = s /\ mpc' = "closing" /\ UNCHANGED <<reg, wpc, wcopy>>
        BY <2>5, <3>2 DEF Loss, Goto
      <4>2. Sound(s) /\ SameOwners(reg, s) /\ KeepsEnds(reg, s) /\ Keeps(reg, s)
        BY <1>a, <4>1, CloseSound, SameKeeps
      <4> HIDE DEF s
      <4>3. mcopy' \in Registry /\ History(mcopy)' /\ Valid(mcopy)'
        BY <4>1, <4>2 DEF Sound, Valid, ValidEpochs, Recorded, ValidTimeline, History
      <4> QED BY <4>1, <4>2, <4>3, MainComputed DEF MainHolds, Stored
    <3> QED BY <3>1, <3>2
  <2>6. CASE LossStore
    <3>1. MainHolds /\ mpc = "closing" /\ (Store(mcopy) \/ StoreFails(mcopy)) /\ Exit
      BY <2>6 DEF LossStore, MainHolds
    <3>2. Sound(reg)' /\ reg' \in {reg, mcopy}
      BY <1>a, <1>b, <3>1, StoreFrame
    <3> QED BY <3>1, <3>2, ExitFrame DEF Stored
  <2> QED BY <1>3, <2>1, <2>2, <2>3, <2>4, <2>5, <2>6 DEF RunSteps
<1>4. CASE WorkerSteps
  <2>1. CASE WorkerNotices
    BY <2>1, QuietFrame DEF WorkerNotices, Stored
  <2>2. CASE WorkerLoss
    <3>1. CASE ~NotBefore(reg, now)
      BY <2>2, <3>1, QuietFrame DEF WorkerLoss, Stored
    <3>2. CASE NotBefore(reg, now)
      <4> DEFINE s == CloseOpen(reg, now)
      <4>1. wcopy' = s /\ wpc' = "closing" /\ wpc = "loss" /\ UNCHANGED <<reg, mpc, mcopy>>
        BY <2>2, <3>2 DEF WorkerLoss
      <4>2. Sound(s) /\ SameOwners(reg, s)
        BY <1>a, <3>2, CloseSound
      <4> HIDE DEF s
      <4>3. Sound(wcopy)'
        BY <4>1, <4>2 DEF Sound, Valid, ValidEpochs, Recorded, ValidTimeline, History
      <4>4. DataInv'
        BY <4>1, <4>3 DEF DataInv, MainHolds, Sound
      <4>5. CopyInv'
        BY <4>1, <4>2 DEF CopyInv, MainHolds
      <4> QED BY <4>1, <4>4, <4>5 DEF Stored
    <3> QED BY <3>1, <3>2
  <2>3. CASE WorkerStore
    <3>1. /\ wpc = "closing" /\ (Store(wcopy) \/ StoreFails(wcopy)) /\ wpc' = "reported"
          /\ wcopy' = Empty /\ UNCHANGED <<mpc, mcopy>>
      BY <2>3 DEF WorkerStore
    <3>2. Sound(wcopy) /\ SameOwners(reg, wcopy)
      BY <3>1 DEF DataInv, CopyInv
    <3>3. Sound(reg)' /\ reg' \in {reg, wcopy}
      BY <1>a, <3>1, <3>2, StoreFrame
    <3>4. MainHolds => mpc \in {"label", "closing"} /\ SameOwners(reg, mcopy)
      BY <3>1 DEF StepInv, MainHolds, CopyInv
    <3>5. MainHolds => SameOwners(reg', mcopy) /\ Keeps(reg', mcopy)
      BY <3>2, <3>3, <3>4 DEF SameOwners, Keeps
    <3>6. DataInv'
      BY <3>1, <3>3, EmptyType DEF DataInv, MainHolds
    <3>7. CopyInv'
      BY <3>1, <3>4, <3>5 DEF CopyInv, MainHolds
    <3> QED BY <3>1, <3>3, <3>6, <3>7 DEF Stored
  <2> QED BY <1>4, <2>1, <2>2, <2>3 DEF WorkerSteps
<1>5. CASE EnvSteps
  <2>1. CASE \/ \E to \in Accounts \cup {LoggedOut, Damaged} : Login(to)
             \/ Tick \/ SetBack \/ Signal
    <3>1. UNCHANGED <<reg, mcopy, wcopy, mpc, wpc>>
      BY <2>1 DEF Login, Tick, SetBack, Signal, process
    <3> QED BY <3>1, QuietFrame DEF Stored
  <2>2. CASE Kill
    <3>1. Exit /\ reg' = reg
      BY <2>2 DEF Kill
    <3>2. Sound(reg)'
      BY <1>a, <3>1 DEF Sound, Valid, ValidEpochs, Recorded, ValidTimeline, History
    <3> QED BY <3>1, <3>2, ExitFrame DEF Stored
  <2>3. ASSUME NEW l \in Labels, Label(l) PROVE DataInv' /\ CopyInv' /\ Stored
    <3> DEFINE s == [reg EXCEPT !.label[acct] = l]
    <3>1. /\ acct \in Accounts /\ wpc # "off" /\ mcopy' = s /\ mpc' = "label"
          /\ UNCHANGED <<reg, wpc, wcopy>>
      BY <2>3 DEF Label, Goto, StepInv
    <3>2. Sound(s) /\ SameOwners(reg, s) /\ Keeps(reg, s)
      BY <1>a, <3>1, LabelSound, SameKeeps
    <3> HIDE DEF s
    <3>3. mcopy' \in Registry /\ History(mcopy)' /\ Valid(mcopy)'
      BY <3>1, <3>2 DEF Sound, Valid, ValidEpochs, Recorded, ValidTimeline, History
    <3> QED BY <3>1, <3>2, <3>3, MainComputed DEF MainHolds, Stored
  <2> QED BY <1>5, <2>1, <2>2, <2>3 DEF EnvSteps
<1>6. CASE UNCHANGED vars
  BY <1>6, QuietFrame DEF vars, process, Stored
<1> QED BY <1>1, <1>2, <1>3, <1>4, <1>5, <1>6 DEF Next

-----------------------------------------------------------------------------
(* The theorems.                                                            *)

\* The registry and both threads' copies of it are sound in every reachable
\* state, whatever older versions left behind.
THEOREM RegistryIsSound == Spec => []RegistryInv
<1>1. RegistryInv /\ [Next]_vars => RegistryInv'
  <2> SUFFICES ASSUME RegistryInv, [Next]_vars PROVE RegistryInv'
    OBVIOUS
  <2>1. DataInv' /\ CopyInv'
    BY DataStep
  <2>2. Shape' /\ StepInv'
    BY ShapeStep DEF RegistryInv, TypeOK, Shape
  <2>3. TypeOK'
    BY <2>1, <2>2 DEF TypeOK, Shape, DataInv, Sound
  <2> QED BY <2>1, <2>2, <2>3 DEF RegistryInv
<1> QED BY <1>1, InitRegistryInv, PTL DEF Spec

\* The registry file always passes its own validation: one open interval at
\* most, no second owned by two accounts, no storage epoch shared.
THEOREM StoredRegistryIsValid == Spec => []Valid(reg)
<1>1. RegistryInv => Valid(reg)
  BY DEF RegistryInv, DataInv, Sound
<1> QED BY <1>1, RegistryIsSound, PTL

\* Where no older version left an activation time, no operation computes a
\* registry that the validation before the write would refuse.
THEOREM NothingIsRefused == ASSUME Activated = {} PROVE Spec => []CandidateValid
<1>1. RegistryInv => CandidateValid
  BY DEF RegistryInv, DataInv, Sound, CandidateValid
<1> QED BY <1>1, RegistryIsSound, PTL

\* Ownership without confirmation does not exist on disk.
THEOREM OwnersAreConfirmed == Spec => []OwnershipConfirmed
<1>1. RegistryInv => OwnershipConfirmed
  BY DEF RegistryInv, DataInv, Sound, History, OwnershipConfirmed
<1> QED BY <1>1, RegistryIsSound, PTL

\* An account's storage epoch and its confirmation are for ever.
THEOREM EpochsAreKept == Spec => EpochsPermanent
<1>1. RegistryInv /\ [Next]_vars => Keeps(reg, reg')
  <2> SUFFICES ASSUME RegistryInv, [Next]_vars PROVE Keeps(reg, reg')
    OBVIOUS
  <2>1. Stored /\ Sound(reg) /\ CopyInv
    BY DataStep DEF RegistryInv, DataInv
  <2>2. CASE reg' = reg
    BY <2>2, Unmoved
  <2>3. CASE MainHolds /\ reg' = mcopy
    BY <2>1, <2>3 DEF CopyInv
  <2>4. CASE wpc = "closing" /\ reg' = wcopy
    BY <2>1, <2>4, SameKeeps DEF CopyInv
  <2>5. CASE acct \in Accounts /\ reg' = Initialized(reg, acct)
    BY <2>1, <2>5, InitializeSound, SameKeeps
  <2> QED BY <2>1, <2>2, <2>3, <2>4, <2>5 DEF Stored
<1>2. RegistryInv /\ [Next]_vars =>
        [\A a \in Accounts :
            /\ reg.epoch[a] # None => reg'.epoch[a] = reg.epoch[a]
            /\ a \in reg.confirmed => a \in reg'.confirmed]_vars
  BY <1>1 DEF Keeps
<1> QED BY <1>2, RegistryIsSound, PTL DEF Spec, EpochsPermanent

-----------------------------------------------------------------------------
(* Whose interval is open: the operations.                                  *)

\* Closing leaves no interval open, moves no start, and touches no account
\* but the one whose interval was open.
LEMMA CloseScopes ==
    ASSUME NEW r \in Registry, NEW at \in Time
    PROVE  /\ OpenScopes(CloseOpen(r, at)) = {}
           /\ \A a \in Accounts : Starts(CloseOpen(r, at), a) = Starts(r, a)
           /\ \A a \in Accounts : a \notin OpenScopes(r) =>
                  CloseOpen(r, at).intervals[a] = r.intervals[a]
<1> DEFINE c == CloseOpen(r, at)
<1>1. \A a \in Accounts : c.intervals[a] = {Closed(i, at) : i \in r.intervals[a]}
  BY CloseOpenFacts
<1>2. \A a \in Accounts : \A i \in r.intervals[a] :
          /\ Closed(i, at).end # None /\ Closed(i, at).start = i.start
          /\ i.end # None => Closed(i, at) = i
  BY IntervalFacts, ClosedFacts
<1> HIDE DEF c
<1>3. OpenScopes(c) = {}
  BY <1>1, <1>2 DEF OpenScopes
<1>4. \A a \in Accounts : Starts(c, a) = Starts(r, a)
  BY <1>1, <1>2 DEF Starts
<1>5. ASSUME NEW a \in Accounts, a \notin OpenScopes(r) PROVE c.intervals[a] = r.intervals[a]
  <2>1. \A i \in r.intervals[a] : Closed(i, at) = i
    BY <1>2, <1>5 DEF OpenScopes
  <2> QED BY <1>1, <2>1
<1> QED BY <1>3, <1>4, <1>5 DEF c

\* A reservation opens nothing.
LEMMA ReserveScopes ==
    ASSUME NEW r, Sound(r), NEW a \in Accounts, NEW at \in Time, CanHandover(r, a, at)
    PROVE  OpenScopes(Allocate(Handover(r, a, at), a)) \subseteq OpenScopes(r)
<1> DEFINE h == Handover(r, a, at)
<1>1. r \in Registry
  BY DEF Sound
<1>2. h \in Registry /\ OpenScopes(h) \subseteq OpenScopes(r)
  BY <1>1, CloseScopes, CloseOpenFacts DEF Handover
<1> HIDE DEF h
<1>3. Allocate(h, a).intervals = h.intervals
  BY <1>2 DEF Allocate, Registry
<1> QED BY <1>2, <1>3 DEF OpenScopes, h

\* An admission leaves nobody's interval open but the admitted account's.
LEMMA AdmitScopes ==
    ASSUME NEW r, Sound(r), NEW a \in Accounts, NEW at \in Time
    PROVE  OpenScopes(Admitted(r, a, at)) \subseteq {a}
<1>1. r \in Registry /\ ValidTimeline(r)
  BY DEF Sound, Valid
<1>2. CASE SameOpen(r, a)
  <2>1. OpenScopes(r) \subseteq {a}
    BY <1>1, <1>2 DEF SameOpen, OpenScopes, ValidTimeline
  <2> QED BY <1>2, <2>1 DEF Admitted
<1>3. CASE ~SameOpen(r, a)
  <2> DEFINE s == Admitted(r, a, at)
  <2>1. \A b \in Accounts : b # a => s.intervals[b] = {Closed(i, at) : i \in r.intervals[b]}
    BY <1>1, <1>3, AdmittedFacts
  <2>2. \A b \in Accounts : \A i \in r.intervals[b] : Closed(i, at).end # None
    BY <1>1, IntervalFacts, ClosedFacts
  <2> HIDE DEF s
  <2>3. OpenScopes(s) \subseteq {a}
    BY <2>1, <2>2 DEF OpenScopes
  <2> QED BY <2>3 DEF s
<1> QED BY <1>2, <1>3

-----------------------------------------------------------------------------
(* Whose interval is open: the steps.                                       *)

\* Registries with equal intervals have the same open scopes and starts.
LEMMA SameIntervals ==
    ASSUME NEW r, NEW s, s.intervals = r.intervals
    PROVE  OpenScopes(s) = OpenScopes(r) /\ BesideWorker(r, s)
  BY DEF OpenScopes, BesideWorker, Starts

\* A registry that was closed beside the worker.
LEMMA ClosedBeside ==
    ASSUME NEW r \in Registry, NEW at \in Time, OpenScopes(r) \subseteq {acct}
    PROVE  BesideWorker(r, CloseOpen(r, at))
  BY CloseScopes DEF BesideWorker

\* BesideWorker is symmetric and transitive.
LEMMA BesideChain ==
    ASSUME NEW r, NEW s, NEW t, BesideWorker(r, s), BesideWorker(r, t)
    PROVE  BesideWorker(s, t)
  BY DEF BesideWorker

\* A step that leaves the registries alone.
LEMMA ScopeQuiet ==
    ASSUME ScopeInv, UNCHANGED <<reg, mcopy, wcopy, acct>>,
           mpc' = mpc \/ (~MainHolds' /\ mpc' # "storage"),
           wpc' = wpc \/ (wpc # "off" /\ wpc' # "closing")
    PROVE  ScopeInv'
  BY DEF ScopeInv, MainHolds, OpenScopes, BesideWorker, Starts

\* A process that has ended.
LEMMA ScopeExit == Exit => ScopeInv'
  BY DEF Exit, ScopeInv, MainHolds

\* One step keeps it.
LEMMA ScopeStep == RegistryInv /\ ScopeInv /\ [Next]_vars => ScopeInv'
<1> SUFFICES ASSUME RegistryInv, ScopeInv, [Next]_vars PROVE ScopeInv'
  OBVIOUS
<1> USE RegistryAssumption
<1>a. Sound(reg) /\ reg \in Registry /\ now \in Time /\ StepInv
  BY DEF RegistryInv, DataInv, TypeOK, Sound
<1>1. CASE StartSteps
  <2>1. CASE ReserveRefused \/ BeginFails \/ AdmitRefused \/ ReserveFails \/ AdmitFails
    BY <2>1, ScopeExit DEF ReserveRefused, BeginFails, AdmitRefused, ReserveFails, AdmitFails
  <2>2. CASE Refused
    BY <2>2, ScopeExit, ScopeQuiet DEF Refused, Goto, MainHolds
  <2>3. CASE Launch \/ Start \/ Unreadable \/ Begin \/ Confirm \/ ConfirmFails
    <3>1. UNCHANGED <<reg, mcopy, wcopy, acct, wpc>> /\ ~MainHolds' /\ mpc' # "storage"
      BY <2>3 DEF Launch, Start, Unreadable, Begin, Confirm, ConfirmFails, Goto, MainHolds
    <3> QED BY <3>1, ScopeQuiet
  <2>4. CASE Reserve
    <3> DEFINE s == Allocate(Handover(reg, auth, stamp), auth)
    <3>1. /\ auth \in Accounts /\ CanHandover(reg, auth, stamp) /\ stamp \in Time /\ wpc = "off"
          /\ mcopy' = s /\ mpc' = "reserved" /\ UNCHANGED <<reg, wpc>>
      BY <1>a, <2>4 DEF Reserve, Goto, StepInv
    <3>2. OpenScopes(s) \subseteq OpenScopes(reg)
      BY <1>a, <3>1, ReserveScopes
    <3> HIDE DEF s
    <3>3. OpenScopes(mcopy)' \subseteq OpenScopes(reg)'
      BY <3>1, <3>2 DEF OpenScopes
    <3> QED BY <3>1, <3>3 DEF ScopeInv
  <2>5. CASE Admit
    <3> DEFINE s == Admitted(reg, acct, stamp)
    <3>1. /\ acct \in Accounts /\ stamp \in Time /\ wpc = "off"
          /\ mcopy' = s /\ mpc' = "admitted" /\ UNCHANGED <<acct, wpc>>
      BY <1>a, <2>5 DEF Admit, Goto, StepInv
    <3>2. OpenScopes(s) \subseteq {acct}
      BY <1>a, <3>1, AdmitScopes
    <3> HIDE DEF s
    <3>3. OpenScopes(mcopy)' \subseteq {acct'}
      BY <3>1, <3>2 DEF OpenScopes
    <3> QED BY <3>1, <3>3 DEF ScopeInv
  <2>6. CASE ReserveStore
    <3>1. wpc' = "off" /\ mpc' = "begin"
      BY <1>a, <2>6 DEF ReserveStore, Goto, StepInv
    <3> QED BY <3>1 DEF ScopeInv, MainHolds
  <2>7. CASE AdmitStore
    <3>1. wpc' = "off" /\ mpc' = "storage" /\ reg' = mcopy /\ acct' = acct /\ mpc = "admitted"
      BY <1>a, <2>7 DEF AdmitStore, Goto, Store, StepInv
    <3>2. OpenScopes(reg)' \subseteq {acct'}
      BY <3>1 DEF ScopeInv, OpenScopes
    <3> QED BY <3>1, <3>2 DEF ScopeInv, MainHolds
  <2> QED BY <1>1, <2>1, <2>2, <2>3, <2>4, <2>5, <2>6, <2>7 DEF StartSteps
<1>2. CASE LogoutSteps
  <2>1. CASE Probe
    <3>1. /\ wpc' = "off" /\ mpc' = "logout" /\ mcopy' = CloseOpen(reg, now)
      BY <1>a, <2>1 DEF Probe, Goto, StepInv
    <3>2. OpenScopes(CloseOpen(reg, now)) = {}
      BY <1>a, CloseScopes
    <3>3. OpenScopes(mcopy)' = {}
      BY <3>1, <3>2 DEF OpenScopes
    <3> QED BY <3>1, <3>3 DEF ScopeInv
  <2>2. CASE ProbeFails \/ IdleEnds
    BY <2>2, ScopeExit DEF ProbeFails, IdleEnds
  <2>3. CASE LogoutStore
    <3>1. Exit \/ (wpc' = "off" /\ mpc' = "idle")
      BY <1>a, <2>3 DEF LogoutStore, Goto, StepInv
    <3> QED BY <3>1, ScopeExit DEF ScopeInv, MainHolds
  <2> QED BY <1>2, <2>1, <2>2, <2>3 DEF LogoutSteps
<1>3. CASE RunSteps
  <2>1. CASE OpenStorage
    <3>1. /\ mpc = "storage" /\ acct \in Accounts /\ acct' = acct
          /\ mpc' \in {"storage", "run"} /\ wpc' \in {"off", "idle"}
          /\ reg' \in {reg, Initialized(reg, acct)}
      BY <1>a, <2>1 DEF OpenStorage, Goto, Store, StoreFails, StepInv
    <3>2. reg'.intervals = reg.intervals
      BY <1>a, <3>1, InitializeSound
    <3>3. OpenScopes(reg)' \subseteq {acct'}
      BY <3>1, <3>2 DEF ScopeInv, OpenScopes
    <3> QED BY <3>1, <3>3 DEF ScopeInv, MainHolds
  <2>2. CASE NoticeLoss
    BY <2>2, ScopeQuiet DEF NoticeLoss, Goto, MainHolds
  <2>3. CASE CaptureFails \/ WorkerReports \/ LossStore
    BY <2>3, ScopeExit DEF CaptureFails, WorkerReports, LossStore
  <2>4. CASE LabelStore
    <3>1. /\ mpc = "label" /\ mpc' = "run" /\ reg' \in {reg, mcopy}
          /\ UNCHANGED <<acct, wpc, wcopy>> /\ wpc # "off" /\ MainHolds
      BY <1>a, <2>4 DEF LabelStore, Goto, Store, StoreFails, StepInv, MainHolds
    <3>2. OpenScopes(reg)' \subseteq {acct'}
      BY <3>1 DEF ScopeInv, OpenScopes
    <3>3. BesideWorker(reg, mcopy) /\ (wpc = "closing" => BesideWorker(reg, wcopy))
      BY <3>1 DEF ScopeInv
    <3>4. wpc = "closing" => BesideWorker(reg', wcopy)
      BY <3>1, <3>3, BesideChain
    <3>5. wpc' = "closing" => OpenScopes(wcopy)' = {} /\ BesideWorker(reg, wcopy)'
      BY <3>1, <3>4 DEF ScopeInv, OpenScopes, BesideWorker, Starts
    <3> QED BY <3>1, <3>2, <3>5 DEF ScopeInv, MainHolds
  <2>5. CASE Loss
    <3> DEFINE s == CloseOpen(reg, now)
    <3>1. CASE Exit
      BY <3>1, ScopeExit
    <3>2. CASE ~Exit
      <4>1. mcopy' = s /\ mpc' = "closing" /\ UNCHANGED <<reg, acct, wpc, wcopy>>
        BY <2>5, <3>2 DEF Loss, Goto
      <4>2. OpenScopes(s) = {} /\ (wpc # "off" => BesideWorker(reg, s))
        BY <1>a, CloseScopes, ClosedBeside DEF ScopeInv
      <4> HIDE DEF s
      <4>3. OpenScopes(mcopy)' = {} /\ (wpc # "off" => BesideWorker(reg, mcopy)')
        BY <4>1, <4>2 DEF OpenScopes, BesideWorker, Starts
      <4>4. /\ wpc' = "closing" => OpenScopes(wcopy)' = {} /\ BesideWorker(reg, wcopy)'
            /\ wpc' # "off" => OpenScopes(reg)' \subseteq {acct'}
        BY <4>1 DEF ScopeInv, OpenScopes, BesideWorker, Starts
      <4> QED BY <4>1, <4>3, <4>4 DEF ScopeInv
    <3> QED BY <3>1, <3>2
  <2> QED BY <1>3, <2>1, <2>2, <2>3, <2>4, <2>5 DEF RunSteps
<1>4. CASE WorkerSteps
  <2>1. CASE WorkerNotices
    BY <2>1, ScopeQuiet DEF WorkerNotices
  <2>2. CASE WorkerLoss
    <3>1. CASE ~NotBefore(reg, now)
      BY <2>2, <3>1, ScopeQuiet DEF WorkerLoss
    <3>2. CASE NotBefore(reg, now)
      <4> DEFINE s == CloseOpen(reg, now)
      <4>1. /\ wcopy' = s /\ wpc' = "closing" /\ wpc = "loss"
            /\ UNCHANGED <<reg, mpc, mcopy, acct>>
        BY <2>2, <3>2 DEF WorkerLoss
      <4>2. OpenScopes(s) = {} /\ BesideWorker(reg, s)
        BY <1>a, <4>1, CloseScopes, ClosedBeside DEF ScopeInv
      <4> HIDE DEF s
      <4>3. OpenScopes(wcopy)' = {} /\ BesideWorker(reg, wcopy)'
        BY <4>1, <4>2 DEF OpenScopes, BesideWorker, Starts
      <4> QED BY <4>1, <4>3 DEF ScopeInv, MainHolds, OpenScopes, BesideWorker, Starts
    <3> QED BY <3>1, <3>2
  <2>3. CASE WorkerStore
    <3>1. /\ wpc = "closing" /\ wpc' = "reported" /\ reg' \in {reg, wcopy}
          /\ UNCHANGED <<mpc, mcopy, acct>> /\ mpc \in {"run", "label", "loss", "closing"}
      BY <1>a, <2>3 DEF WorkerStore, Store, StoreFails, StepInv
    <3>2. OpenScopes(reg)' \subseteq {acct'}
      BY <3>1 DEF ScopeInv, OpenScopes
    <3>3. BesideWorker(reg, wcopy) /\ (MainHolds => BesideWorker(reg, mcopy))
      BY <3>1 DEF ScopeInv
    <3>4. MainHolds => BesideWorker(reg', mcopy)
      BY <3>1, <3>3, BesideChain
    <3>5. MainHolds' => BesideWorker(reg, mcopy)'
      BY <3>1, <3>4 DEF MainHolds, BesideWorker, Starts
    <3>6. /\ mpc' \in {"admitted", "label"} => OpenScopes(mcopy)' \subseteq {acct'}
          /\ mpc' \in {"closing", "logout"} => OpenScopes(mcopy)' = {}
      BY <3>1 DEF ScopeInv, OpenScopes
    <3> QED BY <3>1, <3>2, <3>5, <3>6 DEF ScopeInv
  <2> QED BY <1>4, <2>1, <2>2, <2>3 DEF WorkerSteps
<1>5. CASE EnvSteps
  <2>1. CASE \/ \E to \in Accounts \cup {LoggedOut, Damaged} : Login(to)
             \/ Tick \/ SetBack \/ Signal
    <3>1. UNCHANGED <<reg, mcopy, wcopy, acct, mpc, wpc>>
      BY <2>1 DEF Login, Tick, SetBack, Signal, process
    <3> QED BY <3>1, ScopeQuiet
  <2>2. CASE Kill
    BY <2>2, ScopeExit DEF Kill
  <2>3. ASSUME NEW l \in Labels, Label(l) PROVE ScopeInv'
    <3> DEFINE s == [reg EXCEPT !.label[acct] = l]
    <3>1. /\ mpc = "run" /\ wpc # "off" /\ mcopy' = s /\ mpc' = "label"
          /\ UNCHANGED <<reg, acct, wpc, wcopy>>
      BY <1>a, <2>3 DEF Label, Goto, StepInv
    <3>2. s.intervals = reg.intervals
      BY <1>a DEF Registry
    <3> HIDE DEF s
    <3>3. OpenScopes(s) \subseteq {acct} /\ BesideWorker(reg, s)
      BY <3>1, <3>2, SameIntervals DEF ScopeInv
    <3>4. OpenScopes(mcopy)' \subseteq {acct'} /\ BesideWorker(reg, mcopy)'
      BY <3>1, <3>3 DEF OpenScopes, BesideWorker, Starts
    <3>5. /\ wpc' = "closing" => OpenScopes(wcopy)' = {} /\ BesideWorker(reg, wcopy)'
          /\ wpc' # "off" => OpenScopes(reg)' \subseteq {acct'}
      BY <3>1 DEF ScopeInv, OpenScopes, BesideWorker, Starts
    <3> QED BY <3>1, <3>4, <3>5 DEF ScopeInv
  <2> QED BY <1>5, <2>1, <2>2, <2>3 DEF EnvSteps
<1>6. CASE UNCHANGED vars
  BY <1>6, ScopeQuiet DEF vars, process
<1> QED BY <1>1, <1>2, <1>3, <1>4, <1>5, <1>6 DEF Next

\* Beside the worker only the running account's interval is open.
LEMMA ScopesAreKept == Spec => [](RegistryInv /\ ScopeInv)
<1>1. Init => ScopeInv
  BY DEF Init, NoProcess, ScopeInv, MainHolds
<1> QED BY <1>1, ScopeStep, RegistryIsSound, PTL DEF Spec

\* An interval is opened only for the confirmed account that auth.json names
\* at that moment.  A stale copy reopens at most the running account's, while
\* the inactive-history thread runs.
THEOREM OwnershipIsCurrent == Spec => OwnershipBegins
<1>1. ASSUME RegistryInv, ScopeInv, [Next]_vars, NEW a \in OpenScopes(reg') \ OpenScopes(reg)
      PROVE  a \in reg'.confirmed /\ (auth = a \/ (wpc # "off" /\ a = acct))
  <2>1. Stored /\ Sound(reg) /\ StepInv
    BY <1>1, DataStep DEF RegistryInv, DataInv
  <2>2. Sound(reg)'
    BY <1>1, DataStep DEF DataInv
  <2>3. a \in Accounts /\ a \in reg'.confirmed
    BY <2>2 DEF OpenScopes, Sound, History
  <2>4. reg' # reg
    OBVIOUS
  <2>5. CASE MainHolds /\ reg' = mcopy
    <3>1. mpc \in {"admitted", "label"} /\ a = acct
      BY <1>1, <2>5 DEF ScopeInv, MainHolds
    <3>2. mpc = "label" => wpc # "off"
      BY <2>1 DEF StepInv
    <3>3. mpc = "admitted" => auth = acct
      <4> SUFFICES ASSUME mpc = "admitted" PROVE auth = acct
        OBVIOUS
      <4>1. AdmitStore \/ AdmitFails
        BY <1>1, <2>1, <2>4 DEF StepInv, Next, StartSteps, LogoutSteps, RunSteps, WorkerSteps, EnvSteps,
           Launch, Start, Unreadable, Reserve, ReserveRefused, ReserveStore, ReserveFails, Begin,
           BeginFails, Confirm, ConfirmFails, Refused, Admit, AdmitRefused, Probe, ProbeFails,
           LogoutStore, IdleEnds, OpenStorage, NoticeLoss, CaptureFails, LabelStore, Loss, LossStore,
           WorkerReports, WorkerNotices, WorkerLoss, WorkerStore, Login, Tick, SetBack, Kill, Signal,
           Label, vars
      <4> QED BY <2>4, <4>1 DEF AdmitStore, AdmitFails, CanFinish
    <3> QED BY <2>3, <3>1, <3>2, <3>3
  <2>6. CASE wpc = "closing" /\ reg' = wcopy
    BY <1>1, <2>6 DEF ScopeInv
  <2>7. CASE acct \in Accounts /\ reg' = Initialized(reg, acct)
    <3>1. reg'.intervals = reg.intervals
      BY <2>1, <2>7, InitializeSound
    <3> QED BY <3>1 DEF OpenScopes
  <2> QED BY <2>1, <2>4, <2>5, <2>6, <2>7 DEF Stored
<1>2. RegistryInv /\ ScopeInv /\ [Next]_vars =>
        [\A a \in OpenScopes(reg') \ OpenScopes(reg) :
            a \in reg'.confirmed /\ (auth = a \/ (wpc # "off" /\ a = acct))]_vars
  BY <1>1
<1> QED BY <1>2, ScopesAreKept, PTL DEF Spec, OwnershipBegins

\* The end of an interval is final, but for the running account's own one
\* while both threads write: then its start stays.
THEOREM EndsAreFinal == Spec => EndsFinal
<1>1. ASSUME RegistryInv, ScopeInv, [Next]_vars, NEW a \in Accounts,
             NEW i \in Ended(reg, a) \ Ended(reg', a)
      PROVE  wpc # "off" /\ a = acct /\ i.start \in Starts(reg', a)
  <2>1. Stored /\ Sound(reg) /\ CopyInv
    BY <1>1, DataStep DEF RegistryInv, DataInv
  <2>2. reg'.intervals # reg.intervals
    BY DEF Ended
  <2>3. i.start \in Starts(reg, a)
    BY DEF Ended, Starts
  <2>4. ASSUME BesideWorker(reg, reg') PROVE a = acct /\ i.start \in Starts(reg', a)
    BY <2>3, <2>4 DEF BesideWorker, Ended
  <2>5. CASE MainHolds /\ reg' = mcopy
    <3>1. wpc # "off"
      BY <2>1, <2>5 DEF CopyInv, KeepsEnds
    <3> QED BY <1>1, <2>4, <2>5, <3>1 DEF ScopeInv
  <2>6. CASE wpc = "closing" /\ reg' = wcopy
    BY <1>1, <2>4, <2>6 DEF ScopeInv
  <2>7. CASE acct \in Accounts /\ reg' = Initialized(reg, acct)
    BY <2>1, <2>2, <2>7, InitializeSound
  <2> QED BY <2>1, <2>2, <2>5, <2>6, <2>7 DEF Stored
<1>2. RegistryInv /\ ScopeInv /\ [Next]_vars =>
        [\A a \in Accounts : \A i \in Ended(reg, a) \ Ended(reg', a) :
            wpc # "off" /\ a = acct /\ i.start \in Starts(reg', a)]_vars
  BY <1>1
<1> QED BY <1>2, ScopesAreKept, PTL DEF Spec, EndsFinal

=============================================================================
