--------------------------- MODULE AccountRegistry ---------------------------
(***************************************************************************)
(* The account registry of a profile (codex-info-account-locator) and the  *)
(* recorder process that writes it.  The registry gives every account a    *)
(* storage epoch, a confirmation and the half-open intervals [start, end)  *)
(* in which this product saw it own the profile.                           *)
(*                                                                         *)
(* Every change of the registry is a load, a computation and an atomic     *)
(* replacement of the file; load and replacement are separate steps here,  *)
(* because the main thread and the inactive-history thread both do it.     *)
(* auth.json is rewritten by another program at any moment, the clock may  *)
(* be set back, a replacement may fail before or after the rename, and the *)
(* process may be killed at any step.  A second recorder cannot start: it  *)
(* does not get the kernel lock of the profile lease.                      *)
(*                                                                         *)
(* The intervals of an account are a set: the code keeps them sorted and   *)
(* only ever appends, so its last interval is the open one if one is open. *)
(* A registry file that does not exist yet is the empty registry.          *)
(***************************************************************************)
EXTENDS Naturals, FiniteSets

CONSTANTS
  Accounts,       \* subjects auth.json can name
  LoggedOut,      \* auth.json is missing
  Damaged,        \* auth.json is there and cannot be read
  Labels,         \* display names app-server returns for an account
  Legacy,         \* accounts initialised before intervals were recorded
  Activated,      \* those of them with a stored activation timestamp
  MaxTime,        \* bound: the last second
  MaxLogins, MaxSetBacks, MaxFaults, MaxKills   \* bounds on the environment

None == 0         \* a null timestamp, no epoch, no account, no label

ASSUME RegistryAssumption ==
    /\ None \notin Accounts /\ LoggedOut \notin Accounts /\ Damaged \notin Accounts
    /\ LoggedOut # Damaged
    /\ None \notin Labels
    /\ Activated \subseteq Legacy /\ Legacy \subseteq Accounts
    /\ IsFiniteSet(Accounts)
    /\ MaxTime \in Nat \ {0}
    /\ MaxLogins \in Nat /\ MaxSetBacks \in Nat /\ MaxFaults \in Nat /\ MaxKills \in Nat

VARIABLES
  auth,      \* what auth.json names
  now,       \* the wall clock, in seconds
  used,      \* how often the environment used each of its bounds
  reg,       \* the registry file
  mpc,       \* the main thread's step
  acct,      \* its partition's account, fixed by the reservation
  proof,     \* the account of startup_epoch
  stamp,     \* observed_at or began_at of the operation in progress
  mcopy,     \* the registry it is about to write (Empty when there is none)
  signalled, \* account_boundary_changed
  wpc,       \* the inactive-history thread's step
  wcopy      \* the registry it is about to write

env     == <<auth, now, used>>
process == <<mpc, acct, proof, stamp, mcopy, signalled, wpc, wcopy>>
vars    == <<env, reg, process>>

Time == Nat \ {0}
Interval == [start : Nat, end : Nat]
Registry == [epoch       : [Accounts -> Nat],           \* None: not allocated
             next        : Nat \ {0},
             initialized : SUBSET Accounts,
             confirmed   : SUBSET Accounts,
             activation  : [Accounts -> Nat],
             label       : [Accounts -> Labels \cup {None}],
             intervals   : [Accounts -> SUBSET Interval]]

-----------------------------------------------------------------------------
(* Reading a registry. *)

Recorded(r)   == UNION {r.intervals[a] : a \in Accounts}
Boundaries(r) == {i.start : i \in Recorded(r)} \cup {i.end : i \in Recorded(r)}

\* open_lifecycle_scope
OpenScopes(r) == {a \in Accounts : \E i \in r.intervals[a] : i.end = None}

Positive(i) == i.start # None /\ i.start # i.end

Apart(i, j) == \/ i.end # None /\ i.end <= j.start
               \/ j.end # None /\ j.end <= i.start

\* validate_lifecycle_timeline: one open interval, known positive intervals
\* do not overlap.  Empty intervals and unknown starts claim nothing.
ValidTimeline(r) ==
    \A a, b \in Accounts : \A i \in r.intervals[a], j \in r.intervals[b] :
        (a # b \/ i # j) =>
            /\ ~(i.end = None /\ j.end = None)
            /\ (Positive(i) /\ Positive(j)) => Apart(i, j)

ValidEpochs(r) ==
    \A a \in Accounts : r.epoch[a] # None =>
        /\ r.epoch[a] < r.next
        /\ \A b \in Accounts \ {a} : r.epoch[b] # r.epoch[a]

\* validate_metadata
Valid(r) ==
    /\ ValidEpochs(r)
    /\ \A i \in Recorded(r) : (i.start # None /\ i.end # None) => i.start <= i.end
    /\ ValidTimeline(r)

-----------------------------------------------------------------------------
(* The operations, as functions from the loaded registry to the new one. *)

\* Mutant: the clock is trusted.
AnyTime(r, at) == TRUE

\* Nothing recorded lies after `at'; otherwise an operation is refused.
NotBefore(r, at) == \A t \in Boundaries(r) : t <= at

\* Mutant: intervals that already ended get the new end as well.
CloseAll(r, at) ==
    [r EXCEPT !.intervals = [a \in Accounts |->
        {[i EXCEPT !.end = at] : i \in r.intervals[a]}]]

\* close_open_lifecycle_interval
CloseOpen(r, at) ==
    [r EXCEPT !.intervals = [a \in Accounts |->
        {IF i.end = None THEN [i EXCEPT !.end = at] ELSE i : i \in r.intervals[a]}]]

\* reserve_partition_at: the open interval of another account ends.
Handover(r, a, at) == IF OpenScopes(r) \subseteq {a} THEN r ELSE CloseOpen(r, at)

CanHandover(r, a, at) == OpenScopes(r) \subseteq {a} \/ NotBefore(r, at)

\* Mutant: a retry allocates again.
AlwaysAllocate(r, a) == [r EXCEPT !.epoch[a] = r.next, !.next = @ + 1]

\* reserve_partition_at: an unknown account gets the next epoch, once.
Allocate(r, a) ==
    IF r.epoch[a] # None THEN r
    ELSE [r EXCEPT !.epoch[a] = r.next, !.next = @ + 1]

\* admit_partition: the account was confirmed before and its interval with a
\* known start is still open.
SameOpen(r, a) ==
    /\ a \in r.confirmed
    /\ \E i \in r.intervals[a] : i.start # None /\ i.end = None

\* An account initialised before intervals existed keeps its old activation
\* as the start of an interval that ends now.
LegacyInterval(r, a, at) ==
    IF a \in r.initialized /\ r.intervals[a] = {}
    THEN {[start |-> r.activation[a], end |-> at]} ELSE {}

\* admit_partition, after its checks: confirmation and ownership together.
Admitted(r, a, at) ==
    IF SameOpen(r, a) THEN r
    ELSE LET closed == CloseOpen(r, at)
         IN [closed EXCEPT
               !.confirmed = @ \cup {a},
               !.intervals[a] = @ \cup LegacyInterval(r, a, at) \cup {[start |-> at, end |-> None]},
               !.activation[a] = IF @ = None THEN at ELSE @]

\* mark_partition_initialized: a confirmed account whose database exists.
Initialized(r, a) ==
    IF a \in r.confirmed THEN [r EXCEPT !.initialized = @ \cup {a}] ELSE r

-----------------------------------------------------------------------------

Empty == [epoch |-> [a \in Accounts |-> None], next |-> 1,
          initialized |-> {}, confirmed |-> {},
          activation |-> [a \in Accounts |-> None],
          label |-> [a \in Accounts |-> None],
          intervals |-> [a \in Accounts |-> {}]]

\* Registries older versions left: initialised accounts with an epoch each,
\* no intervals, no confirmation, and for some an activation timestamp.
LegacyRegistries ==
    {r \in {[Empty EXCEPT !.epoch = e, !.next = Cardinality(Legacy) + 1, !.initialized = Legacy,
                          !.activation = [a \in Accounts |-> IF a \in Activated THEN 1 ELSE None]] :
               e \in [Accounts -> 0..Cardinality(Legacy)]} :
        ValidEpochs(r) /\ \A a \in Accounts : r.epoch[a] # None <=> a \in Legacy}

\* The memory of a process that does not run.
NoProcess ==
    /\ mpc = "down" /\ acct = None /\ proof = None /\ stamp = None
    /\ mcopy = Empty /\ signalled = FALSE /\ wpc = "off" /\ wcopy = Empty

Init ==
    /\ auth \in Accounts \cup {LoggedOut}
    /\ now = 1
    /\ used = [logins |-> 0, setbacks |-> 0, faults |-> 0, kills |-> 0]
    /\ reg \in LegacyRegistries
    /\ NoProcess

Exit ==
    /\ mpc' = "down" /\ acct' = None /\ proof' = None /\ stamp' = None
    /\ mcopy' = Empty /\ signalled' = FALSE /\ wpc' = "off" /\ wcopy' = Empty

-----------------------------------------------------------------------------
(* The environment. *)

Login(to) ==
    /\ used.logins < MaxLogins /\ to # auth
    /\ auth' = to
    /\ used' = [used EXCEPT !.logins = @ + 1]
    /\ UNCHANGED <<now, reg, process>>

Tick ==
    /\ now < MaxTime
    /\ now' = now + 1
    /\ UNCHANGED <<auth, used, reg, process>>

SetBack ==
    /\ used.setbacks < MaxSetBacks /\ now > 1
    /\ now' = now - 1
    /\ used' = [used EXCEPT !.setbacks = @ + 1]
    /\ UNCHANGED <<auth, reg, process>>

\* SIGKILL or a power loss: the file keeps whatever was renamed last.
Kill ==
    /\ used.kills < MaxKills /\ mpc # "down"
    /\ used' = [used EXCEPT !.kills = @ + 1]
    /\ Exit
    /\ UNCHANGED <<auth, now, reg>>

Fault ==
    /\ used.faults < MaxFaults
    /\ used' = [used EXCEPT !.faults = @ + 1]
    /\ UNCHANGED <<auth, now>>

\* write_metadata succeeds: validated, written, renamed, synchronised.
Store(r) == reg' = r /\ UNCHANGED env

\* write_metadata fails, before the rename or after it.
StoreFails(r) == reg' \in {reg, r} /\ Fault

-----------------------------------------------------------------------------
(* Start of the recorder: main up to admit_partition. *)

Goto(step) == mpc' = step

Launch ==
    /\ mpc = "down"
    /\ Goto("start")
    /\ UNCHANGED <<env, reg, acct, proof, stamp, mcopy, signalled, wpc, wcopy>>

\* AccountEpochProof::capture, then the clock for the reservation.
Start ==
    /\ mpc = "start"
    /\ IF auth \in Accounts THEN Goto("reserve") /\ stamp' = now
                            ELSE Goto("unreadable") /\ stamp' = stamp
    /\ UNCHANGED <<env, reg, acct, proof, mcopy, signalled, wpc, wcopy>>

\* Missing means a logout to confirm, anything else ends ownership.
Unreadable ==
    /\ mpc = "unreadable"
    /\ Goto(IF auth = LoggedOut THEN "probe" ELSE "loss")
    /\ UNCHANGED <<env, reg, acct, proof, stamp, mcopy, signalled, wpc, wcopy>>

\* reserve_partition_at up to its second look at auth.json.
Reserve ==
    /\ mpc = "reserve"
    /\ auth \in Accounts /\ CanHandover(reg, auth, stamp)
    /\ acct' = auth
    /\ mcopy' = Allocate(Handover(reg, auth, stamp), auth)
    /\ Goto("reserved")
    /\ UNCHANGED <<env, reg, proof, stamp, signalled, wpc, wcopy>>

ReserveRefused ==
    /\ mpc = "reserve"
    /\ ~(auth \in Accounts /\ CanHandover(reg, auth, stamp))
    /\ Exit
    /\ UNCHANGED <<env, reg>>

ReserveStore ==
    /\ mpc = "reserved" /\ auth = acct /\ Valid(mcopy)
    /\ Store(mcopy)
    /\ Goto("begin") /\ mcopy' = Empty /\ stamp' = None
    /\ UNCHANGED <<acct, proof, signalled, wpc, wcopy>>

ReserveFails ==
    /\ mpc = "reserved"
    /\ Exit
    /\ LET stored == auth = acct /\ Valid(mcopy)
       IN (~stored /\ UNCHANGED <<env, reg>>) \/ (stored /\ StoreFails(mcopy))

\* The group begins: its time, its epoch, whether a confirmation is needed.
Begin ==
    /\ mpc = "begin" /\ auth \in Accounts
    /\ stamp' = now /\ proof' = auth
    /\ Goto(IF acct \in reg.confirmed THEN "admit" ELSE "confirm")
    /\ UNCHANGED <<env, reg, acct, mcopy, signalled, wpc, wcopy>>

BeginFails ==
    /\ mpc = "begin" /\ auth \notin Accounts
    /\ Exit
    /\ UNCHANGED <<env, reg>>

\* confirm_codex_account, and the look at the epoch after a failure.
Confirm ==
    /\ mpc = "confirm" /\ auth = proof
    /\ Goto("admit")
    /\ UNCHANGED <<env, reg, acct, proof, stamp, mcopy, signalled, wpc, wcopy>>

ConfirmFails ==
    /\ mpc = "confirm"
    /\ Goto("refused")
    /\ (auth # proof /\ UNCHANGED env) \/ Fault
    /\ UNCHANGED <<reg, acct, proof, stamp, mcopy, signalled, wpc, wcopy>>

Refused ==
    /\ mpc = "refused"
    /\ IF auth # proof
       THEN Goto("loss") /\ UNCHANGED <<acct, proof, stamp, mcopy, signalled, wpc, wcopy>>
       ELSE Exit
    /\ UNCHANGED <<env, reg>>

\* admit_partition up to its second look at auth.json.
Admit ==
    /\ mpc = "admit" /\ auth = proof /\ auth = acct /\ NotBefore(reg, stamp)
    /\ mcopy' = Admitted(reg, acct, stamp)
    /\ Goto("admitted")
    /\ UNCHANGED <<env, reg, acct, proof, stamp, signalled, wpc, wcopy>>

AdmitRefused ==
    /\ mpc = "admit" /\ ~(auth = proof /\ auth = acct /\ NotBefore(reg, stamp))
    /\ Exit
    /\ UNCHANGED <<env, reg>>

\* Mutant: auth.json is not read again before the write.
CanFinishBlind == stamp <= now /\ Valid(mcopy)

\* finish_group, validate_metadata, write_metadata.
CanFinish == auth = acct /\ stamp <= now /\ Valid(mcopy)

AdmitStore ==
    /\ mpc = "admitted" /\ CanFinish
    /\ Store(mcopy)
    /\ Goto("storage") /\ mcopy' = Empty /\ stamp' = None
    /\ UNCHANGED <<acct, proof, signalled, wpc, wcopy>>

AdmitFails ==
    /\ mpc = "admitted"
    /\ Exit
    /\ (~CanFinish /\ UNCHANGED <<env, reg>>) \/ (CanFinish /\ StoreFails(mcopy))

-----------------------------------------------------------------------------
(* The running recorder. *)

\* recorder_epoch_matches fails: auth.json names somebody else, or a poll of
\* this process saw that it did.
Mismatch == signalled \/ auth # acct

\* The quota and thread pollers compare auth.json before and after a call.
Signal ==
    /\ mpc \in {"storage", "run", "label"} /\ ~signalled
    /\ auth \in Accounts \ {acct}
    /\ signalled' = TRUE
    /\ UNCHANGED <<env, reg, mpc, acct, proof, stamp, mcopy, wpc, wcopy>>

\* Recorder::open_partitioned_startup, reconciliation and
\* mark_partition_initialized; a failure is retried.
OpenStorage ==
    /\ mpc = "storage" /\ ~Mismatch
    /\ \/ /\ Store(Initialized(reg, acct))
          /\ Goto("run") /\ wpc' = "idle"
       \/ /\ StoreFails(Initialized(reg, acct))
          /\ UNCHANGED <<mpc, wpc>>
    /\ UNCHANGED <<acct, proof, stamp, mcopy, signalled, wcopy>>

\* A guard of the main thread sees the loss.
NoticeLoss ==
    /\ mpc \in {"storage", "run"} /\ Mismatch
    /\ Goto("loss")
    /\ UNCHANGED <<env, reg, acct, proof, stamp, mcopy, signalled, wpc, wcopy>>

\* The cycle's capture fails first: the process ends without closing.
CaptureFails ==
    /\ mpc = "run" /\ (signalled \/ auth \notin Accounts)
    /\ Exit
    /\ UNCHANGED <<env, reg>>

\* set_registry_login_id under run_if_current: the loaded registry ...
Label(l) ==
    /\ mpc = "run" /\ ~Mismatch /\ reg.label[acct] # l
    /\ mcopy' = [reg EXCEPT !.label[acct] = l]
    /\ Goto("label")
    /\ UNCHANGED <<env, reg, acct, proof, stamp, signalled, wpc, wcopy>>

\* ... is written back.  A failure is only logged.
LabelStore ==
    /\ mpc = "label"
    /\ Store(mcopy) \/ StoreFails(mcopy)
    /\ Goto("run") /\ mcopy' = Empty
    /\ UNCHANGED <<acct, proof, stamp, signalled, wpc, wcopy>>

\* close_partition_ownership_at, and the process ends whatever it returned.
Loss ==
    /\ mpc = "loss"
    /\ IF NotBefore(reg, now)
       THEN /\ mcopy' = CloseOpen(reg, now)
            /\ Goto("closing")
            /\ UNCHANGED <<acct, proof, stamp, signalled, wpc, wcopy>>
       ELSE Exit
    /\ UNCHANGED <<env, reg>>

LossStore ==
    /\ mpc = "closing"
    /\ Store(mcopy) \/ StoreFails(mcopy)
    /\ Exit

\* The same in the inactive-history thread, which reports and goes on.
WorkerNotices ==
    /\ wpc = "idle" /\ Mismatch
    /\ wpc' = "loss"
    /\ UNCHANGED <<env, reg, mpc, acct, proof, stamp, mcopy, signalled, wcopy>>

WorkerLoss ==
    /\ wpc = "loss"
    /\ IF NotBefore(reg, now)
       THEN wcopy' = CloseOpen(reg, now) /\ wpc' = "closing"
       ELSE wcopy' = wcopy /\ wpc' = "reported"
    /\ UNCHANGED <<env, reg, mpc, acct, proof, stamp, mcopy, signalled>>

WorkerStore ==
    /\ wpc = "closing"
    /\ Store(wcopy) \/ StoreFails(wcopy)
    /\ wpc' = "reported" /\ wcopy' = Empty
    /\ UNCHANGED <<mpc, acct, proof, stamp, mcopy, signalled>>

\* Mutant: the main thread drops the worker's error.
IgnoreReport == FALSE /\ UNCHANGED vars

\* try_result delivers AccountBoundaryChanged to the main thread.
WorkerReports ==
    /\ wpc = "reported" /\ mpc = "run"
    /\ Exit
    /\ UNCHANGED <<env, reg>>

-----------------------------------------------------------------------------
(* run_without_account. *)

\* Mutant: a confirmed logout only changes the published state.
ProbeOnly ==
    /\ mpc = "probe" /\ auth = LoggedOut /\ NotBefore(reg, now)
    /\ mcopy' = reg
    /\ Goto("logout")
    /\ UNCHANGED <<env, reg, acct, proof, stamp, signalled, wpc, wcopy>>

\* Both account/read calls say that a login is required, then
\* close_partition_ownership_at; its failure ends the process.
Probe ==
    /\ mpc = "probe" /\ auth = LoggedOut /\ NotBefore(reg, now)
    /\ mcopy' = CloseOpen(reg, now)
    /\ Goto("logout")
    /\ UNCHANGED <<env, reg, acct, proof, stamp, signalled, wpc, wcopy>>

ProbeFails ==
    /\ mpc = "probe"
    /\ Exit
    /\ (~(auth = LoggedOut /\ NotBefore(reg, now)) /\ UNCHANGED env) \/ Fault
    /\ UNCHANGED reg

LogoutStore ==
    /\ mpc = "logout"
    /\ \/ /\ Store(mcopy)
          /\ Goto("idle") /\ mcopy' = Empty
          /\ UNCHANGED <<acct, proof, stamp, signalled, wpc, wcopy>>
       \/ StoreFails(mcopy) /\ Exit

\* The heartbeat sees that auth.json is back.
IdleEnds ==
    /\ mpc = "idle" /\ auth # LoggedOut
    /\ Exit
    /\ UNCHANGED <<env, reg>>

-----------------------------------------------------------------------------

StartSteps == Launch \/ Start \/ Unreadable \/ Reserve \/ ReserveRefused \/ ReserveStore
              \/ ReserveFails \/ Begin \/ BeginFails \/ Confirm \/ ConfirmFails \/ Refused
              \/ Admit \/ AdmitRefused \/ AdmitStore \/ AdmitFails
LogoutSteps == Probe \/ ProbeFails \/ LogoutStore \/ IdleEnds
RunSteps == OpenStorage \/ NoticeLoss \/ CaptureFails \/ LabelStore \/ Loss \/ LossStore
            \/ WorkerReports
WorkerSteps == WorkerNotices \/ WorkerLoss \/ WorkerStore
EnvSteps == (\E to \in Accounts \cup {LoggedOut, Damaged} : Login(to))
            \/ Tick \/ SetBack \/ Kill \/ Signal \/ (\E l \in Labels : Label(l))

Next == StartSteps \/ LogoutSteps \/ RunSteps \/ WorkerSteps \/ EnvSteps

Spec == Init /\ [][Next]_vars

\* The service manager restarts the recorder, both threads run, time passes.
Fairness ==
    /\ WF_vars(StartSteps) /\ WF_vars(LogoutSteps) /\ WF_vars(RunSteps)
    /\ WF_vars(WorkerSteps) /\ WF_vars(Tick)

FairSpec == Spec /\ Fairness

-----------------------------------------------------------------------------
(* Properties. *)

MainSteps == {"down", "start", "unreadable", "reserve", "reserved", "begin", "confirm", "refused",
              "admit", "admitted", "storage", "run", "label", "loss", "closing",
              "probe", "logout", "idle"}

\* The steps in which mcopy is a registry about to be stored.
MainHolds == mpc \in {"reserved", "admitted", "label", "closing", "logout"}

\* The shape of the state.
TypeOK ==
    /\ auth \in Accounts \cup {LoggedOut, Damaged}
    /\ now \in Time
    /\ used \in [logins : Nat, setbacks : Nat, faults : Nat, kills : Nat]
    /\ reg \in Registry /\ mcopy \in Registry /\ wcopy \in Registry
    /\ mpc \in MainSteps /\ wpc \in {"off", "idle", "loss", "closing", "reported"}
    /\ acct \in Accounts \cup {None} /\ proof \in Accounts \cup {None}
    /\ stamp \in Nat
    /\ signalled \in BOOLEAN

\* The checks an operation makes on the loaded registry are enough: what it
\* computes is never refused by the validation before the write, so a
\* refusal cannot keep an account out for good.  Written registries are
\* valid too: one open interval, no second owned twice, no epoch shared.
CandidateValid ==
    /\ Valid(reg)
    /\ MainHolds => Valid(mcopy)
    /\ wpc = "closing" => Valid(wcopy)

\* Allocation and initialisation create no ownership: an account with an
\* interval was confirmed, and so was one initialised by this program,
\* whichever stale copies the two threads write back.
OwnershipConfirmed ==
    \A a \in Accounts :
        /\ reg.intervals[a] # {} => a \in reg.confirmed
        /\ a \in reg.initialized \ Legacy => a \in reg.confirmed

\* An account keeps its storage epoch, and thereby its database, through
\* failed starts, switches and kills; its confirmation is permanent.
EpochsPermanent ==
    [][\A a \in Accounts :
          /\ reg.epoch[a] # None => reg'.epoch[a] = reg.epoch[a]
          /\ a \in reg.confirmed => a \in reg'.confirmed]_vars

\* An interval is opened only for the account that auth.json names at the last
\* look (finish_group, one step with the write here), and confirmed with it:
\* an account that leaves during its reservation or admission gets none, even
\* if it was confirmed long ago.  The one exception is the running account, whose
\* interval LabelStore reopens when it writes back a registry loaded before
\* WorkerStore closed it.
OwnershipBegins ==
    [][\A a \in OpenScopes(reg') \ OpenScopes(reg) :
          a \in reg'.confirmed /\ (auth = a \/ (wpc # "off" /\ a = acct))]_vars

Ended(r, a) == {i \in r.intervals[a] : i.end # None}
Starts(r, a) == {i.start : i \in r.intervals[a]}

\* A recorded end is final.  Only what the two threads write over each other
\* while the inactive-history thread runs can be lost, and that is the end
\* of the running account's own interval: its start stays, and no other
\* account's history is touched by a stale copy.
EndsFinal ==
    [][\A a \in Accounts : \A i \in Ended(reg, a) \ Ended(reg', a) :
          wpc # "off" /\ a = acct /\ i.start \in Starts(reg', a)]_vars

\* The admission of an account that older versions initialised is not refused
\* by the interval it is given for its past.  It is, when another account was
\* admitted first and the old activation time lies before that admission.
LegacyAdmissible == (mpc = "admitted" /\ acct \in Legacy) => Valid(mcopy)

\* Once auth.json stays with an account, the recorder ends up collecting for
\* it inside an open interval, after kills, failed writes, a clock that was
\* set back and the overlapping writes of the two threads.
EventuallyOwned ==
    \A a \in Accounts :
        <>[](auth = a) => <>[](mpc \in {"run", "label"} /\ acct = a /\ a \in OpenScopes(reg))

\* Once auth.json stays away, ownership ends for good.
EventuallyReleased == <>[](auth = LoggedOut) => <>[](OpenScopes(reg) = {})

-----------------------------------------------------------------------------
(* The inductive strengthening behind the safety properties.                *)

\* Where the main thread is: past the reservation it has an account, an
\* operation in progress has its time, and the inactive-history thread lives
\* exactly as long as the recorder it was started by.
StepInv ==
    /\ mpc \in {"reserved", "begin", "confirm", "refused", "admit", "admitted",
               "storage", "run", "label"} => acct \in Accounts
    /\ mpc \in {"reserve", "reserved", "confirm", "refused", "admit", "admitted"} => stamp \in Time
    /\ wpc # "off" => mpc \in {"run", "label", "loss", "closing"}
    /\ mpc \in {"run", "label"} => wpc # "off"

\* A registry no operation can spoil: ownership and confirmation come
\* together, and only an older version leaves an activation without them.
History(r) ==
    \A a \in Accounts :
        /\ r.intervals[a] # {} <=> a \in r.confirmed
        /\ a \in r.initialized \ Legacy => a \in r.confirmed
        /\ r.intervals[a] = {} /\ a \notin Activated => r.activation[a] = None

Sound(r) == r \in Registry /\ History(r) /\ Valid(r)

\* The file and the copies about to replace it are sound.  The admission of
\* an account with an old activation time alone is left to the validation.
DataInv ==
    /\ Sound(reg)
    /\ mcopy \in Registry /\ wcopy \in Registry
    /\ MainHolds => History(mcopy)
    /\ MainHolds /\ (mpc # "admitted" \/ Activated = {}) => Valid(mcopy)
    /\ wpc = "closing" => Sound(wcopy)

\* What the store of copy s in place of r may not change, and what it keeps.
Keeps(r, s) ==
    /\ \A a \in Accounts : r.epoch[a] # None => s.epoch[a] = r.epoch[a]
    /\ r.confirmed \subseteq s.confirmed
SameOwners(r, s) == s.epoch = r.epoch /\ s.confirmed = r.confirmed
KeepsEnds(r, s) == \A a \in Accounts : Ended(r, a) \subseteq Ended(s, a)

\* A copy stays a successor of the file it was computed from, although the
\* other thread may replace the file in the meantime: beside that thread no
\* copy allocates or confirms, and without it the file stands still.
CopyInv ==
    /\ MainHolds => Keeps(reg, mcopy)
    /\ mpc \in {"label", "closing", "logout"} => SameOwners(reg, mcopy)
    /\ wpc = "closing" => SameOwners(reg, wcopy)
    /\ MainHolds /\ wpc = "off" => KeepsEnds(reg, mcopy)

\* Beside the inactive-history thread only the running account's interval is
\* open, so the copies of both threads differ from the file, whichever of
\* them was stored last, in the ends of that account at most.
BesideWorker(r, s) ==
    /\ \A a \in Accounts \ {acct} : s.intervals[a] = r.intervals[a]
    /\ \A a \in Accounts : Starts(s, a) = Starts(r, a)

ScopeInv ==
    /\ mpc = "reserved" => OpenScopes(mcopy) \subseteq OpenScopes(reg)
    /\ mpc \in {"admitted", "label"} => OpenScopes(mcopy) \subseteq {acct}
    /\ mpc \in {"closing", "logout"} => OpenScopes(mcopy) = {}
    /\ wpc = "closing" => OpenScopes(wcopy) = {} /\ BesideWorker(reg, wcopy)
    /\ mpc = "storage" \/ wpc # "off" => OpenScopes(reg) \subseteq {acct}
    /\ MainHolds /\ wpc # "off" => BesideWorker(reg, mcopy)

\* The registry is sound in every reachable state.
RegistryInv == TypeOK /\ StepInv /\ DataInv /\ CopyInv

=============================================================================
