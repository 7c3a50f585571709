---------------------------- MODULE AccountFence ----------------------------
(***************************************************************************)
(* The account boundary of codex-info-recorder.  The quota worker and the  *)
(* active-thread poller (Signallers) announce a change of the account in   *)
(* auth.json; the main loop and the inactive-history thread (Committers)   *)
(* write to a database only under a proof that they are still inside the   *)
(* account epoch in which their data was taken.  Both sides meet in        *)
(* AccountBoundaryState: two flags, a generation and a RwLock whose read   *)
(* side every durable mutation holds.                                      *)
(*                                                                         *)
(* One action per load, store and lock operation.  The RwLock is modelled  *)
(* without writer preference, which is all std::sync::RwLock promises.     *)
(***************************************************************************)
EXTENDS Naturals, FiniteSets

CONSTANTS Accounts, LoggedOut,   \* what auth.json can name
          Signallers, Committers,
          NoWriter,              \* nobody holds the write lock
          MaxLogins              \* bound: rewrites of auth.json

ASSUME FenceAssumption ==
    /\ LoggedOut \notin Accounts
    /\ NoWriter \notin Signallers
    /\ MaxLogins \in Nat

VARIABLES
  auth,        \* the account of auth.json
  logins,      \* how often it was rewritten
  pending, changed, generation,    \* AccountBoundaryState
  readers, writer,                 \* commit_fence
  spc, before,                     \* signaller: step, authority_before
  cpc, proof,                      \* committer: step, AccountEpochProof
  named,       \* history: auth.json named the proof's account under the fence
  late         \* history: committers whose fence was taken after `pending'

boundary   == <<pending, changed, generation>>
fence      == <<readers, writer>>
signallers == <<spc, before>>
committers == <<cpc, proof, named, late>>
vars       == <<auth, logins, boundary, fence, signallers, committers>>

-----------------------------------------------------------------------------

\* Mutant: only the flag set inside the write lock counts.
FlagOnly == changed

\* AccountBoundaryState::changed.  The two loads are one step: pending is
\* stored before changed and neither is ever cleared.
Changed == pending \/ changed

\* A login or logout in another process rewrites auth.json at any moment.
Login(a) ==
    /\ logins < MaxLogins
    /\ a # auth
    /\ auth' = a
    /\ logins' = logins + 1
    /\ named' = [c \in Committers |-> named[c] \/ a = proof[c].authority]
    /\ UNCHANGED <<boundary, fence, signallers, cpc, proof, late>>

-----------------------------------------------------------------------------
(* A signaller: a poll with an authority before and after it, then signal. *)

PollBegin(s) ==
    /\ spc[s] = "idle" /\ auth # LoggedOut
    /\ before' = [before EXCEPT ![s] = auth]
    /\ spc' = [spc EXCEPT ![s] = "poll"]
    /\ UNCHANGED <<auth, logins, boundary, fence, committers>>

\* Only a readable, different authority is a boundary.
PollEnd(s) ==
    /\ spc[s] = "poll"
    /\ spc' = [spc EXCEPT ![s] = IF auth \in {before[s], LoggedOut} THEN "idle" ELSE "announce"]
    /\ UNCHANGED <<auth, logins, boundary, fence, before, committers>>

StorePending(s) ==
    /\ spc[s] = "announce"
    /\ pending' = TRUE
    /\ spc' = [spc EXCEPT ![s] = "lock"]
    /\ UNCHANGED <<auth, logins, changed, generation, fence, before, committers>>

\* Mutant: the signaller does not wait for the readers.
LockWriteBarging(s) ==
    /\ spc[s] = "lock"
    /\ writer = NoWriter
    /\ writer' = s
    /\ spc' = [spc EXCEPT ![s] = "swap"]
    /\ UNCHANGED <<auth, logins, boundary, readers, before, committers>>

LockWrite(s) ==
    /\ spc[s] = "lock"
    /\ readers = {} /\ writer = NoWriter
    /\ writer' = s
    /\ spc' = [spc EXCEPT ![s] = "swap"]
    /\ UNCHANGED <<auth, logins, boundary, readers, before, committers>>

\* Mutant: store instead of swap, so that every signal is counted.
StoreChanged(s) ==
    /\ spc[s] = "swap"
    /\ changed' = TRUE
    /\ spc' = [spc EXCEPT ![s] = "count"]
    /\ UNCHANGED <<auth, logins, pending, generation, fence, before, committers>>

\* changed.swap(true): only the first signal advances the generation.
SwapChanged(s) ==
    /\ spc[s] = "swap"
    /\ changed' = TRUE
    /\ spc' = [spc EXCEPT ![s] = IF changed THEN "unlock" ELSE "count"]
    /\ UNCHANGED <<auth, logins, pending, generation, fence, before, committers>>

AddGeneration(s) ==
    /\ spc[s] = "count"
    /\ generation' = generation + 1
    /\ spc' = [spc EXCEPT ![s] = "unlock"]
    /\ UNCHANGED <<auth, logins, pending, changed, fence, before, committers>>

\* signal() returns; the poll ends with an error and the lane goes on.
UnlockWrite(s) ==
    /\ spc[s] = "unlock"
    /\ writer' = NoWriter
    /\ spc' = [spc EXCEPT ![s] = "idle"]
    /\ UNCHANGED <<auth, logins, boundary, readers, before, committers>>

-----------------------------------------------------------------------------
(* A committer: capture a proof for the cycle, then commit under it.       *)

Goto(c, step) == cpc' = [cpc EXCEPT ![c] = step]

\* AccountBoundaryChanged: the fence, if held, is dropped and the thread ends.
Refuse(c) ==
    /\ Goto(c, "exited")
    /\ readers' = readers \ {c}

\* AccountEpochProof::capture: the generation,
CaptureBegin(c) ==
    /\ cpc[c] = "idle"
    /\ proof' = [proof EXCEPT ![c].generation = generation]
    /\ Goto(c, "begun")
    /\ UNCHANGED <<auth, logins, boundary, fence, signallers, named, late>>

\* a first look at the flags,
CaptureCheck(c) ==
    /\ cpc[c] = "begun"
    /\ Goto(c, IF Changed THEN "exited" ELSE "open")
    /\ UNCHANGED <<auth, logins, boundary, fence, signallers, proof, named, late>>

\* the authority,
CaptureRead(c) ==
    /\ cpc[c] = "open"
    /\ IF auth = LoggedOut
         THEN Goto(c, "exited") /\ UNCHANGED proof
         ELSE Goto(c, "read") /\ proof' = [proof EXCEPT ![c].authority = auth]
    /\ UNCHANGED <<auth, logins, boundary, fence, signallers, named, late>>

InEpoch(c) == ~Changed /\ generation = proof[c].generation

\* and a second look at both.
CaptureEnd(c) ==
    /\ cpc[c] = "read"
    /\ Goto(c, IF InEpoch(c) THEN "ready" ELSE "exited")
    /\ UNCHANGED <<auth, logins, boundary, fence, signallers, proof, named, late>>

\* commit_fence.read(): no signaller holds the lock; one may be waiting.
LockRead(c) ==
    /\ cpc[c] = "ready" /\ writer = NoWriter
    /\ readers' = readers \cup {c}
    /\ named' = [named EXCEPT ![c] = (auth = proof[c].authority)]
    /\ late' = IF pending THEN late \cup {c} ELSE late \ {c}
    /\ Goto(c, "fenced")
    /\ UNCHANGED <<auth, logins, boundary, writer, signallers, proof>>

\* Mutant: a refused committer tries again instead of ending.
FenceCheckRetries(c) ==
    /\ cpc[c] = "fenced"
    /\ IF Changed THEN Goto(c, "ready") /\ readers' = readers \ {c}
                  ELSE Goto(c, "guard") /\ UNCHANGED readers
    /\ UNCHANGED <<auth, logins, boundary, writer, signallers, proof, named, late>>

\* AccountBoundaryState::commit_fence looks at the flags under the lock.
FenceCheck(c) ==
    /\ cpc[c] = "fenced"
    /\ IF Changed THEN Refuse(c) ELSE Goto(c, "guard") /\ UNCHANGED readers
    /\ UNCHANGED <<auth, logins, boundary, writer, signallers, proof, named, late>>

\* The guard, validate_current: the epoch,
GuardBegin(c) ==
    /\ cpc[c] = "guard"
    /\ IF InEpoch(c) THEN Goto(c, "compare") /\ UNCHANGED readers ELSE Refuse(c)
    /\ UNCHANGED <<auth, logins, boundary, writer, signallers, proof, named, late>>

\* Mutant: any readable authority will do.
GuardReadAny(c) ==
    /\ cpc[c] = "compare"
    /\ IF auth # LoggedOut THEN Goto(c, "compared") /\ UNCHANGED readers ELSE Refuse(c)
    /\ UNCHANGED <<auth, logins, boundary, writer, signallers, proof, named, late>>

\* the authority once more,
GuardRead(c) ==
    /\ cpc[c] = "compare"
    /\ IF auth = proof[c].authority
         THEN Goto(c, "compared") /\ UNCHANGED readers
         ELSE Refuse(c)
    /\ UNCHANGED <<auth, logins, boundary, writer, signallers, proof, named, late>>

\* and the epoch again.
GuardEnd(c) ==
    /\ cpc[c] = "compared"
    /\ IF InEpoch(c) THEN Goto(c, "commit") /\ UNCHANGED readers ELSE Refuse(c)
    /\ UNCHANGED <<auth, logins, boundary, writer, signallers, proof, named, late>>

\* The durable mutation ends and the fence is dropped; the cycle goes on to
\* its next commit under the same proof, or the next cycle begins.
Commit(c) ==
    /\ cpc[c] = "commit"
    /\ readers' = readers \ {c}
    /\ \E step \in {"ready", "idle"} : Goto(c, step)
    /\ UNCHANGED <<auth, logins, boundary, writer, signallers, proof, named, late>>

-----------------------------------------------------------------------------

Init ==
    /\ auth \in Accounts /\ logins = 0
    /\ pending = FALSE /\ changed = FALSE /\ generation = 0
    /\ readers = {} /\ writer = NoWriter
    /\ spc = [s \in Signallers |-> "idle"]
    /\ before = [s \in Signallers |-> LoggedOut]
    /\ cpc = [c \in Committers |-> "idle"]
    /\ proof = [c \in Committers |-> [authority |-> LoggedOut, generation |-> 0]]
    /\ named = [c \in Committers |-> FALSE]
    /\ late = {}

Signal(s) ==
    \/ StorePending(s) \/ LockWrite(s) \/ SwapChanged(s)
    \/ AddGeneration(s) \/ UnlockWrite(s)

Capture(c) == CaptureBegin(c) \/ CaptureCheck(c) \/ CaptureRead(c) \/ CaptureEnd(c)

GuardedCommit(c) ==
    \/ LockRead(c) \/ FenceCheck(c)
    \/ GuardBegin(c) \/ GuardRead(c) \/ GuardEnd(c)
    \/ Commit(c)

Next ==
    \/ \E a \in Accounts \cup {LoggedOut} : Login(a)
    \/ \E s \in Signallers : PollBegin(s) \/ PollEnd(s) \/ Signal(s)
    \/ \E c \in Committers : Capture(c) \/ GuardedCommit(c)

Spec == Init /\ [][Next]_vars

\* Every thread keeps running.  Taking the write lock is only weakly fair:
\* nothing lets a waiting signaller overtake readers that keep coming.
Fairness ==
    /\ \A s \in Signallers : WF_vars(Signal(s))
    /\ \A c \in Committers : WF_vars(Capture(c)) /\ WF_vars(GuardedCommit(c))

FairSpec == Spec /\ Fairness

-----------------------------------------------------------------------------

Authorities == Accounts \cup {LoggedOut}
Locked  == {"swap", "count", "unlock"}
Fenced  == {"fenced", "guard", "compare", "compared", "commit"}
Passed  == Fenced \ {"fenced"}

\* The variables keep their types.
TypeOK ==
    /\ auth \in Authorities /\ logins \in 0..MaxLogins
    /\ pending \in BOOLEAN /\ changed \in BOOLEAN /\ generation \in Nat
    /\ readers \subseteq Committers /\ writer \in Signallers \cup {NoWriter}
    /\ spc \in [Signallers -> {"idle", "poll", "announce", "lock"} \cup Locked]
    /\ before \in [Signallers -> Authorities]
    /\ cpc \in [Committers -> {"idle", "begun", "open", "read", "ready", "exited"} \cup Fenced]
    /\ proof \in [Committers -> [authority : Authorities, generation : Nat]]
    /\ named \in [Committers -> BOOLEAN]
    /\ late \subseteq Committers

\* AccountBoundaryState::signal: once it has returned, and even while it holds
\* the lock, no durable mutation of the old account is in progress or begins.
NoMutationAfterSignal ==
    \A c \in Committers : cpc[c] = "commit" => ~changed /\ writer = NoWriter

\* `pending': "prevent a later reader from overtaking this boundary even on an
\* implementation whose RwLock does not guarantee writer preference".
NoOvertaking == \A c \in late : cpc[c] # "commit"

\* AccountEpochProof::validate_current under the fence: data is committed only
\* for an account that auth.json named while the fence was held.
CommitsForNamedAccount ==
    \A c \in Committers : cpc[c] = "commit" => named[c]

\* changed.swap: however many lanes signal, the process leaves its epoch once.
GenerationAdvancesOnce ==
    /\ generation <= 1
    /\ writer = NoWriter => (changed <=> generation = 1)

\* A signal is never starved or deadlocked by committers, because a refused
\* committer drops the fence and ends instead of trying again.
SignalCompletes == pending ~> changed /\ writer = NoWriter

-----------------------------------------------------------------------------
(* The inductive strengthening of the safety properties.                    *)

LockInv ==
    /\ readers = {c \in Committers : cpc[c] \in Fenced}
    /\ writer # NoWriter => readers = {}
    /\ \A s \in Signallers : spc[s] \in Locked <=> writer = s

FlagInv ==
    /\ changed => pending
    /\ \A s \in Signallers : spc[s] \in {"lock"} \cup Locked => pending
    /\ \A c \in Committers : cpc[c] \in Passed => ~changed
    /\ \A c \in late : cpc[c] \notin Passed /\ pending

CountInv ==
    /\ \A s \in Signallers : spc[s] = "count" => changed /\ generation = 0
    /\ \A s \in Signallers : spc[s] = "unlock" => changed
    /\ ~changed => generation = 0
    /\ changed => generation = 1 \/ \E s \in Signallers : spc[s] = "count"

ProofInv ==
    \A c \in Committers :
        /\ cpc[c] \in Fenced /\ auth = proof[c].authority => named[c]
        /\ cpc[c] \in {"compared", "commit"} => named[c]

FenceInv == TypeOK /\ LockInv /\ FlagInv /\ CountInv /\ ProofInv

=============================================================================
