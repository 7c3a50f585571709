------------------------- MODULE AccountFenceProofs -------------------------
(***************************************************************************)
(* Proofs about AccountFence for any number of signallers, committers,     *)
(* accounts and logins.                                                    *)
(*                                                                         *)
(* The argument: a committer that passed the check under the read lock saw *)
(* neither flag, and `changed' is only set under the write lock, which no  *)
(* one gets while that committer reads (LockInv, FlagInv); `pending' is    *)
(* set before the write lock is asked for, so whoever reads later sees it. *)
(***************************************************************************)
EXTENDS AccountFence, TLAPS

\* The initial state satisfies the inductive invariant.
LEMMA InitFenceInv == Init => FenceInv
<1> SUFFICES ASSUME Init PROVE FenceInv
  OBVIOUS
<1> USE FenceAssumption DEF Init
<1>1. TypeOK
  <2>1. [authority |-> LoggedOut, generation |-> 0] \in [authority : Authorities, generation : Nat]
    BY DEF Authorities
  <2>2. before \in [Signallers -> Authorities] /\ auth \in Authorities
    BY DEF Authorities
  <2>3. /\ spc \in [Signallers -> {"idle", "poll", "announce", "lock"} \cup Locked]
        /\ cpc \in [Committers -> {"idle", "begun", "open", "read", "ready", "exited"} \cup Fenced]
    OBVIOUS
  <2>4. /\ proof \in [Committers -> [authority : Authorities, generation : Nat]]
        /\ named \in [Committers -> BOOLEAN]
    BY <2>1
  <2>5. pending \in BOOLEAN /\ changed \in BOOLEAN
    OBVIOUS
  <2>6. /\ logins \in 0..MaxLogins /\ generation \in Nat /\ late \subseteq Committers
        /\ readers \subseteq Committers /\ writer \in Signallers \cup {NoWriter}
    OBVIOUS
  <2> HIDE DEF Init
  <2> QED BY <2>2, <2>3, <2>4, <2>5, <2>6 DEF TypeOK
<1>2. LockInv
  BY DEF LockInv, Fenced, Locked
<1>3. FlagInv /\ CountInv /\ ProofInv
  BY DEF FlagInv, CountInv, ProofInv, Locked, Passed, Fenced
<1> QED BY <1>1, <1>2, <1>3 DEF FenceInv

\* A login touches neither the flags nor the lock.
LEMMA LoginStep ==
    ASSUME FenceInv, NEW a \in Accounts \cup {LoggedOut}, Login(a)
    PROVE  FenceInv'
<1> USE FenceAssumption
<1>1. TypeOK'
  BY DEF FenceInv, Login, TypeOK, Authorities, boundary, fence, signallers
<1>2. LockInv' /\ FlagInv' /\ CountInv'
  BY DEF FenceInv, Login, LockInv, FlagInv, CountInv, boundary, fence, signallers
<1>3. ProofInv'
  BY DEF FenceInv, Login, TypeOK, ProofInv
<1> QED BY <1>1, <1>2, <1>3 DEF FenceInv

\* A signaller's step: only under the write lock do `changed' and the
\* generation move, and then nobody reads.
LEMMA SignallerStep ==
    ASSUME FenceInv, NEW s \in Signallers, PollBegin(s) \/ PollEnd(s) \/ Signal(s)
    PROVE  FenceInv'
<1> USE FenceAssumption
<1>1. CASE PollBegin(s)
  BY <1>1 DEF FenceInv, PollBegin, TypeOK, LockInv, FlagInv, CountInv, ProofInv, Authorities, Locked,
     boundary, fence, committers
<1>2. CASE PollEnd(s)
  BY <1>2 DEF FenceInv, PollEnd, TypeOK, LockInv, FlagInv, CountInv, ProofInv, Locked,
     boundary, fence, committers
<1>3. CASE StorePending(s)
  BY <1>3 DEF FenceInv, StorePending, TypeOK, LockInv, FlagInv, CountInv, ProofInv, Locked,
     fence, committers
<1>4. CASE LockWrite(s)
  BY <1>4 DEF FenceInv, LockWrite, TypeOK, LockInv, FlagInv, CountInv, ProofInv, Locked,
     boundary, committers
<1>5. CASE SwapChanged(s)
  <2>1. writer = s /\ readers = {} /\ pending
    BY <1>5 DEF FenceInv, SwapChanged, LockInv, FlagInv, Locked
  <2>2. \A c \in Committers : cpc[c] \notin Passed
    BY <2>1 DEF FenceInv, LockInv, Passed
  <2>3. TypeOK' /\ LockInv' /\ ProofInv'
    BY <1>5 DEF FenceInv, SwapChanged, TypeOK, LockInv, ProofInv, Locked, fence, committers
  <2>4. FlagInv'
    BY <1>5, <2>1, <2>2 DEF FenceInv, SwapChanged, TypeOK, FlagInv, Locked, fence, committers
  <2>5. CountInv'
    <3>1. CASE changed
      BY <1>5, <3>1 DEF FenceInv, SwapChanged, TypeOK, CountInv
    <3>2. CASE ~changed
      BY <1>5, <3>2 DEF FenceInv, SwapChanged, TypeOK, CountInv
    <3> QED BY <3>1, <3>2
  <2> QED BY <2>3, <2>4, <2>5 DEF FenceInv
<1>6. CASE AddGeneration(s)
  <2>1. generation = 0 /\ changed /\ \A t \in Signallers : spc[t] = "count" => t = s
    BY <1>6 DEF FenceInv, AddGeneration, CountInv, LockInv, Locked
  <2>2. TypeOK' /\ LockInv' /\ FlagInv' /\ ProofInv'
    BY <1>6 DEF FenceInv, AddGeneration, TypeOK, LockInv, FlagInv, ProofInv, Locked, fence, committers
  <2>3. CountInv'
    BY <1>6, <2>1 DEF FenceInv, AddGeneration, TypeOK, CountInv
  <2> QED BY <2>2, <2>3 DEF FenceInv
<1>7. CASE UnlockWrite(s)
  BY <1>7 DEF FenceInv, UnlockWrite, TypeOK, LockInv, FlagInv, CountInv, ProofInv, Locked,
     boundary, committers
<1> QED BY <1>1, <1>2, <1>3, <1>4, <1>5, <1>6, <1>7 DEF Signal

\* A committer's step outside the fence.
LEMMA CaptureStep ==
    ASSUME FenceInv, NEW c \in Committers, Capture(c)
    PROVE  FenceInv'
<1> USE FenceAssumption
<1>1. proof' \in [Committers -> [authority : Authorities, generation : Nat]]
  BY DEF FenceInv, TypeOK, Capture, CaptureBegin, CaptureCheck, CaptureRead, CaptureEnd
<1>2. \E step \in {"begun", "open", "read", "ready", "exited"} : Goto(c, step)
  BY DEF Capture, CaptureBegin, CaptureCheck, CaptureRead, CaptureEnd
<1>3. cpc[c] \notin Fenced /\ UNCHANGED <<auth, logins, boundary, fence, signallers, named, late>>
  BY DEF Capture, CaptureBegin, CaptureCheck, CaptureRead, CaptureEnd, Fenced
<1>4. \A x \in Committers : cpc[x] \in Fenced => proof'[x] = proof[x]
  BY <1>3 DEF FenceInv, TypeOK, Capture, CaptureBegin, CaptureCheck, CaptureRead, CaptureEnd
<1>5. TypeOK'
  BY <1>1, <1>2, <1>3 DEF FenceInv, TypeOK, Goto, boundary, fence, signallers
<1>6. LockInv' /\ FlagInv' /\ CountInv'
  BY <1>2, <1>3 DEF FenceInv, TypeOK, LockInv, FlagInv, CountInv, Goto, Fenced, Passed,
     boundary, fence, signallers
<1>7. ProofInv'
  BY <1>2, <1>3, <1>4 DEF FenceInv, TypeOK, ProofInv, Goto, Fenced
<1> QED BY <1>5, <1>6, <1>7 DEF FenceInv

\* A committer's step under the fence: it passes the check only when neither
\* flag is set.
LEMMA GuardedCommitStep ==
    ASSUME FenceInv, NEW c \in Committers, GuardedCommit(c)
    PROVE  FenceInv'
<1> USE FenceAssumption
<1>1. CASE LockRead(c)
  <2>1. TypeOK' /\ LockInv'
    BY <1>1 DEF FenceInv, LockRead, Goto, TypeOK, LockInv, Fenced, boundary, signallers
  <2>3. CountInv' /\ ProofInv'
    BY <1>1 DEF FenceInv, LockRead, Goto, TypeOK, CountInv, ProofInv, Fenced, boundary, signallers
  <2>2. FlagInv'
    BY <1>1 DEF FenceInv, LockRead, Goto, TypeOK, FlagInv, Fenced, Passed, boundary, signallers
  <2> QED BY <2>1, <2>2, <2>3 DEF FenceInv
<1>2. ASSUME cpc[c] \in Fenced, Refuse(c) \/ Commit(c),
             UNCHANGED <<auth, logins, boundary, writer, signallers, proof, named, late>>
      PROVE  FenceInv'
  <2>1. readers' = readers \ {c} /\ \E step \in {"ready", "idle", "exited"} : Goto(c, step)
    BY <1>2 DEF Refuse, Commit
  <2> QED BY <1>2, <2>1 DEF FenceInv, Goto, TypeOK, LockInv, FlagInv, CountInv, ProofInv,
         Fenced, Passed, boundary, signallers
<1>3. ASSUME cpc[c] \in Fenced, NEW step \in Passed, Goto(c, step), UNCHANGED readers,
             UNCHANGED <<auth, logins, boundary, writer, signallers, proof, named, late>>,
             ~Changed \/ cpc[c] \in Passed,
             step \in {"compared", "commit"} => named[c]
      PROVE  FenceInv'
  <2>1. TypeOK' /\ LockInv' /\ CountInv' /\ ProofInv'
    BY <1>3 DEF FenceInv, Goto, TypeOK, LockInv, CountInv, ProofInv, Fenced, Passed,
       boundary, signallers
  <2>2. FlagInv'
    BY <1>3 DEF FenceInv, Goto, TypeOK, FlagInv, Changed, Passed, Fenced, boundary, signallers
  <2> QED BY <2>1, <2>2 DEF FenceInv
<1>4. CASE FenceCheck(c)
  BY <1>2, <1>3, <1>4 DEF FenceCheck, Fenced, Passed
<1>5. CASE GuardBegin(c)
  BY <1>2, <1>3, <1>5 DEF GuardBegin, Fenced, Passed
<1>6. CASE GuardRead(c)
  <2>1. auth = proof[c].authority => named[c]
    BY <1>6 DEF GuardRead, FenceInv, ProofInv, Fenced
  <2> QED BY <1>2, <1>3, <1>6, <2>1 DEF GuardRead, Fenced, Passed
<1>7. CASE GuardEnd(c)
  BY <1>2, <1>3, <1>7 DEF GuardEnd, FenceInv, ProofInv, Fenced, Passed
<1>8. CASE Commit(c)
  BY <1>2, <1>8 DEF Commit, Fenced
<1> QED BY <1>1, <1>4, <1>5, <1>6, <1>7, <1>8 DEF GuardedCommit

-----------------------------------------------------------------------------

\* Every step of every thread keeps the inductive invariant.
THEOREM FenceIsSound == Spec => []FenceInv
<1>1. FenceInv /\ [Next]_vars => FenceInv'
  <2> SUFFICES ASSUME FenceInv, [Next]_vars PROVE FenceInv'
    OBVIOUS
  <2>1. CASE Next
    BY <2>1, LoginStep, SignallerStep, CaptureStep, GuardedCommitStep DEF Next
  <2>2. CASE UNCHANGED vars
    BY <2>2 DEF vars, boundary, fence, signallers, committers, FenceInv, TypeOK, LockInv, FlagInv,
       CountInv, ProofInv
  <2> QED BY <2>1, <2>2
<1> QED BY <1>1, InitFenceInv, PTL DEF Spec

\* While a signal holds the lock, and for ever after it returned, no durable
\* mutation of the account that was left is under way.
THEOREM SignalExcludesMutation == Spec => []NoMutationAfterSignal
<1>1. FenceInv => NoMutationAfterSignal
  BY DEF FenceInv, LockInv, FlagInv, NoMutationAfterSignal, Fenced, Passed
<1> QED BY <1>1, FenceIsSound, PTL

\* A committer that takes the fence after a boundary was announced never
\* commits, whatever order the RwLock serves its users in.
THEOREM LateReadersAreRefused == Spec => []NoOvertaking
<1>1. FenceInv => NoOvertaking
  BY DEF FenceInv, FlagInv, NoOvertaking, Fenced, Passed
<1> QED BY <1>1, FenceIsSound, PTL

\* Every commit is for an account that auth.json named under the fence.
THEOREM CommitsAreNamed == Spec => []CommitsForNamedAccount
<1>1. FenceInv => CommitsForNamedAccount
  BY DEF FenceInv, ProofInv, CommitsForNamedAccount
<1> QED BY <1>1, FenceIsSound, PTL

\* The generation advances exactly once, with any number of signals.
THEOREM EpochEndsOnce == Spec => []GenerationAdvancesOnce
<1>1. FenceInv => GenerationAdvancesOnce
  <2> SUFFICES ASSUME FenceInv PROVE GenerationAdvancesOnce
    OBVIOUS
  <2>1. generation \in {0, 1}
    BY DEF FenceInv, CountInv
  <2>2. writer = NoWriter => \A s \in Signallers : spc[s] # "count"
    BY FenceAssumption DEF FenceInv, LockInv, Locked
  <2> QED BY <2>1, <2>2 DEF FenceInv, CountInv, GenerationAdvancesOnce
<1> QED BY <1>1, FenceIsSound, PTL

=============================================================================
