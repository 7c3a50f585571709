--------------------------- MODULE ThreadWaitProofs ---------------------------
(***************************************************************************)
(* No wake-up of the main thread is lost, for any capacity of the result   *)
(* channel.  WakeInv is inductive; NoLostWakeup is what it says about a    *)
(* parked thread.                                                          *)
(***************************************************************************)
EXTENDS ThreadWait, TLAPS

LEMMA InitWake == Init => WakeInv
<1>1. 0 \in 0 .. ResultCap
  BY CapAssumption
<1> QED BY <1>1 DEF Init, WakeInv, TypeOK, Waiting

(* The steps of the main thread between two waits and into one. *)
LEMMA WorkStep ==
    ASSUME WakeInv, Submit \/ Drain \/ StartWait \/ StartSleep \/ Leave
    PROVE  WakeInv'
<1> USE CapAssumption DEF WakeInv, TypeOK, Waiting
<1>1. CASE Submit
  BY <1>1 DEF Submit
<1>2. CASE Drain
  <2>1. results' \in 0 .. ResultCap
    BY <1>2 DEF Drain
  <2>2. results' > 0 <=> FALSE
    BY <1>2 DEF Drain
  <2> QED BY <1>2, <2>1, <2>2 DEF Drain
<1>3. CASE StartWait
  BY <1>3 DEF StartWait
<1>4. CASE StartSleep
  BY <1>4 DEF StartSleep
<1>5. CASE Leave
  BY <1>5 DEF Leave
<1> QED BY <1>1, <1>2, <1>3, <1>4, <1>5

(* The steps inside a wait.  Check and ReceiveNothing read the flag and the *)
(* queue before the thread may block.                                      *)
LEMMA WaitStep ==
    ASSUME WakeInv,
           Check \/ Receive \/ ReceiveNothing \/ Park \/ Unparked \/ TimesOut \/ Expire
    PROVE  WakeInv'
<1> USE CapAssumption DEF WakeInv, TypeOK, Waiting
<1>1. CASE Check
  <2>1. CASE stop
    BY <1>1, <2>1 DEF Check
  <2>2. CASE ~stop /\ mode = "wait_for"
    BY <1>1, <2>2 DEF Check
  <2>3. CASE ~stop /\ mode = "sleep"
    BY <1>1, <2>3 DEF Check
  <2> QED BY <2>1, <2>2, <2>3
<1>2. CASE Receive
  <2>1. results' \in 0 .. ResultCap
    BY <1>2 DEF Receive
  <2> QED BY <1>2, <2>1 DEF Receive
<1>3. CASE ReceiveNothing
  BY <1>3 DEF ReceiveNothing
<1>4. CASE Park
  BY <1>4 DEF Park
<1>5. CASE Unparked
  BY <1>5 DEF Unparked
<1>6. CASE TimesOut
  BY <1>6 DEF TimesOut
<1>7. CASE Expire
  BY <1>7 DEF Expire
<1> QED BY <1>1, <1>2, <1>3, <1>4, <1>5, <1>6, <1>7

(* The two threads that wake it: each stores first and unparks afterwards. *)
LEMMA WakerStep ==
    ASSUME WakeInv, Poller \/ StopStore \/ StopUnpark
    PROVE  WakeInv'
<1> USE CapAssumption DEF WakeInv, TypeOK, Waiting
<1>1. CASE TakeCommand
  BY <1>1 DEF TakeCommand
<1>2. CASE SendResult
  BY <1>2 DEF SendResult
<1>3. CASE Notify
  BY <1>3 DEF Notify
<1>4. CASE Die
  BY <1>4 DEF Die
<1>5. CASE StopStore
  BY <1>5 DEF StopStore
<1>6. CASE StopUnpark
  BY <1>6 DEF StopUnpark
<1> QED BY <1>1, <1>2, <1>3, <1>4, <1>5, <1>6 DEF Poller

LEMMA NextWake == WakeInv /\ [Next]_vars => WakeInv'
<1> SUFFICES ASSUME WakeInv, [Next]_vars PROVE WakeInv'
  OBVIOUS
<1>1. CASE UNCHANGED vars
  BY <1>1 DEF vars, WakeInv, TypeOK, Waiting
<1>2. CASE Next
  BY <1>2, WorkStep, WaitStep, WakerStep DEF Next, Main
<1> QED BY <1>1, <1>2

(* Once the flag or the queue was read as empty, the wake-up that follows   *)
(* finds the waiter registered and leaves a token                           *)
(* (wait_for_interruptible registers before it reads the queue).            *)
THEOREM WakeupIsKept == Spec => []WakeInv
<1>1. Init => WakeInv BY InitWake
<1>2. WakeInv /\ [Next]_vars => WakeInv' BY NextWake
<1> QED BY <1>1, <1>2, PTL DEF Spec

(* The main thread never stays parked beside a stop or a result whose       *)
(* sender has already gone past its unpark.                                 *)
THEOREM NoWakeupIsLost == Spec => []NoLostWakeup
<1>1. WakeInv => NoLostWakeup
  BY DEF WakeInv, NoLostWakeup, TypeOK
<1> QED BY <1>1, WakeupIsKept, PTL
=============================================================================
