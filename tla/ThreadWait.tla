------------------------------ MODULE ThreadWait ------------------------------
(***************************************************************************)
(* How the recorder's main thread is woken.  While it waits for the next   *)
(* collection it is parked, either for a probe result                      *)
(* (ThreadPoller::wait_for_interruptible) or only for the time to pass     *)
(* (shutdown_sleep).  The poller thread and the thread that receives       *)
(* SIGTERM wake it with Thread::unpark, which leaves one token behind.     *)
(* Each step here is one access to the queue, the flag, the waiter slot or *)
(* the token, so that every interleaving of the three threads is explored. *)
(*                                                                         *)
(* Source: crates/codex-info-recorder/src/lib.rs (ThreadPoller) and        *)
(* main.rs (shutdown_sleep, install_shutdown_signal and the wait of        *)
(* complete_cycle_publication_and_wait).                                   *)
(***************************************************************************)
EXTENDS Integers

CONSTANT ResultCap   \* capacity of the result channel

ASSUME CapAssumption == ResultCap \in Nat \ {0}

VARIABLES
  mpc,         \* the main thread
  mode,        \* what it waits in: "wait_for" or "sleep"
  expired,     \* the deadline of its wait has passed
  in_flight,   \* cadence.in_flight
  waiter,      \* ThreadPoller.waiter is Some(main)
  token,       \* the park token of the main thread
  command,     \* a probe is queued
  wpc,         \* the poller thread
  results,     \* number of queued results
  stop,        \* SHUTDOWN_REQUESTED
  spc          \* the thread "recorder-stop"

vars == <<mpc, mode, expired, in_flight, waiter, token, command, wpc, results, stop, spc>>

Waiting == mpc \in {"check", "recv", "park", "parked"}

Init ==
    /\ mpc = "work" /\ mode = "sleep" /\ expired = FALSE
    /\ in_flight = FALSE /\ waiter = FALSE /\ token = FALSE
    /\ command = FALSE /\ wpc = "recv" /\ results = 0
    /\ stop = FALSE /\ spc = "signal"

-----------------------------------------------------------------------------
(* The main thread between two waits: it hands over a probe ... *)
Submit ==
    /\ mpc = "work" /\ ~stop /\ ~in_flight
    /\ command' = (wpc # "dead") /\ in_flight' = (wpc # "dead")
    /\ UNCHANGED <<mpc, mode, expired, waiter, token, wpc, results, stop, spc>>

(* ... drains what has arrived at the end of a cycle ... *)
Drain ==
    /\ mpc = "work" /\ results > 0
    /\ results' = 0 /\ in_flight' = FALSE
    /\ UNCHANGED <<mpc, mode, expired, waiter, token, command, wpc, stop, spc>>

\* Mutant: the waiter is not registered before the queue is read.
StartWaitUnseen ==
    /\ mpc = "work" /\ ~stop /\ in_flight
    /\ mpc' = "check" /\ mode' = "wait_for" /\ expired' = FALSE
    /\ UNCHANGED <<in_flight, waiter, token, command, wpc, results, stop, spc>>

(* ... and waits: for the outstanding result, if there is one.             *)
(* wait_for_interruptible registers the caller first.                      *)
StartWait ==
    /\ mpc = "work" /\ ~stop /\ in_flight
    /\ mpc' = "check" /\ mode' = "wait_for" /\ expired' = FALSE
    /\ waiter' = TRUE
    /\ UNCHANGED <<in_flight, token, command, wpc, results, stop, spc>>

StartSleep ==
    /\ mpc = "work" /\ ~stop /\ ~in_flight
    /\ mpc' = "check" /\ mode' = "sleep" /\ expired' = FALSE
    /\ UNCHANGED <<in_flight, waiter, token, command, wpc, results, stop, spc>>

(* shutdown_requested(), at the head of either loop *)
Check ==
    /\ mpc = "check"
    /\ mpc' = CASE stop -> "work"
                [] ~stop /\ mode = "wait_for" -> "recv"
                [] ~stop /\ mode = "sleep" -> "park"
    /\ UNCHANGED <<mode, expired, in_flight, waiter, token, command, wpc, results, stop, spc>>

(* receiver.try_recv() with a result *)
Receive ==
    /\ mpc = "recv" /\ results > 0
    /\ results' = results - 1 /\ in_flight' = FALSE
    /\ mpc' = "work"
    /\ UNCHANGED <<mode, expired, waiter, token, command, wpc, stop, spc>>

(* ... and without.  After Disconnected the caller sleeps until its wake-up *)
(* time instead.                                                            *)
ReceiveNothing ==
    /\ mpc = "recv" /\ results = 0
    /\ IF wpc = "dead"
       THEN mpc' = "check" /\ mode' = "sleep"
       ELSE mpc' = "park" /\ UNCHANGED mode
    /\ UNCHANGED <<expired, in_flight, waiter, token, command, wpc, results, stop, spc>>

(* The deadline is over: return; or a token is there: park returns at once; *)
(* or the thread blocks.                                                    *)
Park ==
    /\ mpc = "park"
    /\ \/ expired /\ mpc' = "work" /\ UNCHANGED token
       \/ ~expired /\ token /\ mpc' = "check" /\ token' = FALSE
       \/ ~expired /\ ~token /\ mpc' = "parked" /\ UNCHANGED token
    /\ UNCHANGED <<mode, expired, in_flight, waiter, command, wpc, results, stop, spc>>

Unparked ==
    /\ mpc = "parked" /\ token
    /\ mpc' = "check" /\ token' = FALSE
    /\ UNCHANGED <<mode, expired, in_flight, waiter, command, wpc, results, stop, spc>>

(* The timeout of park_timeout, or a spurious return of it. *)
TimesOut ==
    /\ mpc = "parked"
    /\ mpc' = "check"
    /\ UNCHANGED <<mode, expired, in_flight, waiter, token, command, wpc, results, stop, spc>>

Expire ==
    /\ Waiting /\ ~expired
    /\ expired' = TRUE
    /\ UNCHANGED <<mpc, mode, in_flight, waiter, token, command, wpc, results, stop, spc>>

(* The main loop sees the flag and returns. *)
Leave ==
    /\ mpc = "work" /\ stop
    /\ mpc' = "left"
    /\ UNCHANGED <<mode, expired, in_flight, waiter, token, command, wpc, results, stop, spc>>

-----------------------------------------------------------------------------
(* The poller thread. *)
TakeCommand ==
    /\ wpc = "recv" /\ command
    /\ wpc' = "probing" /\ command' = FALSE
    /\ UNCHANGED <<mpc, mode, expired, in_flight, waiter, token, results, stop, spc>>

SendResult ==
    /\ wpc = "probing"
    /\ wpc' = "notify"
    /\ results' = IF results < ResultCap THEN results + 1 ELSE results
    /\ UNCHANGED <<mpc, mode, expired, in_flight, waiter, token, command, stop, spc>>

Notify ==
    /\ wpc = "notify"
    /\ wpc' = "recv"
    /\ token' = (token \/ waiter)
    /\ UNCHANGED <<mpc, mode, expired, in_flight, waiter, command, results, stop, spc>>

(* A panic in the probe: the channel closes, nobody is woken. *)
Die ==
    /\ wpc = "probing"
    /\ wpc' = "dead"
    /\ UNCHANGED <<mpc, mode, expired, in_flight, waiter, token, command, results, stop, spc>>

-----------------------------------------------------------------------------
(* The thread "recorder-stop": the flag first, then the wake-up. *)
StopStore ==
    /\ spc = "signal"
    /\ stop' = TRUE /\ spc' = "unpark"
    /\ UNCHANGED <<mpc, mode, expired, in_flight, waiter, token, command, wpc, results>>

\* Mutant: the waiting thread is not woken.
StopOnly ==
    /\ spc = "unpark"
    /\ spc' = "done"
    /\ UNCHANGED <<mpc, mode, expired, in_flight, waiter, token, command, wpc, results, stop>>

StopUnpark ==
    /\ spc = "unpark"
    /\ token' = TRUE /\ spc' = "done"
    /\ UNCHANGED <<mpc, mode, expired, in_flight, waiter, command, wpc, results, stop>>

Main == \/ Submit \/ Drain \/ StartWait \/ StartSleep \/ Check \/ Receive
        \/ ReceiveNothing \/ Park \/ Unparked \/ Leave

Poller == TakeCommand \/ SendResult \/ Notify \/ Die

Next == Main \/ TimesOut \/ Expire \/ Poller \/ StopStore \/ StopUnpark

Spec == Init /\ [][Next]_vars

(* The threads are scheduled, a begun stop is finished and no wait is       *)
(* postponed for ever by other work.  No fairness for Expire and TimesOut:  *)
(* a wake-up must not depend on the deadline.                               *)
Fairness == /\ WF_vars(Main) /\ WF_vars(Poller) /\ WF_vars(StopUnpark)
            /\ WF_vars(StartWait \/ StartSleep \/ Leave)

FairSpec == Spec /\ Fairness

-----------------------------------------------------------------------------
TypeOK ==
    /\ mpc \in {"work", "check", "recv", "park", "parked", "left"}
    /\ mode \in {"wait_for", "sleep"}
    /\ expired \in BOOLEAN /\ in_flight \in BOOLEAN /\ waiter \in BOOLEAN
    /\ token \in BOOLEAN /\ command \in BOOLEAN /\ stop \in BOOLEAN
    /\ wpc \in {"recv", "probing", "notify", "dead"}
    /\ results \in 0 .. ResultCap
    /\ spc \in {"signal", "unpark", "done"}

(* A thread that is parked without a token misses nothing: a stop or a      *)
(* result it waits for is there only while its sender is still about to     *)
(* unpark it.                                                               *)
NoLostWakeup ==
    mpc = "parked" /\ ~token =>
        /\ stop => spc = "unpark"
        /\ mode = "wait_for" /\ results > 0 => wpc = "notify"

(* Why: once the flag, or the queue, was read as empty, the wake-up that     *)
(* follows finds the waiter registered and leaves a token.                  *)
WakeInv ==
    /\ TypeOK
    /\ mode = "wait_for" /\ Waiting => waiter
    /\ mpc \in {"recv", "park", "parked"} /\ stop /\ spc # "unpark" => token
    /\ mpc \in {"park", "parked"} /\ mode = "wait_for" /\ results > 0 /\ wpc # "notify" => token
    /\ stop <=> spc # "signal"

(* A stop ends the wait without the deadline's help. *)
StopIsPrompt == stop ~> mpc = "left"

(* A completed probe is committed without the deadline's help. *)
ResultIsPrompt == results > 0 ~> (results = 0 \/ stop)
=============================================================================
