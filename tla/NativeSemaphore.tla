--------------------------- MODULE NativeSemaphore ---------------------------
(***************************************************************************)
(* A semaphore in the runtimes of the C and HARP back ends.  unix and      *)
(* windows use the kernel's; posix does too where POSIX semaphores exist   *)
(* and otherwise keeps a count under a mutex with a condition variable.    *)
(***************************************************************************)
EXTENDS NativeThreads

CONSTANT MaximumCount     \* the maximum given to make-semaphore

ASSUME MaximumAssumption == MaximumCount \in Nat

VARIABLES nsem,     \* the SEMAPHORE
          emulated, \* the posix runtime was built without POSIX semaphores
          npc       \* where each thread is in the primitive it called

nsemVars == <<nsem, emulated, npc>>

PosixMakeSemaphore == [count : 0..MaximumCount, mutex : {NoThread}, cond : {{}}]
UnixMakeSemaphore == [count : 0..MaximumCount]
WindowsMakeSemaphore == [count : 0..MaximumCount]

InitNativeSemaphore ==
  /\ emulated \in BOOLEAN /\ (emulated => Posix)
  /\ nsem \in CASE Posix -> PosixMakeSemaphore [] Unix -> UnixMakeSemaphore
                [] Windows -> WindowsMakeSemaphore
  /\ npc = [t \in Threads |-> "dylan"]

NGoto(t, l) == npc' = [npc EXCEPT ![t] = l]

------------------------------------------------------------------------------
(* The kernel's semaphores.  sem_post knows no maximum below SEM_VALUE_MAX. *)
(* A release beyond the limit changes nothing (COUNT_EXCEEDED).             *)

Decrement(t) ==
  /\ npc[t] = "dylan" /\ nsem.count > 0
  /\ nsem' = [nsem EXCEPT !.count = @ - 1]
  /\ UNCHANGED <<emulated, npc>>

Increment(t, limit) ==
  /\ npc[t] = "dylan"
  /\ nsem.count < limit
  /\ nsem' = [nsem EXCEPT !.count = @ + 1]
  /\ UNCHANGED <<emulated, npc>>

SEM_VALUE_MAX == MaximumCount + 1

UnixWaitForSemaphore(t) == Unix /\ Decrement(t)
UnixWaitForSemaphoreTimed(t) == Unix /\ Decrement(t)
UnixReleaseSemaphore(t) == Unix /\ Increment(t, SEM_VALUE_MAX)
WindowsWaitForSemaphore(t) == Windows /\ Decrement(t)
WindowsWaitForSemaphoreTimed(t) == Windows /\ Decrement(t)
WindowsReleaseSemaphore(t) == Windows /\ Increment(t, MaximumCount)

------------------------------------------------------------------------------
(* posix.                                                                   *)

LockSemaphore(t, l) ==
  /\ emulated /\ npc[t] = "dylan"
  /\ nsem.mutex = NoThread
  /\ nsem' = [nsem EXCEPT !.mutex = t]
  /\ NGoto(t, l)
  /\ UNCHANGED emulated

PosixWaitForSemaphore(t) ==
  Posix /\ ((~emulated /\ Decrement(t)) \/ LockSemaphore(t, "test"))
PosixWaitForSemaphoreTimed(t) ==
  Posix /\ ((~emulated /\ Decrement(t)) \/ LockSemaphore(t, "timedtest"))
PosixReleaseSemaphore(t) ==
  Posix /\ ((~emulated /\ Increment(t, SEM_VALUE_MAX)) \/ LockSemaphore(t, "increment"))

(* The loop around pthread_cond_wait, the mutex held.                       *)
PosixTestCount(t) ==
  /\ npc[t] \in {"test", "timedtest"}
  /\ IF nsem.count > 0
       THEN /\ nsem' = [nsem EXCEPT !.count = @ - 1, !.mutex = NoThread]
            /\ NGoto(t, "dylan")
       ELSE /\ nsem' = [nsem EXCEPT !.mutex = NoThread, !.cond = @ \cup {t}]
            /\ NGoto(t, IF npc[t] = "test" THEN "asleep" ELSE "timedasleep")
  /\ UNCHANGED emulated

(* A sleeper that was woken (or wakes for no reason) retakes the mutex.     *)
PosixWake(t) ==
  /\ npc[t] \in {"asleep", "timedasleep"}
  /\ t \notin nsem.cond /\ nsem.mutex = NoThread
  /\ nsem' = [nsem EXCEPT !.mutex = t]
  /\ NGoto(t, IF npc[t] = "asleep" THEN "test" ELSE "timedtest")
  /\ UNCHANGED emulated

PosixSpuriousWake(t) ==
  /\ npc[t] \in {"asleep", "timedasleep"} /\ t \in nsem.cond
  /\ nsem' = [nsem EXCEPT !.cond = @ \ {t}]
  /\ UNCHANGED <<emulated, npc>>

(* ETIMEDOUT: the mutex has been retaken and is given up.                   *)
PosixSemaphoreTimeout(t) ==
  /\ npc[t] = "timedasleep" /\ t \in nsem.cond
  /\ nsem.mutex = NoThread
  /\ nsem' = [nsem EXCEPT !.cond = @ \ {t}]
  /\ NGoto(t, "dylan")
  /\ UNCHANGED emulated

(* Mutant: only the first unit is signalled.                                *)
PosixIncrement_first(t) ==
  /\ npc[t] = "increment" /\ nsem.count < MaximumCount
  /\ nsem' = [nsem EXCEPT !.count = @ + 1, !.mutex = NoThread]
  /\ NGoto(t, IF nsem.count = 0 THEN "signal" ELSE "dylan")
  /\ UNCHANGED emulated

(* The return at the maximum keeps the mutex.                               *)
PosixIncrement(t) ==
  /\ npc[t] = "increment"
  /\ IF nsem.count >= MaximumCount
       THEN NGoto(t, "dylan") /\ UNCHANGED nsem
       ELSE /\ nsem' = [nsem EXCEPT !.count = @ + 1, !.mutex = NoThread]
            /\ NGoto(t, "signal")
  /\ UNCHANGED emulated

PosixSignal(t) ==
  /\ npc[t] = "signal"
  /\ \/ nsem.cond = {} /\ UNCHANGED nsem
     \/ \E u \in nsem.cond : nsem' = [nsem EXCEPT !.cond = @ \ {u}]
  /\ NGoto(t, "dylan")
  /\ UNCHANGED emulated

NextNativeSemaphore ==
  \E t \in Threads :
    \/ UnixWaitForSemaphore(t) \/ UnixWaitForSemaphoreTimed(t) \/ UnixReleaseSemaphore(t)
    \/ WindowsWaitForSemaphore(t) \/ WindowsWaitForSemaphoreTimed(t)
    \/ WindowsReleaseSemaphore(t)
    \/ PosixWaitForSemaphore(t) \/ PosixWaitForSemaphoreTimed(t) \/ PosixReleaseSemaphore(t)
    \/ PosixTestCount(t) \/ PosixWake(t) \/ PosixSpuriousWake(t) \/ PosixSemaphoreTimeout(t)
    \/ PosixIncrement(t) \/ PosixSignal(t)

------------------------------------------------------------------------------
(* Without POSIX semaphores, units are not forgotten: when threads sleep on *)
(* the condition variable, every unit that could be taken has a release     *)
(* about to signal or a woken thread on its way to take it.                 *)
UnitsHaveTakers ==
  emulated /\ nsem.cond # {} =>
    nsem.count <= Cardinality({t \in Threads : \/ npc[t] \in {"signal", "test", "timedtest"}
                                               \/ /\ npc[t] \in {"asleep", "timedasleep"}
                                                  /\ t \notin nsem.cond})
==============================================================================
