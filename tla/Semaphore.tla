------------------------------ MODULE Semaphore ------------------------------
(***************************************************************************)
(* A <semaphore> of the LLVM runtime (lib/run-time/llvm-posix-threads.c).  *)
(* The critical sections of its mutex are single actions; the mutex is a   *)
(* variable because one error path returns to the program without          *)
(* unlocking it.                                                           *)
(***************************************************************************)
EXTENDS Integers, FiniteSets

CONSTANTS Thread, NoThread,
          InitialCount,   \* initial-count:
          MaximumCount,   \* maximum-count:
          CountBound,     \* bound on the counter, so that the instance is finite
          Clock,          \* values of the microsecond clock a timed wait may see
          Timeout         \* timeouts in milliseconds the program uses

ASSUME ThreadAssumption == NoThread \notin Thread /\ IsFiniteSet(Thread)

ASSUME CounterAssumption == /\ InitialCount \in Nat /\ MaximumCount \in Nat
                            /\ InitialCount <= MaximumCount
                            /\ CountBound \in Nat /\ InitialCount <= CountBound

ASSUME ClockAssumption == Clock \subseteq 0 .. 999999 /\ Timeout \subseteq Nat

VARIABLES count,   \* semaphore->count
          mutex,   \* the thread that holds the mutex outside a critical section
          pc,      \* where each thread stands
          wait     \* wait[t]: the kind of wait t is in

vars == <<count, mutex, pc, wait>>

\* The number of nanoseconds the code takes for a second.
SECOND == 1000000000

\* compute_deadline: usec is the microsecond part of gettimeofday, ms the
\* timeout in milliseconds; tv_sec is relative to the current second.
compute_deadline(usec, ms) ==
  LET nsec == usec * 1000 + (ms % 1000) * 1000000
      over == nsec > SECOND
  IN  [tv_sec  |-> ms \div 1000 + (IF over THEN nsec \div SECOND ELSE 0),
       tv_nsec |-> IF over THEN nsec % SECOND ELSE nsec]

\* pthread_cond_timedwait returns EINVAL for any other nanosecond part.
ValidTimespec(ts) == ts.tv_nsec \in 0 .. SECOND - 1

Init == /\ count = InitialCount
        /\ mutex = NoThread
        /\ pc = [t \in Thread |-> "program"]
        /\ wait = [t \in Thread |-> "none"]

At(t, p) == pc[t] = p
In(place) == {t \in Thread : pc[t] = place}

\* The program calls release; the bound keeps the counter finite.
CallRelease(t) == /\ At(t, "program")
                  /\ count + Cardinality(In("callRelease")) < CountBound
                  /\ pc' = [pc EXCEPT ![t] = "callRelease"]
                  /\ UNCHANGED <<count, mutex, wait>>

\* The program calls wait-for; a timed wait computes its deadline first.
CallWait(t) ==
  /\ At(t, "program")
  /\ pc' = [pc EXCEPT ![t] = "callWait"]
  /\ \/ wait' = [wait EXCEPT ![t] = "forever"]
     \/ \E usec \in Clock, ms \in Timeout :
          wait' = [wait EXCEPT ![t] = IF ValidTimespec(compute_deadline(usec, ms))
                                      THEN "timed" ELSE "invalid"]
  /\ UNCHANGED <<count, mutex>>

\* primitive_release_semaphore: max_count is not looked at.
Release_ifzero(t) ==
  /\ At(t, "callRelease") /\ mutex = NoThread
  /\ count' = count + 1
  /\ IF count = 0 /\ In("asleep") # {}
     THEN \E u \in In("asleep") : pc' = [pc EXCEPT ![t] = "program", ![u] = "awake"]
     ELSE pc' = [pc EXCEPT ![t] = "program"]
  /\ UNCHANGED <<mutex, wait>>

Release(t) ==
  /\ At(t, "callRelease") /\ mutex = NoThread
  /\ count' = count + 1
  /\ IF In("asleep") = {} THEN pc' = [pc EXCEPT ![t] = "program"]
     ELSE \E u \in In("asleep") : pc' = [pc EXCEPT ![t] = "program", ![u] = "awake"]
  /\ UNCHANGED <<mutex, wait>>

Return(t) == /\ pc' = [pc EXCEPT ![t] = "program"]
             /\ wait' = [wait EXCEPT ![t] = "none"]

\* The loop of primitive_wait_for_semaphore(_timed), from its start and from
\* the return of the condition wait.
Wait_once(t) ==
  /\ pc[t] \in {"callWait", "awake"} /\ mutex = NoThread
  /\ \/ /\ count > 0 \/ At(t, "awake")
        /\ count' = count - 1
        /\ Return(t) /\ UNCHANGED mutex
     \/ /\ count <= 0 /\ At(t, "callWait") /\ wait[t] # "invalid"
        /\ pc' = [pc EXCEPT ![t] = "asleep"]
        /\ UNCHANGED <<count, mutex, wait>>

Wait(t) ==
  /\ pc[t] \in {"callWait", "awake"} /\ mutex = NoThread
  /\ \/ /\ count > 0
        /\ count' = count - 1
        /\ Return(t) /\ UNCHANGED mutex
     \/ /\ count <= 0 /\ wait[t] # "invalid"
        /\ pc' = [pc EXCEPT ![t] = "asleep"]
        /\ UNCHANGED <<count, mutex, wait>>
     \/ /\ count <= 0 /\ wait[t] = "invalid"    \* EINVAL: GENERAL_ERROR, mutex still locked
        /\ mutex' = t
        /\ Return(t) /\ UNCHANGED count

SpuriousWakeup(t) == /\ At(t, "asleep")
                     /\ pc' = [pc EXCEPT ![t] = "awake"]
                     /\ UNCHANGED <<count, mutex, wait>>

\* ETIMEDOUT: the mutex is reacquired and unlocked, the counter not looked at.
TimedOut(t) == /\ At(t, "asleep") /\ wait[t] = "timed" /\ mutex = NoThread
               /\ Return(t) /\ UNCHANGED <<count, mutex>>

Step(t) == Release(t) \/ Wait(t)

Next == \E t \in Thread : \/ CallRelease(t) \/ CallWait(t) \/ Step(t)
                          \/ SpuriousWakeup(t) \/ TimedOut(t)

Spec == Init /\ [][Next]_vars

\* The operating system runs every thread that can move inside a primitive.
FairSpec == Spec /\ \A t \in Thread : WF_vars(Step(t))

-----------------------------------------------------------------------------
\* Type correctness; in particular the counter never becomes negative, however
\* the waiters race for a unit after a wakeup.
TypeOK == /\ count \in 0 .. CountBound
          /\ mutex \in Thread \cup {NoThread}
          /\ pc \in [Thread -> {"program", "callRelease", "callWait", "asleep", "awake"}]
          /\ wait \in [Thread -> {"none", "forever", "timed", "invalid"}]

\* Every unit that sleepers could take has its own wakeup under way: one signal
\* per release is enough, even when threads that never slept take units first
\* and waiters time out.
EnoughWakeups == In("asleep") # {} => Cardinality(In("awake")) >= count

\* A unit is not left lying while threads sleep on the semaphore, unless the error
\* path has run away with the mutex.
UnitTaken == (count > 0 /\ In("asleep") # {})
               ~> (count = 0 \/ In("asleep") = {} \/ mutex # NoThread)

\* The internal counter stays within maximum-count:.
CountWithinMaximum == count <= MaximumCount

\* A thread that calls release never finds the mutex held by a thread that has
\* returned to its program: release does not block.
ReleaseDoesNotBlock == In("callRelease") # {} => mutex = NoThread
=============================================================================
