---------------------------- MODULE RecursiveLock ----------------------------
(***************************************************************************)
(* A <recursive-lock> of the LLVM runtime (lib/run-time/                   *)
(* llvm-posix-threads.c).  Its mutex is held only inside short critical    *)
(* sections, each of which is one action.                                  *)
(***************************************************************************)
EXTENDS Integers

CONSTANTS Thread, NoThread,
          MaxNesting   \* bound on how deep the program nests claims

ASSUME RecursiveAssumption == NoThread \notin Thread /\ MaxNesting \in Nat \ {0}

VARIABLES owner,            \* rlock->owner, kept when the lock is released
          recursion_count,  \* rlock->recursion_count
          pc,               \* where each thread stands
          timed,            \* timed[t]: t's wait has a deadline
          nesting             \* history: claims minus releases of each thread

vars == <<owner, recursion_count, pc, timed, nesting>>

Init == /\ owner = NoThread
        /\ recursion_count = 0
        /\ pc = [t \in Thread |-> "program"]
        /\ timed = [t \in Thread |-> FALSE]
        /\ nesting = [t \in Thread |-> 0]

In(place) == {t \in Thread : pc[t] = place}

Claim(t) == /\ owner' = t
            /\ recursion_count' = recursion_count + 1
            /\ nesting' = [nesting EXCEPT ![t] = @ + 1]
            /\ pc' = [pc EXCEPT ![t] = "program"]
            /\ timed' = [timed EXCEPT ![t] = FALSE]

\* primitive_wait_for_recursive_lock(_timed): only the entry compares the owner.
WaitFor(t) ==
  /\ pc[t] = "program" /\ nesting[t] < MaxNesting
  /\ \/ (recursion_count = 0 \/ owner = t) /\ Claim(t)
     \/ /\ recursion_count # 0 /\ owner # t
        /\ pc' = [pc EXCEPT ![t] = "asleep"]
        /\ \E b \in BOOLEAN : timed' = [timed EXCEPT ![t] = b]
        /\ UNCHANGED <<owner, recursion_count, nesting>>

\* The loop after pthread_cond_wait returns, tests only the count.
Retry_once(t) == pc[t] = "awake" /\ Claim(t)
Retry(t) ==
  /\ pc[t] = "awake"
  /\ \/ recursion_count = 0 /\ Claim(t)
     \/ /\ recursion_count # 0
        /\ pc' = [pc EXCEPT ![t] = "asleep"]
        /\ UNCHANGED <<owner, recursion_count, timed, nesting>>

SpuriousWakeup(t) == /\ pc[t] = "asleep"
                     /\ pc' = [pc EXCEPT ![t] = "awake"]
                     /\ UNCHANGED <<owner, recursion_count, timed, nesting>>

TimedOut(t) == /\ pc[t] = "asleep" /\ timed[t]
               /\ pc' = [pc EXCEPT ![t] = "program"]
               /\ timed' = [timed EXCEPT ![t] = FALSE]
               /\ UNCHANGED <<owner, recursion_count, nesting>>

\* primitive_release_recursive_lock: NOT_LOCKED, and no change, for anybody
\* but the owner; the owner stays recorded when the count reaches zero.
Owned_stale(t) == owner = t
Owned(t) == recursion_count # 0 /\ owner = t

Release_always(t) ==
  /\ pc[t] = "program" /\ Owned(t)
  /\ recursion_count' = recursion_count - 1
  /\ nesting' = [nesting EXCEPT ![t] = @ - 1]
  /\ UNCHANGED <<owner, pc, timed>>

Release(t) ==
  /\ pc[t] = "program" /\ Owned(t)
  /\ recursion_count' = recursion_count - 1
  /\ nesting' = [nesting EXCEPT ![t] = @ - 1]
  /\ IF recursion_count = 1 /\ In("asleep") # {}
     THEN \E u \in In("asleep") : pc' = [pc EXCEPT ![u] = "awake"]
     ELSE pc' = pc
  /\ UNCHANGED <<owner, timed>>

Next == \E t \in Thread : \/ WaitFor(t) \/ Retry(t) \/ SpuriousWakeup(t)
                          \/ TimedOut(t) \/ Release(t)

Spec == Init /\ [][Next]_vars

\* The operating system runs every thread that has been woken.
FairSpec == Spec /\ \A t \in Thread : WF_vars(Retry(t))

-----------------------------------------------------------------------------
\* Type correctness of the lock and of the threads.
TypeOK == /\ owner \in Thread \cup {NoThread}
          /\ recursion_count \in 0 .. MaxNesting
          /\ pc \in [Thread -> {"program", "asleep", "awake"}]
          /\ timed \in [Thread -> BOOLEAN]
          /\ nesting \in [Thread -> 0 .. MaxNesting]

\* Mutual exclusion with nesting: a thread inside the lock is its recorded owner
\* and the runtime's count is that thread's own nesting depth, so that the lock
\* is freed exactly by the release that matches the outermost claim.
DepthMatchesCount == \A t \in Thread : nesting[t] = IF Owned(t) THEN recursion_count ELSE 0

\* A thread asleep on the lock does not own it, so that it cannot be waiting for
\* itself; and a free lock with sleepers has woken one of them.
NoLostSignal == /\ \A t \in Thread : pc[t] # "program" => ~Owned(t)
                /\ recursion_count = 0 /\ In("asleep") # {} => In("awake") # {}

\* A free lock with a thread asleep on it is claimed again, or nobody waits.
FreeLockTaken == (recursion_count = 0 /\ In("asleep") # {})
                    ~> (recursion_count # 0 \/ In("asleep") = {})
=============================================================================
