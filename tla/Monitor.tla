------------------------------- MODULE Monitor -------------------------------
(***************************************************************************)
(* A <notification> with its associated <simple-lock>, as the LLVM runtime *)
(* implements them (lib/run-time/llvm-posix-threads.c).                    *)
(*                                                                         *)
(* Each of the two owns a mutex and a condition variable.  The mutex of    *)
(* the simple lock is held only inside short critical sections, each of    *)
(* which is one action here.  The mutex of the notification (nmutex) is    *)
(* held across calls of the simple lock's primitives, so its holder is     *)
(* part of the state, and a wait-for is several actions.                   *)
(*                                                                         *)
(* Deadlines are ones pthreads accepts; Semaphore models those it refuses. *)
(***************************************************************************)
EXTENDS FiniteSets

CONSTANTS Thread,       \* the threads that share the monitor
          NoThread,     \* nobody
          Timed         \* which primitives the program calls with a timeout

ASSUME MonitorAssumption == /\ NoThread \notin Thread
                            /\ Timed \subseteq {"lock", "wait"}

VARIABLES locked,  \* slock->locked
          owner,   \* slock->owner, stale while the lock is not locked
          nmutex,  \* the thread that holds notification->mc.mutex
          pc,      \* where each thread stands
          call,    \* the primitive the thread is in, or the result of its last one
          owed     \* history: threads that gave up the lock in a wait and
                   \* have been addressed by a release-all since

vars == <<locked, owner, nmutex, pc, call, owed>>

\* "asleep" and "awake" are inside pthread_cond_wait of the simple lock,
\* "waiting", "notified" and "expired" inside that of the notification.
Place == {"program", "asleep", "awake", "relock", "unlocking", "callWait", "releasing",
          "released", "waiting", "notified", "expired", "callRelease", "callReleaseAll"}
Result == {"OK", "TIMEOUT", "NOT_LOCKED", "ALREADY_LOCKED"}
Call == {"lock", "lockTimed", "wait", "waitTimed"} \cup Result

Init == /\ locked = FALSE
        /\ owner = NoThread
        /\ nmutex = NoThread
        /\ pc = [t \in Thread |-> "program"]
        /\ call = [t \in Thread |-> "OK"]
        /\ owed = {}

At(t, p) == pc[t] = p
Goto(t, p) == pc' = [pc EXCEPT ![t] = p]
Results(t, res) == call' = [call EXCEPT ![t] = res]
In(place) == {t \in Thread : pc[t] = place}

-----------------------------------------------------------------------------
(* The simple lock.                                                        *)

\* Taking a free lock ends the primitive, except in the timeout path of
\* primitive_wait_for_notification_timed, which still holds nmutex.
Claim(t) == /\ locked' = TRUE
            /\ owner' = t
            /\ IF nmutex = t THEN Goto(t, "unlocking") /\ UNCHANGED <<call, owed>>
               ELSE Goto(t, "program") /\ Results(t, "OK") /\ owed' = owed \ {t}

\* The loop of primitive_wait_for_simple_lock(_timed).  A wait at the end of a
\* wait for the notification is never refused; see RelockNeverRefused.
LockLoop(t, how) ==
  /\ UNCHANGED nmutex
  /\ \/ ~locked /\ Claim(t)
     \/ /\ locked
        /\ owner # t \/ how = "lockTimed"
        /\ Goto(t, "asleep")
        /\ call' = [call EXCEPT ![t] = how]
        /\ UNCHANGED <<locked, owner, owed>>

WaitForLock(t) == /\ At(t, "program")
                  /\ \/ LockLoop(t, "lock")
                     \/ "lock" \in Timed /\ LockLoop(t, "lockTimed")

\* Only the untimed primitive looks for its caller as the owner.
WaitForOwnLock(t) == /\ At(t, "program")
                     /\ locked /\ owner = t
                     /\ Results(t, "ALREADY_LOCKED")
                     /\ UNCHANGED <<locked, owner, nmutex, pc, owed>>

Retry_nolock(t) == At(t, "awake") /\ Claim(t) /\ UNCHANGED nmutex
Retry(t) == At(t, "awake") /\ LockLoop(t, call[t])

SpuriousWakeup(t) == /\ \/ At(t, "asleep") /\ Goto(t, "awake")
                        \/ At(t, "waiting") /\ Goto(t, "notified")
                     /\ UNCHANGED <<locked, owner, nmutex, call, owed>>

\* ETIMEDOUT: the primitive returns TIMEOUT without looking at the lock again.
LockTimeout(t) == /\ At(t, "asleep") /\ call[t] = "lockTimed"
                  /\ Goto(t, "program") /\ Results(t, "TIMEOUT")
                  /\ UNCHANGED <<locked, owner, nmutex, owed>>

\* pthread_cond_signal: one of the sleepers, if there is one, wakes up; t goes
\* to the place p.
SignalOne_never(from, to, t, p) == Goto(t, p)
SignalOne(from, to, t, p) ==
  \/ In(from) = {} /\ Goto(t, p)
  \/ \E u \in In(from) : pc' = [pc EXCEPT ![u] = to, ![t] = p]

ReleaseOwned(t, p) == /\ locked /\ owner = t
                      /\ locked' = FALSE
                      /\ SignalOne("asleep", "awake", t, p)
                      /\ UNCHANGED owner

ReleaseLock(t) == /\ At(t, "program")
                  /\ \/ ReleaseOwned(t, "program") /\ Results(t, "OK")
                     \/ /\ ~(locked /\ owner = t)
                        /\ Results(t, "NOT_LOCKED")
                        /\ UNCHANGED <<locked, owner, pc>>
                  /\ UNCHANGED <<nmutex, owed>>

-----------------------------------------------------------------------------
(* The notification.                                                       *)

CallWait(t) == /\ At(t, "program")
               /\ Goto(t, "callWait")
               /\ \E how \in {"wait"} \cup (IF "wait" \in Timed THEN {"waitTimed"} ELSE {}) :
                     call' = [call EXCEPT ![t] = how]
               /\ UNCHANGED <<locked, owner, nmutex, owed>>

LockMutex_late(t) == /\ At(t, "callWait")
                     /\ Goto(t, "releasing")
                     /\ UNCHANGED <<locked, owner, nmutex, call, owed>>
LockMutex(t) == /\ At(t, "callWait") /\ nmutex = NoThread
                /\ nmutex' = t
                /\ Goto(t, "releasing")
                /\ UNCHANGED <<locked, owner, call, owed>>

ReleaseForWait_skipped(t) == /\ At(t, "releasing")
                             /\ Goto(t, "released")
                             /\ UNCHANGED <<locked, owner, nmutex, call, owed>>
ReleaseForWait(t) ==
  /\ At(t, "releasing")
  /\ \/ /\ ReleaseOwned(t, "released")
        /\ UNCHANGED <<nmutex, call, owed>>
     \/ /\ ~(locked /\ owner = t)      \* NOT_LOCKED: unlock the mutex and return
        /\ nmutex' = NoThread
        /\ Goto(t, "program") /\ Results(t, "NOT_LOCKED")
        /\ UNCHANGED <<locked, owner, owed>>

\* pthread_cond_wait gives the mutex up and goes to sleep in one step.
Sleep(t) == /\ At(t, "released")
            /\ nmutex' = NoThread
            /\ Goto(t, "waiting")
            /\ UNCHANGED <<locked, owner, call, owed>>

Expire(t) == /\ At(t, "waiting") /\ call[t] = "waitTimed"
             /\ Goto(t, "expired")
             /\ UNCHANGED <<locked, owner, nmutex, call, owed>>

\* Notified: pthread_cond_wait returns with the mutex, which is unlocked
\* before the simple lock is waited for.
NotifiedReturn_held(t) == /\ At(t, "notified") /\ nmutex = NoThread
                          /\ nmutex' = t
                          /\ Goto(t, "relock")
                          /\ UNCHANGED <<locked, owner, call, owed>>
NotifiedReturn(t) == /\ At(t, "notified") /\ nmutex = NoThread
                     /\ Goto(t, "relock")
                     /\ UNCHANGED <<locked, owner, nmutex, call, owed>>

\* Timed out: the mutex stays locked while the simple lock is waited for.
ExpiredReturn(t) == /\ At(t, "expired") /\ nmutex = NoThread
                    /\ nmutex' = t
                    /\ Goto(t, "relock")
                    /\ UNCHANGED <<locked, owner, call, owed>>

\* primitive_wait_for_simple_lock, called from either path.
Relock_ignored(t) == /\ At(t, "relock")
                     /\ Goto(t, "program") /\ Results(t, "OK")
                     /\ owed' = owed \ {t}
                     /\ nmutex' = IF nmutex = t THEN NoThread ELSE nmutex
                     /\ UNCHANGED <<locked, owner>>
Relock(t) == At(t, "relock") /\ LockLoop(t, call[t])

UnlockMutex(t) == /\ At(t, "unlocking")
                  /\ nmutex' = NoThread
                  /\ Goto(t, "program") /\ Results(t, "TIMEOUT")
                  /\ owed' = owed \ {t}
                  /\ UNCHANGED <<locked, owner>>

\* release and release-all; neither tests that the caller owns the lock.
CallRelease(t) == /\ At(t, "program")
                  /\ Goto(t, "callRelease") \/ Goto(t, "callReleaseAll")
                  /\ UNCHANGED <<locked, owner, nmutex, call, owed>>

Release(t) == /\ At(t, "callRelease") /\ nmutex = NoThread
              /\ SignalOne("waiting", "notified", t, "program") /\ Results(t, "OK")
              /\ UNCHANGED <<locked, owner, nmutex, owed>>

ReleaseAll(t) == /\ At(t, "callReleaseAll") /\ nmutex = NoThread
                 /\ pc' = [u \in Thread |-> IF u = t THEN "program"
                                            ELSE IF At(u, "waiting") THEN "notified" ELSE pc[u]]
                 /\ owed' = owed \cup In("waiting") \cup In("released")
                 /\ Results(t, "OK")
                 /\ UNCHANGED <<locked, owner, nmutex>>

-----------------------------------------------------------------------------
\* What t does by itself inside a primitive; the program decides the rest.
Step(t) == \/ Retry(t) \/ LockMutex(t) \/ ReleaseForWait(t) \/ Sleep(t)
           \/ NotifiedReturn(t) \/ ExpiredReturn(t) \/ Relock(t) \/ UnlockMutex(t)
           \/ Release(t) \/ ReleaseAll(t)

Next == \E t \in Thread :
          \/ Step(t)
          \/ WaitForLock(t) \/ WaitForOwnLock(t) \/ ReleaseLock(t) \/ CallWait(t) \/ CallRelease(t)
          \/ SpuriousWakeup(t) \/ LockTimeout(t) \/ Expire(t)

Spec == Init /\ [][Next]_vars

\* The operating system runs every thread that can move inside a primitive.
FairSpec == Spec /\ \A t \in Thread : WF_vars(Step(t))

-----------------------------------------------------------------------------
(* Properties.                                                             *)

\* Type correctness of the lock, of the notification and of the threads; the
\* notification's mutex is held exactly where the primitives hold it.
TypeOK == /\ locked \in BOOLEAN
          /\ owner \in Thread \cup {NoThread}
          /\ nmutex \in Thread \cup {NoThread}
          /\ pc \in [Thread -> Place]
          /\ call \in [Thread -> Call]
          /\ owed \subseteq Thread
          /\ \A t \in Thread : /\ pc[t] \in {"releasing", "released", "unlocking"} => nmutex = t
                               /\ nmutex = t => pc[t] \in {"releasing", "released", "unlocking",
                                                           "relock", "asleep", "awake"}

\* Giving up the lock and starting to wait is atomic with respect to
\* release-all: a thread addressed by one is never left asleep, even if the
\* release-all came between its releasing the lock and its pthread_cond_wait.
NoMissedNotification == \A t \in owed : ~At(t, "waiting")

\* The lock's own condition variable loses no signal: when the lock is free and
\* threads sleep on it, one of them has been woken to take it.
NoLostSignal == ~locked /\ In("asleep") # {} => In("awake") # {}

\* wait-for on a notification returns with the lock owned by the caller, whether
\* it was notified or timed out, unless it had not owned the lock to begin with.
WaitReturnsOwning ==
  [][\A t \in Thread :
       (call[t] \in {"wait", "waitTimed"} /\ call'[t] \in {"OK", "TIMEOUT"})
         => locked' /\ owner' = t]_vars

\* The owner of the lock changes only when the lock was free, and the step that
\* frees it is the owner's own release or the head of the owner's own wait: a
\* release or a wait of another thread is refused and leaves the lock alone.
OwnershipRespected ==
  [][locked => /\ owner' = owner
               /\ ~locked' => ReleaseLock(owner) \/ ReleaseForWait(owner)]_vars

\* primitive_wait_for_simple_lock, called to take the lock back at the end of a
\* wait, never finds it owned by its own caller: the timed primitive ignores
\* the ALREADY_LOCKED it would get, and the model has no action for it.
RelockNeverRefused == \A t \in Thread :
  (pc[t] \in {"relock", "asleep", "awake"} /\ call[t] # "lockTimed") => ~(locked /\ owner = t)

\* A thread that calls release or release-all while it owns the lock never
\* finds the notification's mutex held by a thread that waits for that lock:
\* neither could ever move again.
ReleaseNeverDeadlocks ==
  \A t \in Thread :
    (locked /\ owner = t /\ pc[t] \in {"callRelease", "callReleaseAll"} /\ nmutex # NoThread)
      => pc[nmutex] \notin {"relock", "asleep", "awake"}

\* Only a wait that has timed out can do that: a release with the lock held is
\* never held up for good by a wait that was notified or has just begun.
ReleaseBlockedByTimeoutOnly ==
  \A t \in Thread :
    (locked /\ owner = t /\ pc[t] \in {"callRelease", "callReleaseAll"} /\ nmutex # NoThread)
      => (pc[nmutex] \in {"relock", "asleep", "awake"} => call[nmutex] = "waitTimed")

\* A free lock with a thread asleep on it is taken again by somebody.
FreeLockTaken == (~locked /\ In("asleep") # {}) ~> locked

\* The notification's mutex is always given back by an untimed wait.
MutexGivenBack == \A t \in Thread : (nmutex = t /\ call[t] = "wait") ~> (nmutex # t)

\* What a caller of wait-for may rely on: it comes back owning the lock, nobody
\* had taken the lock from its owner meanwhile, and neither a free lock nor the
\* mutex of the notification is left to threads that sleep.
WaitContract ==
  WaitReturnsOwning /\ OwnershipRespected /\ FreeLockTaken /\ MutexGivenBack
=============================================================================
