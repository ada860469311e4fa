---------------------------- MODULE NativeMonitor ----------------------------
(***************************************************************************)
(* A simple lock and a notification in the runtimes of the C and HARP back *)
(* ends.  posix and unix keep a pthread mutex of the error-checking kind   *)
(* and a field with the owner; windows keeps a count of claims, a          *)
(* semaphore for the contended case and, for the notification, two         *)
(* manual-reset events.  Kernel calls are atomic; everything the code does *)
(* between two of them, or to a field other threads read, is a step.       *)
(***************************************************************************)
EXTENDS NativeThreads

CONSTANT LockCountBound   \* cap on lock_count, which timed-out waits inflate

VARIABLES slock,    \* the SIMPLELOCK: owner, mutex | lock_count, semaphore
          notif,    \* the NOTIFICATION: cond | the two events, target, count
          mpc,      \* where each thread is in the primitive it called
          after,    \* what a thread does once a lock operation is over
          timed,    \* whether the primitive under way has a timeout
          tmp,      \* the local of each thread (tmp1, or the count it read)
          claimed,  \* the program's view: threads told that they have the lock
          torn,     \* an increment of lock_count was overwritten
          unsure    \* history of posix: threads that since they recorded themselves
                    \*   as owner have waited for the notification, or had the
                    \*   lock when another thread's release was refused

monitorVars == <<slock, notif, mpc, after, timed, tmp, claimed, torn, unsure>>

(* make-simple-lock and make-notification.                                  *)
PosixMakeSimpleLock == [owner |-> NoThread, mutex |-> NoThread]
UnixMakeSimpleLock == [owner |-> NoThread, mutex |-> NoThread]
WindowsMakeSimpleLock == [owner |-> NoThread, lock_count |-> -1, semaphore |-> 0]
PosixMakeNotification == [cond |-> {}]
UnixMakeNotification == [cond |-> {}]
WindowsMakeNotification == [notifier |-> FALSE, anti_notifier |-> TRUE, target |-> 1, count |-> 0]

InitMonitor ==
  /\ slock = CASE Posix -> PosixMakeSimpleLock [] Unix -> UnixMakeSimpleLock
                [] Windows -> WindowsMakeSimpleLock
  /\ notif = CASE Posix -> PosixMakeNotification [] Unix -> UnixMakeNotification
                [] Windows -> WindowsMakeNotification
  /\ mpc = [t \in Threads |-> "dylan"]
  /\ after = [t \in Threads |-> "dylan"]
  /\ timed = [t \in Threads |-> FALSE]
  /\ tmp = [t \in Threads |-> 0]
  /\ claimed = {}
  /\ torn = FALSE
  /\ unsure = {}

Goto(t, l) == mpc' = [mpc EXCEPT ![t] = l]
Return(t) == /\ Goto(t, "dylan")
             /\ after' = [after EXCEPT ![t] = "dylan"]
             /\ timed' = [timed EXCEPT ![t] = FALSE]
             /\ tmp' = [tmp EXCEPT ![t] = 0]
Keep(t, v) == tmp' = [tmp EXCEPT ![t] = v]
Call(t, l, limit) == /\ mpc[t] = "dylan"
                     /\ Goto(t, l)
                     /\ timed' = [timed EXCEPT ![t] = limit]

------------------------------------------------------------------------------
(* The pthread mutex, external: an error-checking mutex refuses its holder. *)

TakeMutex(t) == slock.mutex = NoThread /\ slock' = [slock EXCEPT !.mutex = t]

ClaimMutex(t) ==
  /\ mpc[t] = "dylan"
  /\ TakeMutex(t)
  /\ Goto(t, "own")
  /\ UNCHANGED <<notif, after, timed, tmp, claimed, torn, unsure>>

PosixOwnedSimpleLock(t) == slock.owner = t
UnixOwnedSimpleLock(t) == slock.owner = t
WindowsOwnedSimpleLock(t) == slock.owner = t
OwnedSimpleLock(t) == \/ Posix /\ PosixOwnedSimpleLock(t)
                      \/ Unix /\ UnixOwnedSimpleLock(t)
                      \/ Windows /\ WindowsOwnedSimpleLock(t)

(* The last statement of every successful claim: the owner is recorded.     *)
OwnLock(t) ==
  /\ mpc[t] = "own"
  /\ slock' = [slock EXCEPT !.owner = t]
  /\ claimed' = claimed \cup {t}
  /\ unsure' = unsure \ {t}
  /\ Return(t)
  /\ UNCHANGED <<notif, torn>>
------------------------------------------------------------------------------
(* posix: wait-for and release of a simple lock.  A claim by the holder is  *)
(* refused by the mutex (ALREADY_LOCKED) and a timeout (TIMEOUT) changes    *)
(* nothing, so neither is a step.                                           *)

PosixWaitForSimpleLock(t) == Posix /\ ClaimMutex(t)
PosixWaitForSimpleLockTimed(t) == Posix /\ ClaimMutex(t)

(* The owner is forgotten before the mutex tells whether the caller had it. *)
PosixReleaseSimpleLock(t) ==
  /\ Posix /\ mpc[t] = "dylan"
  /\ slock' = [slock EXCEPT !.owner = NoThread]
  /\ unsure' = unsure \cup ({slock.mutex} \ {t, NoThread})
  /\ Goto(t, "unlock")
  /\ UNCHANGED <<notif, after, timed, tmp, claimed, torn>>

(* pthread_mutex_unlock: EPERM for a thread that is not the holder.         *)
UnlockMutex(t) ==
  /\ mpc[t] = "unlock"
  /\ slock' = IF slock.mutex = t THEN [slock EXCEPT !.mutex = NoThread] ELSE slock
  /\ claimed' = claimed \ {t}
  /\ Return(t)
  /\ UNCHANGED <<notif, torn, unsure>>
(* The owner field is not touched when the mutex is given up and retaken.   *)
PosixSleepOnCond(t, limit) ==
  /\ Posix /\ slock.mutex = t
  /\ Call(t, "asleep", limit)
  /\ slock' = [slock EXCEPT !.mutex = NoThread]
  /\ notif' = [notif EXCEPT !.cond = @ \cup {t}]
  /\ claimed' = claimed \ {t}
  /\ unsure' = unsure \cup {t}
  /\ UNCHANGED <<after, tmp, torn>>

PosixWaitForNotification(t) == PosixSleepOnCond(t, FALSE)
PosixWaitForNotificationTimed(t) == PosixSleepOnCond(t, TRUE)

PosixRetakeMutex(t) ==
  /\ Posix /\ mpc[t] = "awake"
  /\ TakeMutex(t)
  /\ claimed' = claimed \cup {t}
  /\ Return(t)
  /\ UNCHANGED <<notif, torn, unsure>>
(* Neither checks that the caller owns the lock.                            *)
SignalCond(t, woken) ==
  /\ mpc[t] = "dylan"
  /\ woken \subseteq notif.cond
  /\ notif' = [notif EXCEPT !.cond = @ \ woken]
  /\ mpc' = [u \in Threads |-> IF u \in woken THEN "awake" ELSE mpc[u]]
  /\ UNCHANGED <<slock, after, timed, tmp, claimed, torn, unsure>>

PosixReleaseNotification(t) == Posix /\ \E u \in notif.cond : SignalCond(t, {u})
PosixReleaseAllNotification(t) == Posix /\ notif.cond # {} /\ SignalCond(t, notif.cond)

(* A timed wait ends; pthreads may also wake any sleeper for no reason.     *)
WakeUp(t) ==
  /\ mpc[t] = "asleep"
  /\ notif' = [notif EXCEPT !.cond = @ \ {t}]
  /\ Goto(t, "awake")
  /\ UNCHANGED <<slock, after, timed, tmp, claimed, torn, unsure>>

------------------------------------------------------------------------------
(* unix: the owner field is tested first, dropped before the mutex is given *)
(* up and set again when it is retaken.                                     *)

UnixWaitForSimpleLock(t) == Unix /\ slock.owner # t /\ ClaimMutex(t)
UnixWaitForSimpleLockTimed(t) == Unix /\ slock.owner # t /\ ClaimMutex(t)

UnixReleaseSimpleLock(t) ==
  /\ Unix /\ mpc[t] = "dylan"
  /\ slock.owner = t
  /\ slock' = [slock EXCEPT !.owner = NoThread]
  /\ Goto(t, "unlock")
  /\ UNCHANGED <<notif, after, timed, tmp, claimed, torn, unsure>>

(* Mutant: the owner stays recorded while it sleeps.                        *)
UnixSleepOnCond_owner(t, limit) ==
  /\ Unix /\ slock.owner = t
  /\ Call(t, "asleep", limit)
  /\ slock' = [slock EXCEPT !.mutex = NoThread]
  /\ notif' = [notif EXCEPT !.cond = @ \cup {t}]
  /\ claimed' = claimed \ {t}
  /\ UNCHANGED <<after, tmp, torn, unsure>>

UnixSleepOnCond(t, limit) ==
  /\ Unix /\ slock.owner = t
  /\ Call(t, "asleep", limit)
  /\ slock' = [slock EXCEPT !.owner = NoThread, !.mutex = NoThread]
  /\ notif' = [notif EXCEPT !.cond = @ \cup {t}]
  /\ claimed' = claimed \ {t}
  /\ UNCHANGED <<after, tmp, torn, unsure>>

UnixWaitForNotification(t) == UnixSleepOnCond(t, FALSE)
UnixWaitForNotificationTimed(t) == UnixSleepOnCond(t, TRUE)

UnixRetakeMutex(t) ==
  /\ Unix /\ mpc[t] = "awake"
  /\ TakeMutex(t)
  /\ Goto(t, "own")
  /\ UNCHANGED <<notif, after, timed, tmp, claimed, torn, unsure>>

UnixReleaseNotification(t) ==
  Unix /\ slock.owner = t /\ \E u \in notif.cond : SignalCond(t, {u})

UnixReleaseAllNotification(t) ==
  Unix /\ slock.owner = t /\ notif.cond # {} /\ SignalCond(t, notif.cond)

------------------------------------------------------------------------------
(* windows: the simple lock.                                                *)

(* A claim counts itself first.  The first one has the lock; the owner      *)
(* undoes its increment; any other waits for the semaphore.                 *)
CountClaim(t) ==
  LET n == slock.lock_count + 1
  IN  /\ slock' = [slock EXCEPT !.lock_count = n]
      /\ Goto(t, IF n = 0 THEN "own" ELSE IF slock.owner = t THEN "recount" ELSE "semaphore")

WindowsClaim(t, limit) ==
  /\ Windows /\ mpc[t] = "dylan"
  /\ slock.lock_count < LockCountBound
  /\ CountClaim(t)
  /\ timed' = [timed EXCEPT ![t] = limit]
  /\ UNCHANGED <<notif, after, tmp, claimed, torn, unsure>>

WindowsWaitForSimpleLock(t) == WindowsClaim(t, FALSE)
WindowsWaitForSimpleLockTimed(t) == WindowsClaim(t, TRUE)

(* lock_count-- is a load and a store.                                      *)
WindowsLoadCount(t) ==
  /\ mpc[t] = "recount"
  /\ Keep(t, slock.lock_count)
  /\ Goto(t, "storecount")
  /\ UNCHANGED <<slock, notif, after, timed, claimed, torn, unsure>>

WindowsStoreCount(t) ==
  /\ mpc[t] = "storecount"
  /\ slock' = [slock EXCEPT !.lock_count = tmp[t] - 1]
  /\ torn' = (torn \/ slock.lock_count # tmp[t])
  /\ Return(t)
  /\ UNCHANGED <<notif, claimed, unsure>>
WindowsTakeUnit(t) ==
  /\ mpc[t] = "semaphore"
  /\ slock.semaphore = 1
  /\ slock' = [slock EXCEPT !.semaphore = 0]
  /\ Goto(t, "own")
  /\ UNCHANGED <<notif, after, timed, tmp, claimed, torn, unsure>>

(* A timed-out claim stays counted.                                         *)
WindowsSemaphoreTimeout(t) ==
  /\ mpc[t] = "semaphore" /\ timed[t]
  /\ Return(t)
  /\ UNCHANGED <<slock, notif, claimed, torn, unsure>>
ReleaseLockThen(t, next) ==
  /\ slock' = [slock EXCEPT !.owner = NoThread]
  /\ claimed' = claimed \ {t}
  /\ after' = [after EXCEPT ![t] = next]
  /\ Goto(t, "uncount")

WindowsReleaseSimpleLock(t) ==
  /\ Windows /\ mpc[t] = "dylan"
  /\ slock.owner = t
  /\ ReleaseLockThen(t, "dylan")
  /\ UNCHANGED <<notif, timed, tmp, torn, unsure>>

WindowsUncount(t) ==
  /\ mpc[t] = "uncount"
  /\ slock' = [slock EXCEPT !.lock_count = @ - 1]
  /\ Goto(t, IF slock.lock_count - 1 >= 0 THEN "post" ELSE after[t])
  /\ UNCHANGED <<notif, after, timed, tmp, claimed, torn, unsure>>

(* The semaphore has room for one unit: ReleaseSemaphore fails beyond it.   *)
WindowsPost(t) ==
  /\ mpc[t] = "post"
  /\ slock' = [slock EXCEPT !.semaphore = 1]
  /\ Goto(t, after[t])
  /\ UNCHANGED <<notif, after, timed, tmp, claimed, torn, unsure>>

------------------------------------------------------------------------------
(* windows: the notification.                                               *)

(* The caller owns the lock, so that no release is resetting the event      *)
(* between the wait for it and the increment.                               *)
WindowsAwait(t, limit) ==
  /\ Windows /\ slock.owner = t
  /\ Call(t, "antiwait", limit)
  /\ UNCHANGED <<slock, notif, after, tmp, claimed, torn, unsure>>

WindowsWaitForNotification(t) == WindowsAwait(t, FALSE)
WindowsWaitForNotificationTimed(t) == WindowsAwait(t, TRUE)

WindowsJoinWaiters(t) ==
  /\ mpc[t] = "antiwait"
  /\ notif.anti_notifier
  /\ notif' = [notif EXCEPT !.count = @ + 1]
  /\ ReleaseLockThen(t, "notifier")
  /\ UNCHANGED <<timed, tmp, torn, unsure>>

WindowsAntiTimeout(t) ==
  /\ mpc[t] = "antiwait" /\ timed[t]
  /\ Return(t)
  /\ UNCHANGED <<slock, notif, claimed, torn, unsure>>
WindowsSeeNotifier(t) ==
  /\ mpc[t] = "notifier"
  /\ notif.notifier
  /\ Goto(t, "exchange")
  /\ UNCHANGED <<slock, notif, after, timed, tmp, claimed, torn, unsure>>

(* Compare-exchange of the target: 0 is the single unit of a release, 1 is  *)
(* a release another thread took, -1 a release of all.                      *)
WindowsExchange(t) ==
  /\ mpc[t] = "exchange"
  /\ Keep(t, notif.target)
  /\ IF notif.target = 0 THEN notif' = [notif EXCEPT !.target = 1] ELSE UNCHANGED notif
  /\ Goto(t, IF notif.target = 1 THEN "notifier" ELSE "leave")
  /\ UNCHANGED <<slock, after, timed, claimed, torn, unsure>>

WindowsLeaveWaiters(t) ==
  /\ mpc[t] = "leave"
  /\ notif' = [notif EXCEPT !.count = @ - 1]
  /\ Goto(t, IF tmp[t] # -1 \/ notif.count - 1 <= 0 THEN "reset" ELSE "reclaim")
  /\ UNCHANGED <<slock, after, timed, tmp, claimed, torn, unsure>>

WindowsResetNotifier(t) ==
  /\ mpc[t] = "reset"
  /\ notif' = [notif EXCEPT !.notifier = FALSE]
  /\ Goto(t, "setanti")
  /\ UNCHANGED <<slock, after, timed, tmp, claimed, torn, unsure>>

WindowsSetAnti(t) ==
  /\ mpc[t] = "setanti"
  /\ notif' = [notif EXCEPT !.anti_notifier = TRUE]
  /\ Goto(t, "reclaim")
  /\ UNCHANGED <<slock, after, timed, tmp, claimed, torn, unsure>>

(* The lock is always reclaimed without a timeout.                          *)
WindowsReclaim(t) ==
  /\ mpc[t] = "reclaim"
  /\ CountClaim(t)
  /\ timed' = [timed EXCEPT ![t] = FALSE]
  /\ UNCHANGED <<notif, after, tmp, claimed, torn, unsure>>

(* Mutant: a wait that times out stays among the waiters.                   *)
WindowsNotifierTimeout_counted(t) ==
  /\ mpc[t] = "notifier" /\ timed[t]
  /\ Keep(t, notif.count)
  /\ Goto(t, "peek")
  /\ UNCHANGED <<slock, notif, after, timed, claimed, torn, unsure>>

WindowsNotifierTimeout(t) ==
  /\ mpc[t] = "notifier" /\ timed[t]
  /\ notif' = [notif EXCEPT !.count = @ - 1]
  /\ Keep(t, notif.count - 1)
  /\ Goto(t, "peek")
  /\ UNCHANGED <<slock, after, timed, claimed, torn, unsure>>

(* The last waiter to time out takes back a release nobody waits for.       *)
WindowsPeekNotifier(t) ==
  /\ mpc[t] = "peek"
  /\ Goto(t, IF notif.notifier /\ tmp[t] <= 0 THEN "reset" ELSE "reclaim")
  /\ UNCHANGED <<slock, notif, after, timed, tmp, claimed, torn, unsure>>

(* release (to = 0) and release-all (to = -1), by the owner of the lock.    *)
StartRelease(t, to) ==
  /\ Windows /\ slock.owner = t
  /\ Call(t, "release", FALSE)
  /\ Keep(t, to)
  /\ UNCHANGED <<slock, notif, after, claimed, torn, unsure>>

WindowsReleaseNotification(t) == StartRelease(t, 0)
WindowsReleaseAllNotification(t) == StartRelease(t, -1)

WindowsSetTarget(t) ==
  /\ mpc[t] = "release"
  /\ notif.anti_notifier
  /\ IF notif.count > 0
       THEN notif' = [notif EXCEPT !.target = tmp[t]] /\ Goto(t, "resetanti") /\ UNCHANGED <<after, timed, tmp>>
       ELSE UNCHANGED notif /\ Return(t)
  /\ UNCHANGED <<slock, claimed, torn, unsure>>

WindowsResetAnti(t) ==
  /\ mpc[t] = "resetanti"
  /\ notif' = [notif EXCEPT !.anti_notifier = FALSE]
  /\ Goto(t, "setnotifier")
  /\ UNCHANGED <<slock, after, timed, tmp, claimed, torn, unsure>>

WindowsSetNotifier(t) ==
  /\ mpc[t] = "setnotifier"
  /\ notif' = [notif EXCEPT !.notifier = TRUE]
  /\ Return(t)
  /\ UNCHANGED <<slock, claimed, torn, unsure>>
------------------------------------------------------------------------------
NextMonitor ==
  \E t \in Threads :
    \/ OwnLock(t) \/ UnlockMutex(t) \/ WakeUp(t)
    \/ PosixWaitForSimpleLock(t) \/ PosixWaitForSimpleLockTimed(t) \/ PosixReleaseSimpleLock(t)
    \/ PosixWaitForNotification(t) \/ PosixWaitForNotificationTimed(t) \/ PosixRetakeMutex(t)
    \/ PosixReleaseNotification(t) \/ PosixReleaseAllNotification(t)
    \/ UnixWaitForSimpleLock(t) \/ UnixWaitForSimpleLockTimed(t) \/ UnixReleaseSimpleLock(t)
    \/ UnixWaitForNotification(t) \/ UnixWaitForNotificationTimed(t) \/ UnixRetakeMutex(t)
    \/ UnixReleaseNotification(t) \/ UnixReleaseAllNotification(t)
    \/ WindowsWaitForSimpleLock(t) \/ WindowsWaitForSimpleLockTimed(t) \/ WindowsLoadCount(t) \/ WindowsStoreCount(t)
    \/ WindowsTakeUnit(t) \/ WindowsSemaphoreTimeout(t)
    \/ WindowsReleaseSimpleLock(t) \/ WindowsUncount(t) \/ WindowsPost(t)
    \/ WindowsWaitForNotification(t) \/ WindowsWaitForNotificationTimed(t) \/ WindowsJoinWaiters(t) \/ WindowsAntiTimeout(t)
    \/ WindowsSeeNotifier(t) \/ WindowsExchange(t) \/ WindowsLeaveWaiters(t)
    \/ WindowsResetNotifier(t) \/ WindowsSetAnti(t) \/ WindowsReclaim(t)
    \/ WindowsNotifierTimeout(t) \/ WindowsPeekNotifier(t)
    \/ WindowsReleaseNotification(t) \/ WindowsReleaseAllNotification(t)
    \/ WindowsSetTarget(t) \/ WindowsResetAnti(t) \/ WindowsSetNotifier(t)

------------------------------------------------------------------------------
(* The lock excludes: no two threads have been given it, through timed-out  *)
(* claims, refused claims of the owner and reclaims after a notification.   *)
SimpleLockExcludes == Cardinality(claimed) <= 1

(* primitive_owned_simple_lock agrees with the claims of the thread that    *)
(* asks, whatever the others are doing.  In posix, and there only, it also  *)
(* answers no to a thread that has the lock: after a wait for the           *)
(* notification, which does not record the owner again, and after the       *)
(* refused release of another thread, which forgets it.                     *)
OwnedTellsTruth ==
  \A t \in Threads : mpc[t] = "dylan" =>
    /\ OwnedSimpleLock(t) => t \in claimed
    /\ t \in claimed => OwnedSimpleLock(t) \/ (Posix /\ t \in unsure)

(* With it the assertion of the unix runtime, true of windows too, that     *)
(* nobody is recorded as owner when a claim or a wait has taken the lock.   *)
OwnerFollowsLock ==
  /\ OwnedTellsTruth
  /\ ~Posix => \A t \in Threads : mpc[t] = "own" => slock.owner = NoThread

(* A thread is left waiting for the semaphore of a free lock only if the    *)
(* unprotected decrement of a refused claim overwrote its increment.        *)
SleepersAreCounted ==
  Windows /\ (\E t \in Threads : mpc[t] = "semaphore") =>
    \/ torn \/ slock.semaphore = 1
    \/ \E t \in Threads : t \in claimed \/ mpc[t] \in {"own", "uncount", "post"}

(* The count by which a release decides whether anyone waits is the number  *)
(* of threads between joining and leaving the waiters, timeouts included.   *)
WaitersAreCounted ==
  Windows => notif.count = Cardinality({t \in Threads :
                   \/ mpc[t] \in {"uncount", "post"} /\ after[t] = "notifier"
                   \/ mpc[t] \in {"notifier", "exchange", "leave"}})

(* The lock has at most one holder, and its owner field follows the holder  *)
(* through claims, releases and waits for a notification: always in unix    *)
(* and windows, and in posix up to the first wait or refused release.       *)
LockAndOwnerAgree == SimpleLockExcludes /\ OwnerFollowsLock

(* Whoever sleeps in a simple lock or a notification of windows is counted  *)
(* by those who have to wake it.                                            *)
SleepersAndWaitersAreCounted == SleepersAreCounted /\ WaitersAreCounted
==============================================================================
