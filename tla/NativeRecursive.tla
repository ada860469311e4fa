--------------------------- MODULE NativeRecursive ---------------------------
(***************************************************************************)
(* A recursive lock in the runtimes of the C and HARP back ends.  posix    *)
(* keeps a recursive pthread mutex, a count and the last owner, unix an    *)
(* error-checking mutex with owner and recursion_count, windows a count of *)
(* claims, a semaphore, owner and recursion_count.                         *)
(***************************************************************************)
EXTENDS NativeThreads

CONSTANT DepthBound       \* cap on the claims a thread nests

VARIABLES rlock,    \* the RECURSIVELOCK
          rpc,      \* where each thread is in the primitive it called
          rheld     \* the program's view: claims each thread has been given

recursiveVars == <<rlock, rpc, rheld>>

PosixMakeRecursiveLock == [mutex |-> NoThread, depth |-> 0, count |-> 0, owner |-> NoThread]
UnixMakeRecursiveLock == [mutex |-> NoThread, recursion_count |-> 0, owner |-> NoThread]
WindowsMakeRecursiveLock ==
  [lock_count |-> -1, semaphore |-> 0, recursion_count |-> 0, owner |-> NoThread]

InitRecursive ==
  /\ rlock = CASE Posix -> PosixMakeRecursiveLock [] Unix -> UnixMakeRecursiveLock
                [] Windows -> WindowsMakeRecursiveLock
  /\ rpc = [t \in Threads |-> "dylan"]
  /\ rheld = [t \in Threads |-> 0]

PosixOwnedRecursiveLock(t) == rlock.owner = t /\ rlock.count # 0
UnixOwnedRecursiveLock(t) == rlock.owner = t
WindowsOwnedRecursiveLock(t) == rlock.owner = t
OwnedRecursiveLock(t) == \/ Posix /\ PosixOwnedRecursiveLock(t)
                         \/ Unix /\ UnixOwnedRecursiveLock(t)
                         \/ Windows /\ WindowsOwnedRecursiveLock(t)

At(t, l) == rpc[t] = l
GoOn(t, l) == rpc' = [rpc EXCEPT ![t] = l]
Given(t) == rheld' = [rheld EXCEPT ![t] = @ + 1]
Dropped(t) == rheld' = [rheld EXCEPT ![t] = @ - 1]

------------------------------------------------------------------------------
(* posix.  The mutex admits its holder again; count and owner follow it, so *)
(* that they lag behind in a claim and in a release.                        *)

ClaimRecursiveMutex(t) ==
  /\ At(t, "dylan") /\ rheld[t] < DepthBound
  /\ rlock.mutex \in {NoThread, t}
  /\ rlock' = [rlock EXCEPT !.mutex = t, !.depth = @ + 1]
  /\ GoOn(t, "count")
  /\ UNCHANGED rheld

PosixWaitForRecursiveLock(t) == Posix /\ ClaimRecursiveMutex(t)
PosixWaitForRecursiveLockTimed(t) == Posix /\ ClaimRecursiveMutex(t)

PosixCountClaim(t) ==
  /\ At(t, "count")
  /\ rlock' = [rlock EXCEPT !.count = @ + 1]
  /\ GoOn(t, "own")
  /\ UNCHANGED rheld

PosixOwnRecursiveLock(t) ==
  /\ Posix /\ At(t, "own")
  /\ rlock' = [rlock EXCEPT !.owner = t]
  /\ Given(t)
  /\ GoOn(t, "dylan")

PosixReleaseRecursiveLock(t) ==
  /\ Posix /\ At(t, "dylan")
  /\ rlock.mutex = t
  /\ rlock' = [rlock EXCEPT !.depth = @ - 1, !.mutex = IF rlock.depth = 1 THEN NoThread ELSE t]
  /\ Dropped(t)
  /\ GoOn(t, "discount")

PosixDiscountClaim(t) ==
  /\ At(t, "discount")
  /\ rlock' = [rlock EXCEPT !.count = @ - 1]
  /\ GoOn(t, "dylan")
  /\ UNCHANGED rheld

------------------------------------------------------------------------------
(* unix and windows: the owner counts its own claims.                       *)

NestClaim(t) ==
  /\ At(t, "dylan") /\ rheld[t] < DepthBound
  /\ rlock.owner = t
  /\ rlock' = [rlock EXCEPT !.recursion_count = @ + 1]
  /\ Given(t)
  /\ UNCHANGED rpc

FirstClaim(t) ==
  /\ rlock' = [rlock EXCEPT !.recursion_count = 1, !.owner = t]
  /\ Given(t)
  /\ GoOn(t, "dylan")

UnixClaimMutex(t) ==
  /\ At(t, "dylan") /\ rlock.owner # t
  /\ rlock.mutex = NoThread
  /\ rlock' = [rlock EXCEPT !.mutex = t]
  /\ GoOn(t, "own")
  /\ UNCHANGED rheld

UnixWaitForRecursiveLock(t) == Unix /\ (NestClaim(t) \/ UnixClaimMutex(t))
UnixWaitForRecursiveLockTimed(t) == Unix /\ (NestClaim(t) \/ UnixClaimMutex(t))
HarpOwnRecursiveLock(t) == ~Posix /\ At(t, "own") /\ FirstClaim(t)

(* Mutant: the first release gives the lock up.                             *)
LoseClaim_all(t, l) ==
  /\ At(t, "dylan") /\ rlock.owner = t
  /\ Dropped(t)
  /\ rlock' = [rlock EXCEPT !.recursion_count = 0, !.owner = NoThread]
  /\ GoOn(t, l)

LoseClaim(t, l) ==
  /\ At(t, "dylan") /\ rlock.owner = t
  /\ Dropped(t)
  /\ IF rlock.recursion_count = 1
       THEN rlock' = [rlock EXCEPT !.recursion_count = 0, !.owner = NoThread] /\ GoOn(t, l)
       ELSE rlock' = [rlock EXCEPT !.recursion_count = @ - 1] /\ UNCHANGED rpc

UnixReleaseRecursiveLock(t) == Unix /\ LoseClaim(t, "unlock")

UnixUnlockRecursiveLock(t) ==
  /\ At(t, "unlock")
  /\ rlock' = [rlock EXCEPT !.mutex = IF @ = t THEN NoThread ELSE @]
  /\ GoOn(t, "dylan")
  /\ UNCHANGED rheld

WindowsCountClaim(t, l) ==
  /\ At(t, "dylan") /\ rlock.owner # t
  /\ rlock.lock_count <= Cardinality(Threads)
  /\ rlock' = [rlock EXCEPT !.lock_count = @ + 1]
  /\ GoOn(t, IF rlock.lock_count = -1 THEN "own" ELSE l)
  /\ UNCHANGED rheld

WindowsWaitForRecursiveLock(t) == Windows /\ (NestClaim(t) \/ WindowsCountClaim(t, "wait"))
WindowsWaitForRecursiveLockTimed(t) == Windows /\ (NestClaim(t) \/ WindowsCountClaim(t, "timedwait"))

TakeUnit(t) ==
  /\ rlock.semaphore = 1
  /\ rlock' = [rlock EXCEPT !.semaphore = 0]
  /\ GoOn(t, "own")
  /\ UNCHANGED rheld

WindowsRecursiveInternal(t) == At(t, "wait") /\ TakeUnit(t)

(* A timeout leaves the claim counted.                                      *)
WindowsRecursiveTimedInternal(t) ==
  /\ At(t, "timedwait")
  /\ TakeUnit(t) \/ (GoOn(t, "dylan") /\ UNCHANGED <<rlock, rheld>>)

WindowsReleaseRecursiveLock(t) == Windows /\ LoseClaim(t, "discountclaim")

WindowsDiscountClaim(t) ==
  /\ At(t, "discountclaim")
  /\ rlock' = [rlock EXCEPT !.lock_count = @ - 1]
  /\ GoOn(t, IF rlock.lock_count >= 1 THEN "releaseunit" ELSE "dylan")
  /\ UNCHANGED rheld

WindowsReleaseRecursiveInternal(t) ==
  /\ At(t, "releaseunit")
  /\ rlock' = [rlock EXCEPT !.semaphore = 1]
  /\ GoOn(t, "dylan")
  /\ UNCHANGED rheld

NextRecursive ==
  \E t \in Threads :
    \/ PosixWaitForRecursiveLock(t) \/ PosixWaitForRecursiveLockTimed(t)
    \/ PosixCountClaim(t) \/ PosixOwnRecursiveLock(t)
    \/ PosixReleaseRecursiveLock(t) \/ PosixDiscountClaim(t)
    \/ UnixWaitForRecursiveLock(t) \/ UnixWaitForRecursiveLockTimed(t)
    \/ HarpOwnRecursiveLock(t) \/ UnixReleaseRecursiveLock(t) \/ UnixUnlockRecursiveLock(t)
    \/ WindowsWaitForRecursiveLock(t) \/ WindowsWaitForRecursiveLockTimed(t)
    \/ WindowsRecursiveInternal(t) \/ WindowsRecursiveTimedInternal(t)
    \/ WindowsReleaseRecursiveLock(t) \/ WindowsDiscountClaim(t)
    \/ WindowsReleaseRecursiveInternal(t)

------------------------------------------------------------------------------
(* One thread at a time has claims of the lock, and it has as many as the   *)
(* lock counts once no primitive is under way, so that the lock is passed   *)
(* on by the last release and not before (the asserts of the unix runtime   *)
(* on recursion_count are part of this); primitive_owned_recursive_lock     *)
(* tells the thread that has it so.  In the HARP runtimes no other thread   *)
(* is told so; in posix the last owner is too, while another thread has     *)
(* counted its claim and not yet recorded itself.                           *)
RecursiveLockExcludes ==
  /\ \A t, u \in Threads : (rheld[t] > 0 /\ rheld[u] > 0) => t = u
  /\ \A t \in Threads : At(t, "own") => \A u \in Threads \ {t} : rheld[u] = 0
  /\ (\A t \in Threads : At(t, "dylan")) =>
        LET n == IF Posix THEN rlock.count ELSE rlock.recursion_count
        IN  IF n = 0 THEN \A t \in Threads : rheld[t] = 0
                     ELSE \E t \in Threads : rheld[t] = n
  /\ \A t \in Threads : At(t, "dylan") =>
        /\ rheld[t] > 0 => OwnedRecursiveLock(t)
        /\ ~Posix /\ OwnedRecursiveLock(t) => rheld[t] > 0

(* No thread is left waiting for the semaphore of a free recursive lock:    *)
(* claims that timed out stay counted, but every release then posts a unit. *)
RecursiveSleepersAreWoken ==
  Windows /\ (\E t \in Threads : At(t, "wait")) =>
    \/ rlock.semaphore = 1
    \/ \E t \in Threads : rheld[t] > 0 \/ rpc[t] \in {"own", "discountclaim", "releaseunit"}

(* Both: the recursive lock has one owner, and whoever waits for it is      *)
(* passed it by a release.                                                  *)
RecursiveLockIsPassedOn == RecursiveLockExcludes /\ RecursiveSleepersAreWoken
==============================================================================
