------------------------- MODULE NativeThreadsProofs -------------------------
(***************************************************************************)
(* The thread runtimes of the C and HARP back ends are correct for any     *)
(* finite set of threads and any values of the bounds.  Each component has *)
(* an inductive invariant for each of the three runtimes that implement    *)
(* it; a step of another component leaves its variables alone.             *)
(***************************************************************************)
EXTENDS MCNativeThreads, FiniteSetTheorems, TLAPS

\* A step of the composition is a step of the component or leaves it as it is.
LEMMA RecursiveFrame ==
  [Next]_vars => /\ UNCHANGED runtime
                 /\ NextRecursive \/ UNCHANGED recursiveVars
  BY DEF Next, vars, recursiveVars

LEMMA JoinFrame ==
  [Next]_vars => UNCHANGED runtime /\ (NextJoin \/ UNCHANGED joinVars)
  BY DEF Next, vars, joinVars

LEMMA SemaphoreFrame ==
  [Next]_vars => UNCHANGED runtime /\ (NextNativeSemaphore \/ UNCHANGED nsemVars)
  BY DEF Next, vars, nsemVars

LEMMA MonitorFrame ==
  [Next]_vars => UNCHANGED runtime /\ (NextMonitor \/ UNCHANGED monitorVars)
  BY DEF Next, vars, monitorVars

\* A set of threads is finite, and a thread changes its size by one.
LEMMA Counting ==
  ASSUME NEW S \in SUBSET Threads
  PROVE  /\ IsFiniteSet(S) /\ Cardinality(S) \in Nat
         /\ Cardinality(S) = 0 <=> S = {}
         /\ \A t \in Threads \ S : Cardinality(S \cup {t}) = Cardinality(S) + 1
         /\ \A t \in S : Cardinality(S \ {t}) = Cardinality(S) - 1
<1>1. IsFiniteSet(S)
  BY NativeThreadsAssumption, FS_Subset
<1>2. \A t \in Threads \ S : Cardinality(S \cup {t}) = Cardinality(S) + 1
  BY <1>1, FS_AddElement
<1>3. \A t \in S : Cardinality(S \ {t}) = Cardinality(S) - 1
  BY <1>1, FS_RemoveElement
<1> QED
  BY <1>1, <1>2, <1>3, FS_CardinalityType, FS_EmptySet

-----------------------------------------------------------------------------
(* Recursive locks.                                                        *)

Owner == Threads \cup {NoThread}

RecursivePlaces == CASE Posix   -> {"dylan", "count", "own", "discount"}
                     [] Unix    -> {"dylan", "own", "unlock"}
                     [] Windows -> {"dylan", "own", "wait", "timedwait",
                                    "discountclaim", "releaseunit"}

RecursiveType == /\ rpc \in [Threads -> RecursivePlaces]
                 /\ rheld \in [Threads -> Nat]

\* posix: the depth of the mutex is what its holder has been given and is about to be
\* given, and the count lags behind by the claims and releases not yet counted.
Uncounted == {t \in Threads : rpc[t] = "discount"}
Pending(t) == IF rpc[t] \in {"count", "own"} THEN 1 ELSE 0
PosixLock == [mutex : Owner, depth : Nat, count : Nat, owner : Owner]
PosixCounts == rlock.count + (IF \E t \in Threads : rpc[t] = "count" THEN 1 ELSE 0)
                 = rlock.depth + Cardinality(Uncounted)
PosixHolder(t) == /\ rheld[t] + Pending(t) = IF rlock.mutex = t THEN rlock.depth ELSE 0
                  /\ rheld[t] > 0 => rlock.owner = t
                  /\ rlock.mutex = t => rlock.depth > 0
PosixRecursiveInv == /\ rlock \in PosixLock
                     /\ rlock.mutex = NoThread => rlock.depth = 0
                     /\ PosixCounts
                     /\ \A t \in Threads : PosixHolder(t)

\* unix and windows: the owner has been given as many claims as are counted, and
\* everybody else none.
OwnerCounts(t) == /\ rheld[t] = IF rlock.owner = t THEN rlock.recursion_count ELSE 0
                  /\ rlock.owner = t => rpc[t] = "dylan"
FreeIsUncounted == rlock.owner = NoThread <=> rlock.recursion_count = 0

\* unix: a thread between the mutex and the owner field is alone there.
UnixLock == [mutex : Owner, recursion_count : Nat, owner : Owner]
UnixHolder(t) == /\ rlock.mutex = t <=> rlock.owner = t \/ rpc[t] \in {"own", "unlock"}
                 /\ rpc[t] \in {"own", "unlock"} => rlock.owner = NoThread
UnixRecursiveInv == /\ rlock \in UnixLock
                    /\ FreeIsUncounted
                    /\ \A t \in Threads : OwnerCounts(t) /\ UnixHolder(t)

\* windows: the lock is free, in the hands of one thread or in the semaphore; and every
\* claim that has not timed out is in the count.
Busy(t) == rlock.owner = t \/ rpc[t] \in {"own", "discountclaim", "releaseunit"}
Counted == {t \in Threads : \/ rlock.owner = t
                            \/ rpc[t] \in {"own", "wait", "timedwait", "discountclaim"}}
WindowsLock == [lock_count : Int, semaphore : {0, 1}, recursion_count : Nat, owner : Owner]
OneBusy == \A t, u \in Threads : Busy(t) /\ Busy(u) => t = u
BusyOrPosted == /\ rlock.semaphore = 1 => \A t \in Threads : ~Busy(t)
                /\ rlock.lock_count = -1 <=> rlock.semaphore = 0 /\ \A t \in Threads : ~Busy(t)
ClaimsCounted == rlock.lock_count >= -1 /\ Cardinality(Counted) <= rlock.lock_count + 1
WindowsRecursiveInv == /\ rlock \in WindowsLock
                       /\ FreeIsUncounted
                       /\ \A t \in Threads : OwnerCounts(t)
                       /\ OneBusy /\ BusyOrPosted /\ ClaimsCounted

RecursiveInv == /\ runtime \in {"posix", "unix", "windows"}
                /\ RecursiveType
                /\ Posix => PosixRecursiveInv
                /\ Unix => UnixRecursiveInv
                /\ Windows => WindowsRecursiveInv

LEMMA PosixRecursiveStep ==
  ASSUME Posix, Posix', RecursiveType, PosixRecursiveInv, NextRecursive
  PROVE  RecursiveType' /\ PosixRecursiveInv'
<1> USE NativeThreadsAssumption
<1> DEFINE U == Cardinality(Uncounted)
           n == rlock.depth
<1>0. /\ runtime = "posix" /\ runtime' = "posix"
      /\ RecursivePlaces = {"dylan", "count", "own", "discount"}
      /\ RecursivePlaces' = {"dylan", "count", "own", "discount"}
  BY DEF Posix, Unix, Windows, RecursivePlaces
<1>1. /\ U \in Nat /\ Uncounted \in SUBSET Threads
      /\ rpc \in [Threads -> {"dylan", "count", "own", "discount"}]
      /\ rheld \in [Threads -> Nat] /\ n \in Nat /\ rlock.count \in Nat
      /\ rlock \in PosixLock /\ PosixCounts /\ \A u \in Threads : PosixHolder(u)
  BY <1>0, Counting DEF Uncounted, RecursiveType, PosixRecursiveInv, PosixLock
<1>2. PICK t \in Threads :
        ClaimRecursiveMutex(t) \/ PosixCountClaim(t) \/ PosixOwnRecursiveLock(t)
        \/ PosixReleaseRecursiveLock(t) \/ PosixDiscountClaim(t)
  BY <1>0, <1>1 DEF NextRecursive, PosixWaitForRecursiveLock,
     PosixWaitForRecursiveLockTimed, UnixWaitForRecursiveLock, UnixWaitForRecursiveLockTimed,
     HarpOwnRecursiveLock, UnixReleaseRecursiveLock, UnixUnlockRecursiveLock,
     WindowsWaitForRecursiveLock, WindowsWaitForRecursiveLockTimed, WindowsRecursiveInternal,
     WindowsRecursiveTimedInternal, WindowsReleaseRecursiveLock, WindowsDiscountClaim,
     WindowsReleaseRecursiveInternal, At, Posix, Unix, Windows
\* The holder is alone inside a claim, and has been given what the mutex has counted.
<1>3. ASSUME NEW u \in Threads, rlock.mutex \in {NoThread, u}
      PROVE  /\ rheld[u] + Pending(u) = n
             /\ \A w \in Threads \ {u} : rheld[w] = 0 /\ rpc[w] \notin {"count", "own"}
  BY <1>1, <1>3 DEF PosixRecursiveInv, PosixHolder, Pending
<1>4. CASE ClaimRecursiveMutex(t)
  <2>1. /\ rlock' = [rlock EXCEPT !.mutex = t, !.depth = @ + 1] /\ rheld' = rheld
        /\ rpc' = [rpc EXCEPT ![t] = "count"] /\ rpc[t] = "dylan"
        /\ rlock.mutex \in {NoThread, t}
    BY <1>4 DEF ClaimRecursiveMutex, GoOn, At
  <2>2. RecursiveType' /\ Uncounted' = Uncounted
    BY <1>0, <1>1, <2>1 DEF RecursiveType, Uncounted
  <2>3. /\ rlock' \in PosixLock /\ rlock'.mutex = t /\ rlock'.depth = n + 1
        /\ rlock'.count = rlock.count /\ rlock'.owner = rlock.owner
    <3>1. /\ t \in Owner /\ n + 1 \in Nat /\ rlock \in PosixLock
      BY <1>1 DEF Owner
    <3> QED
      BY <2>1, <3>1 DEF PosixLock
  <2>4. PosixCounts'
    BY <1>1, <1>3, <2>1, <2>2, <2>3 DEF PosixCounts
  <2>5. \A u \in Threads : PosixHolder(u)'
    BY <1>1, <1>3, <2>1, <2>3 DEF PosixHolder, Pending
  <2> QED
    BY <2>2, <2>3, <2>4, <2>5 DEF PosixRecursiveInv
<1>5. CASE PosixCountClaim(t)
  <2>1. /\ rlock' = [rlock EXCEPT !.count = @ + 1] /\ rheld' = rheld
        /\ rpc' = [rpc EXCEPT ![t] = "own"] /\ rpc[t] = "count"
    BY <1>5 DEF PosixCountClaim, GoOn, At
  <2>2. RecursiveType' /\ Uncounted' = Uncounted
    BY <1>0, <1>1, <2>1 DEF RecursiveType, Uncounted
  <2>3. /\ rlock' \in PosixLock /\ rlock'.mutex = rlock.mutex /\ rlock'.depth = n
        /\ rlock'.count = rlock.count + 1 /\ rlock'.owner = rlock.owner
    BY <1>1, <2>1 DEF PosixLock
  <2>4. rlock.mutex = t
    BY <1>1, <2>1 DEF PosixHolder, Pending
  <2>5. PosixCounts'
    BY <1>1, <1>3, <2>1, <2>2, <2>3, <2>4 DEF PosixCounts
  <2>6. \A u \in Threads : PosixHolder(u)'
    BY <1>1, <2>1, <2>3 DEF PosixHolder, Pending
  <2> QED
    BY <2>2, <2>3, <2>4, <2>5, <2>6 DEF PosixRecursiveInv
<1>6. CASE PosixOwnRecursiveLock(t)
  <2>1. /\ rlock' = [rlock EXCEPT !.owner = t] /\ rheld' = [rheld EXCEPT ![t] = @ + 1]
        /\ rpc' = [rpc EXCEPT ![t] = "dylan"] /\ rpc[t] = "own"
    BY <1>6 DEF PosixOwnRecursiveLock, GoOn, Given, At
  <2>2. RecursiveType' /\ Uncounted' = Uncounted
    BY <1>0, <1>1, <2>1 DEF RecursiveType, Uncounted
  <2>3. /\ rlock' \in PosixLock /\ rlock'.mutex = rlock.mutex /\ rlock'.depth = n
        /\ rlock'.count = rlock.count /\ rlock'.owner = t
    BY <1>1, <2>1 DEF PosixLock, Owner
  <2>4. rlock.mutex = t
    BY <1>1, <2>1 DEF PosixHolder, Pending
  <2>5. PosixCounts'
    BY <1>1, <2>1, <2>2, <2>3 DEF PosixCounts
  <2>6. \A u \in Threads : PosixHolder(u)'
    BY <1>1, <1>3, <2>1, <2>3, <2>4 DEF PosixHolder, Pending
  <2> QED
    BY <2>2, <2>3, <2>4, <2>5, <2>6 DEF PosixRecursiveInv
<1>7. CASE PosixReleaseRecursiveLock(t)
  <2>1. /\ rlock' = [rlock EXCEPT !.depth = @ - 1, !.mutex = IF n = 1 THEN NoThread ELSE t]
        /\ rheld' = [rheld EXCEPT ![t] = @ - 1]
        /\ rpc' = [rpc EXCEPT ![t] = "discount"] /\ rpc[t] = "dylan" /\ rlock.mutex = t
    BY <1>7 DEF PosixReleaseRecursiveLock, GoOn, Dropped, At
  <2>2. rheld[t] = n /\ n > 0
    BY <1>1, <2>1 DEF PosixHolder, Pending
  <2>3. RecursiveType' /\ Uncounted' = Uncounted \cup {t} /\ t \notin Uncounted
    BY <1>0, <1>1, <2>1, <2>2 DEF RecursiveType, Uncounted
  <2>4. Cardinality(Uncounted') = U + 1
    BY <1>1, <2>3, Counting
  <2>5. /\ rlock' \in PosixLock /\ rlock'.mutex = (IF n = 1 THEN NoThread ELSE t)
        /\ rlock'.depth = n - 1 /\ rlock'.count = rlock.count /\ rlock'.owner = rlock.owner
    <3>1. /\ (IF n = 1 THEN NoThread ELSE t) \in Owner /\ n - 1 \in Nat /\ rlock \in PosixLock
      BY <1>1, <2>2 DEF Owner
    <3> QED
      BY <2>1, <3>1 DEF PosixLock
  <2>6. PosixCounts'
    BY <1>1, <1>3, <2>1, <2>4, <2>5 DEF PosixCounts
  <2>7. \A u \in Threads : PosixHolder(u)'
    BY <1>1, <1>3, <2>1, <2>2, <2>5 DEF PosixHolder, Pending
  <2> QED
    BY <1>1, <2>2, <2>3, <2>5, <2>6, <2>7 DEF PosixRecursiveInv
<1>8. CASE PosixDiscountClaim(t)
  <2>1. /\ rlock' = [rlock EXCEPT !.count = @ - 1] /\ rheld' = rheld
        /\ rpc' = [rpc EXCEPT ![t] = "dylan"] /\ rpc[t] = "discount"
    BY <1>8 DEF PosixDiscountClaim, GoOn, At
  <2>2. RecursiveType' /\ Uncounted' = Uncounted \ {t} /\ t \in Uncounted
    BY <1>0, <1>1, <2>1 DEF RecursiveType, Uncounted
  <2>3. Cardinality(Uncounted') = U - 1 /\ U > 0
    BY <1>1, <2>2, Counting
  <2>4. n > 0 \/ \A u \in Threads : rpc[u] # "count"
    BY <1>1 DEF PosixHolder, Pending
  <2>5. rlock.count > 0
    BY <1>1, <2>3, <2>4 DEF PosixCounts
  <2>6. /\ rlock' \in PosixLock /\ rlock'.mutex = rlock.mutex /\ rlock'.depth = n
        /\ rlock'.count = rlock.count - 1 /\ rlock'.owner = rlock.owner
    BY <1>1, <2>1, <2>5 DEF PosixLock
  <2>7. PosixCounts'
    BY <1>1, <2>1, <2>3, <2>6 DEF PosixCounts
  <2>8. \A u \in Threads : PosixHolder(u)'
    BY <1>1, <2>1, <2>6 DEF PosixHolder, Pending
  <2> QED
    BY <2>2, <2>6, <2>7, <2>8 DEF PosixRecursiveInv
<1> QED
  BY <1>2, <1>4, <1>5, <1>6, <1>7, <1>8

LEMMA UnixRecursiveStep ==
  ASSUME Unix, Unix', RecursiveType, UnixRecursiveInv, NextRecursive
  PROVE  RecursiveType' /\ UnixRecursiveInv'
<1> USE NativeThreadsAssumption
<1> DEFINE n == rlock.recursion_count
<1>0. /\ runtime = "unix" /\ runtime' = "unix"
      /\ RecursivePlaces = {"dylan", "own", "unlock"}
      /\ RecursivePlaces' = {"dylan", "own", "unlock"}
  BY DEF Posix, Unix, Windows, RecursivePlaces
<1>1. /\ rpc \in [Threads -> {"dylan", "own", "unlock"}]
      /\ rheld \in [Threads -> Nat] /\ n \in Nat
      /\ rlock \in UnixLock /\ FreeIsUncounted /\ \A u \in Threads : OwnerCounts(u) /\ UnixHolder(u)
  BY <1>0 DEF RecursiveType, UnixRecursiveInv, UnixLock
<1>2. PICK t \in Threads :
        NestClaim(t) \/ UnixClaimMutex(t) \/ (At(t, "own") /\ FirstClaim(t))
        \/ LoseClaim(t, "unlock") \/ UnixUnlockRecursiveLock(t)
  BY <1>0, <1>1 DEF NextRecursive, PosixWaitForRecursiveLock,
     PosixWaitForRecursiveLockTimed, PosixCountClaim, PosixOwnRecursiveLock,
     PosixReleaseRecursiveLock, PosixDiscountClaim, UnixWaitForRecursiveLock,
     UnixWaitForRecursiveLockTimed, HarpOwnRecursiveLock, UnixReleaseRecursiveLock,
     WindowsWaitForRecursiveLock, WindowsWaitForRecursiveLockTimed, WindowsRecursiveInternal,
     WindowsRecursiveTimedInternal, WindowsReleaseRecursiveLock, WindowsDiscountClaim,
     WindowsReleaseRecursiveInternal, At, Posix, Unix, Windows
<1>3. CASE NestClaim(t)
  <2>1. /\ rlock' = [rlock EXCEPT !.recursion_count = @ + 1] /\ rlock.owner = t
        /\ rheld' = [rheld EXCEPT ![t] = @ + 1] /\ rpc' = rpc
    BY <1>3 DEF NestClaim, Given
  <2>2. /\ rlock' \in UnixLock /\ rlock'.mutex = rlock.mutex /\ rlock'.owner = t
        /\ rlock'.recursion_count = n + 1
    BY <1>1, <2>1 DEF UnixLock
  <2> QED
    BY <1>0, <1>1, <2>1, <2>2 DEF UnixRecursiveInv, FreeIsUncounted, OwnerCounts, UnixHolder,
                                  RecursiveType
<1>4. CASE UnixClaimMutex(t)
  <2>1. /\ rlock' = [rlock EXCEPT !.mutex = t] /\ rlock.mutex = NoThread
        /\ rheld' = rheld /\ rpc' = [rpc EXCEPT ![t] = "own"] /\ rpc[t] = "dylan"
    BY <1>4 DEF UnixClaimMutex, GoOn, At
  <2>2. /\ rlock' \in UnixLock /\ rlock'.mutex = t /\ rlock'.owner = rlock.owner
        /\ rlock'.recursion_count = n
    BY <1>1, <2>1 DEF UnixLock, Owner
  <2>3. rlock.owner = NoThread
    BY <1>1, <2>1 DEF UnixHolder, UnixLock, Owner
  <2> QED
    BY <1>0, <1>1, <2>1, <2>2, <2>3 DEF UnixRecursiveInv, FreeIsUncounted, OwnerCounts,
                                       UnixHolder, RecursiveType
<1>5. CASE At(t, "own") /\ FirstClaim(t)
  <2>1. /\ rlock' = [rlock EXCEPT !.recursion_count = 1, !.owner = t]
        /\ rpc' = [rpc EXCEPT ![t] = "dylan"] /\ rpc[t] = "own"
        /\ rheld' = [rheld EXCEPT ![t] = @ + 1]
    BY <1>5 DEF FirstClaim, GoOn, Given, At
  <2>2. /\ rlock' \in UnixLock /\ rlock'.owner = t /\ rlock'.recursion_count = 1
        /\ rlock'.mutex = rlock.mutex
    BY <1>1, <2>1 DEF UnixLock, Owner
  <2>3. /\ rlock.owner = NoThread /\ rlock.mutex = t
        /\ \A u \in Threads : rheld[u] = 0 /\ (rpc[u] \in {"own", "unlock"} => u = t)
    BY <1>1, <2>1 DEF OwnerCounts, UnixHolder, FreeIsUncounted
  <2>4. \A u \in Threads : OwnerCounts(u)' /\ UnixHolder(u)'
    BY <1>1, <2>1, <2>2, <2>3 DEF OwnerCounts, UnixHolder
  <2>5. FreeIsUncounted' /\ RecursiveType'
    BY <1>0, <1>1, <2>1, <2>2 DEF FreeIsUncounted, RecursiveType
  <2> QED
    BY <2>2, <2>4, <2>5 DEF UnixRecursiveInv
<1>6. CASE LoseClaim(t, "unlock")
  <2>1. /\ rlock.owner = t /\ rlock.mutex = t /\ rheld[t] = n /\ n > 0 /\ rpc[t] = "dylan"
        /\ \A u \in Threads \ {t} : rheld[u] = 0 /\ rpc[u] \notin {"own", "unlock"}
        /\ rheld' = [rheld EXCEPT ![t] = @ - 1]
    BY <1>1, <1>6 DEF LoseClaim, Dropped, At, OwnerCounts, UnixHolder, FreeIsUncounted
  <2>2. CASE n = 1
    <3>1. /\ rlock' = [rlock EXCEPT !.recursion_count = 0, !.owner = NoThread]
          /\ rpc' = [rpc EXCEPT ![t] = "unlock"]
      BY <1>6, <2>2 DEF LoseClaim, GoOn
    <3>2. /\ rlock' \in UnixLock /\ rlock'.owner = NoThread /\ rlock'.recursion_count = 0
          /\ rlock'.mutex = t
      BY <1>1, <2>1, <3>1 DEF UnixLock, Owner
    <3>3. \A u \in Threads : OwnerCounts(u)' /\ UnixHolder(u)'
      BY <1>1, <2>1, <2>2, <3>1, <3>2 DEF OwnerCounts, UnixHolder
    <3>4. FreeIsUncounted' /\ RecursiveType'
      BY <1>0, <1>1, <2>1, <3>1, <3>2 DEF FreeIsUncounted, RecursiveType
    <3> QED
      BY <3>2, <3>3, <3>4 DEF UnixRecursiveInv
  <2>3. CASE n # 1
    <3>1. rlock' = [rlock EXCEPT !.recursion_count = @ - 1] /\ rpc' = rpc
      BY <1>6, <2>3 DEF LoseClaim
    <3>2. /\ rlock' \in UnixLock /\ rlock'.owner = t /\ rlock'.recursion_count = n - 1
          /\ rlock'.mutex = t
      BY <1>1, <2>1, <3>1 DEF UnixLock
    <3>3. \A u \in Threads : OwnerCounts(u)' /\ UnixHolder(u)'
      BY <1>1, <2>1, <3>1, <3>2 DEF OwnerCounts, UnixHolder
    <3>4. FreeIsUncounted' /\ RecursiveType'
      BY <1>0, <1>1, <2>1, <2>3, <3>1, <3>2 DEF FreeIsUncounted, RecursiveType
    <3> QED
      BY <3>2, <3>3, <3>4 DEF UnixRecursiveInv
  <2> QED
    BY <2>2, <2>3
<1>7. CASE UnixUnlockRecursiveLock(t)
  <2>1. /\ rlock' = [rlock EXCEPT !.mutex = IF @ = t THEN NoThread ELSE @]
        /\ rheld' = rheld /\ rpc' = [rpc EXCEPT ![t] = "dylan"] /\ rpc[t] = "unlock"
    BY <1>7 DEF UnixUnlockRecursiveLock, GoOn, At
  <2>2. rlock.mutex = t /\ rlock.owner = NoThread
    BY <1>1, <2>1 DEF UnixHolder
  <2>3. /\ rlock' \in UnixLock /\ rlock'.mutex = NoThread /\ rlock'.owner = NoThread
        /\ rlock'.recursion_count = n
    BY <1>1, <2>1, <2>2 DEF UnixLock, Owner
  <2>4. \A u \in Threads : OwnerCounts(u)' /\ UnixHolder(u)'
    BY <1>1, <2>1, <2>2, <2>3 DEF OwnerCounts, UnixHolder
  <2>5. FreeIsUncounted' /\ RecursiveType'
    BY <1>0, <1>1, <2>1, <2>2, <2>3 DEF FreeIsUncounted, RecursiveType
  <2> QED
    BY <2>3, <2>4, <2>5 DEF UnixRecursiveInv
<1> QED
  BY <1>2, <1>3, <1>4, <1>5, <1>6, <1>7

LEMMA WindowsRecursiveStep ==
  ASSUME Windows, Windows', RecursiveType, WindowsRecursiveInv, NextRecursive
  PROVE  RecursiveType' /\ WindowsRecursiveInv'
<1> USE NativeThreadsAssumption
<1> DEFINE P == {"dylan", "own", "wait", "timedwait", "discountclaim", "releaseunit"}
           n == rlock.recursion_count
           c == rlock.lock_count
<1>0. /\ runtime = "windows" /\ runtime' = "windows" /\ RecursivePlaces = P /\ RecursivePlaces' = P
  BY DEF Posix, Unix, Windows, RecursivePlaces
<1>1. /\ rpc \in [Threads -> P] /\ rheld \in [Threads -> Nat]
      /\ n \in Nat /\ c \in Int /\ c >= -1 /\ rlock.semaphore \in {0, 1}
      /\ Counted \in SUBSET Threads /\ Cardinality(Counted) \in Nat /\ Cardinality(Counted) <= c + 1
      /\ rlock \in WindowsLock /\ FreeIsUncounted /\ \A u \in Threads : OwnerCounts(u)
      /\ OneBusy /\ BusyOrPosted
  BY <1>0, Counting DEF RecursiveType, WindowsRecursiveInv, WindowsLock, ClaimsCounted, Counted
<1>2. PICK t \in Threads :
        \/ NestClaim(t) \/ WindowsCountClaim(t, "wait") \/ WindowsCountClaim(t, "timedwait")
        \/ (At(t, "own") /\ FirstClaim(t))
        \/ (rpc[t] \in {"wait", "timedwait"} /\ TakeUnit(t))
        \/ (At(t, "timedwait") /\ GoOn(t, "dylan") /\ UNCHANGED <<rlock, rheld>>)
        \/ LoseClaim(t, "discountclaim") \/ WindowsDiscountClaim(t)
        \/ WindowsReleaseRecursiveInternal(t)
  BY <1>0, <1>1 DEF NextRecursive, PosixWaitForRecursiveLock,
     PosixWaitForRecursiveLockTimed, PosixCountClaim, PosixOwnRecursiveLock,
     PosixReleaseRecursiveLock, PosixDiscountClaim, UnixWaitForRecursiveLock,
     UnixWaitForRecursiveLockTimed, HarpOwnRecursiveLock, UnixReleaseRecursiveLock,
     UnixUnlockRecursiveLock, WindowsWaitForRecursiveLock, WindowsWaitForRecursiveLockTimed,
     WindowsRecursiveInternal, WindowsRecursiveTimedInternal, WindowsReleaseRecursiveLock,
     At, Posix, Unix, Windows
<1>3. CASE NestClaim(t)
  <2>1. /\ rlock' = [rlock EXCEPT !.recursion_count = @ + 1] /\ rlock.owner = t
        /\ rheld' = [rheld EXCEPT ![t] = @ + 1] /\ rpc' = rpc
    BY <1>3 DEF NestClaim, Given
  <2>2. /\ rlock' \in WindowsLock /\ rlock'.owner = t /\ rlock'.recursion_count = n + 1
        /\ rlock'.lock_count = c /\ rlock'.semaphore = rlock.semaphore
    BY <1>1, <2>1 DEF WindowsLock
  <2>3. Counted' = Counted /\ \A u \in Threads : Busy(u)' <=> Busy(u)
    BY <2>1, <2>2 DEF Counted, Busy
  <2>4. \A u \in Threads : OwnerCounts(u)'
    BY <1>1, <2>1, <2>2 DEF OwnerCounts
  <2>5. FreeIsUncounted' /\ RecursiveType'
    BY <1>0, <1>1, <2>1, <2>2 DEF FreeIsUncounted, RecursiveType
  <2>6. OneBusy' /\ BusyOrPosted' /\ ClaimsCounted'
    BY <1>1, <2>2, <2>3 DEF OneBusy, BusyOrPosted, ClaimsCounted
  <2> QED
    BY <2>2, <2>4, <2>5, <2>6 DEF WindowsRecursiveInv
<1>4. ASSUME NEW l \in {"wait", "timedwait"}, WindowsCountClaim(t, l)
      PROVE  RecursiveType' /\ WindowsRecursiveInv'
  <2>1. /\ rlock' = [rlock EXCEPT !.lock_count = @ + 1] /\ rlock.owner # t /\ rheld' = rheld
        /\ rpc' = [rpc EXCEPT ![t] = IF c = -1 THEN "own" ELSE l] /\ rpc[t] = "dylan"
    BY <1>4 DEF WindowsCountClaim, GoOn, At
  <2>2. /\ rlock' \in WindowsLock /\ rlock'.owner = rlock.owner /\ rlock'.recursion_count = n
        /\ rlock'.lock_count = c + 1 /\ rlock'.semaphore = rlock.semaphore
    BY <1>1, <2>1 DEF WindowsLock
  <2>3. Counted' = Counted \cup {t} /\ t \notin Counted
    BY <1>1, <2>1, <2>2 DEF Counted
  <2>4. Cardinality(Counted') = Cardinality(Counted) + 1
    BY <1>1, <2>3, Counting
  <2>5. \A u \in Threads : Busy(u)' <=> Busy(u) \/ (u = t /\ c = -1)
    BY <1>1, <2>1, <2>2 DEF Busy
  <2>6. \A u \in Threads : OwnerCounts(u)'
    BY <1>1, <2>1, <2>2 DEF OwnerCounts
  <2>7. FreeIsUncounted' /\ RecursiveType'
    BY <1>0, <1>1, <2>1, <2>2 DEF FreeIsUncounted, RecursiveType
  <2>8. OneBusy' /\ BusyOrPosted'
    BY <1>1, <2>2, <2>5 DEF OneBusy, BusyOrPosted
  <2>9. ClaimsCounted'
    BY <1>1, <2>2, <2>4 DEF ClaimsCounted
  <2> QED
    BY <2>2, <2>6, <2>7, <2>8, <2>9 DEF WindowsRecursiveInv
<1>5. CASE At(t, "own") /\ FirstClaim(t)
  <2>1. /\ rlock' = [rlock EXCEPT !.recursion_count = 1, !.owner = t]
        /\ rpc' = [rpc EXCEPT ![t] = "dylan"] /\ rpc[t] = "own"
        /\ rheld' = [rheld EXCEPT ![t] = @ + 1]
    BY <1>5 DEF FirstClaim, GoOn, Given, At
  <2>2. /\ rlock' \in WindowsLock /\ rlock'.owner = t /\ rlock'.recursion_count = 1
        /\ rlock'.lock_count = c /\ rlock'.semaphore = rlock.semaphore
    BY <1>1, <2>1 DEF WindowsLock, Owner
  <2>3. rlock.owner = NoThread /\ \A u \in Threads : rheld[u] = 0
    <3>1. \A u \in Threads : rlock.owner # u
      BY <1>1, <2>1 DEF OneBusy, Busy, OwnerCounts
    <3> QED
      BY <1>1, <3>1 DEF OwnerCounts, FreeIsUncounted, WindowsLock, Owner
  <2>4. Counted' = Counted /\ \A u \in Threads : Busy(u)' <=> Busy(u)
    BY <1>1, <2>1, <2>2, <2>3 DEF Counted, Busy
  <2>5. \A u \in Threads : OwnerCounts(u)'
    BY <1>1, <2>1, <2>2, <2>3 DEF OwnerCounts
  <2>6. FreeIsUncounted' /\ RecursiveType'
    BY <1>0, <1>1, <2>1, <2>2 DEF FreeIsUncounted, RecursiveType
  <2>7. OneBusy' /\ BusyOrPosted' /\ ClaimsCounted'
    BY <1>1, <2>2, <2>4 DEF OneBusy, BusyOrPosted, ClaimsCounted
  <2> QED
    BY <2>2, <2>5, <2>6, <2>7 DEF WindowsRecursiveInv
<1>6. CASE rpc[t] \in {"wait", "timedwait"} /\ TakeUnit(t)
  <2>1. /\ rlock' = [rlock EXCEPT !.semaphore = 0] /\ rlock.semaphore = 1 /\ rheld' = rheld
        /\ rpc' = [rpc EXCEPT ![t] = "own"] /\ rpc[t] \in {"wait", "timedwait"}
    BY <1>6 DEF TakeUnit, GoOn
  <2>2. /\ rlock' \in WindowsLock /\ rlock'.owner = rlock.owner /\ rlock'.recursion_count = n
        /\ rlock'.lock_count = c /\ rlock'.semaphore = 0
    BY <1>1, <2>1 DEF WindowsLock
  <2>3. Counted' = Counted /\ \A u \in Threads : ~Busy(u) /\ (Busy(u)' <=> u = t)
    BY <1>1, <2>1, <2>2 DEF Counted, Busy, BusyOrPosted
  <2>4. \A u \in Threads : OwnerCounts(u)'
    BY <1>1, <2>1, <2>2 DEF OwnerCounts
  <2>5. FreeIsUncounted' /\ RecursiveType'
    BY <1>0, <1>1, <2>1, <2>2 DEF FreeIsUncounted, RecursiveType
  <2>6. OneBusy' /\ BusyOrPosted' /\ ClaimsCounted'
    BY <1>1, <2>1, <2>2, <2>3 DEF OneBusy, BusyOrPosted, ClaimsCounted
  <2> QED
    BY <2>2, <2>4, <2>5, <2>6 DEF WindowsRecursiveInv
\* A claim that times out stays in the count of the lock, and leaves ours.
<1>7. CASE At(t, "timedwait") /\ GoOn(t, "dylan") /\ UNCHANGED <<rlock, rheld>>
  <2>1. rlock' = rlock /\ rheld' = rheld /\ rpc' = [rpc EXCEPT ![t] = "dylan"] /\ rpc[t] = "timedwait"
    BY <1>7 DEF GoOn, At
  <2>2. Counted' = Counted \ {t} /\ t \in Counted /\ \A u \in Threads : Busy(u)' <=> Busy(u)
    BY <1>1, <2>1 DEF Counted, Busy, OwnerCounts
  <2>3. Cardinality(Counted') = Cardinality(Counted) - 1
    BY <1>1, <2>2, Counting
  <2>4. \A u \in Threads : OwnerCounts(u)'
    BY <1>1, <2>1 DEF OwnerCounts
  <2>5. FreeIsUncounted' /\ RecursiveType'
    BY <1>0, <1>1, <2>1 DEF FreeIsUncounted, RecursiveType
  <2>6. OneBusy' /\ BusyOrPosted' /\ ClaimsCounted'
    BY <1>1, <2>1, <2>2, <2>3 DEF OneBusy, BusyOrPosted, ClaimsCounted
  <2> QED
    BY <1>1, <2>1, <2>4, <2>5, <2>6 DEF WindowsRecursiveInv
<1>8. CASE LoseClaim(t, "discountclaim")
  <2>1. /\ rlock.owner = t /\ rheld[t] = n /\ n > 0 /\ rpc[t] = "dylan"
        /\ \A u \in Threads \ {t} : rheld[u] = 0
        /\ rheld' = [rheld EXCEPT ![t] = @ - 1]
    BY <1>1, <1>8 DEF LoseClaim, Dropped, At, OwnerCounts, FreeIsUncounted
  <2>2. CASE n = 1
    <3>1. /\ rlock' = [rlock EXCEPT !.recursion_count = 0, !.owner = NoThread]
          /\ rpc' = [rpc EXCEPT ![t] = "discountclaim"]
      BY <1>8, <2>2 DEF LoseClaim, GoOn
    <3>2. /\ rlock' \in WindowsLock /\ rlock'.owner = NoThread /\ rlock'.recursion_count = 0
          /\ rlock'.lock_count = c /\ rlock'.semaphore = rlock.semaphore
      BY <1>1, <3>1 DEF WindowsLock, Owner
    <3>3. Counted' = Counted /\ \A u \in Threads : Busy(u)' <=> Busy(u)
      BY <1>1, <2>1, <3>1, <3>2 DEF Counted, Busy
    <3>4. \A u \in Threads : OwnerCounts(u)'
      BY <1>1, <2>1, <2>2, <3>1, <3>2 DEF OwnerCounts
    <3>5. FreeIsUncounted' /\ RecursiveType'
      BY <1>0, <1>1, <2>1, <3>1, <3>2 DEF FreeIsUncounted, RecursiveType
    <3>6. OneBusy' /\ BusyOrPosted' /\ ClaimsCounted'
      BY <1>1, <3>2, <3>3 DEF OneBusy, BusyOrPosted, ClaimsCounted
    <3> QED
      BY <3>2, <3>4, <3>5, <3>6 DEF WindowsRecursiveInv
  <2>3. CASE n # 1
    <3>1. rlock' = [rlock EXCEPT !.recursion_count = @ - 1] /\ rpc' = rpc
      BY <1>8, <2>3 DEF LoseClaim
    <3>2. /\ rlock' \in WindowsLock /\ rlock'.owner = t /\ rlock'.recursion_count = n - 1
          /\ rlock'.lock_count = c /\ rlock'.semaphore = rlock.semaphore
      BY <1>1, <2>1, <3>1 DEF WindowsLock
    <3>3. Counted' = Counted /\ \A u \in Threads : Busy(u)' <=> Busy(u)
      BY <2>1, <3>1, <3>2 DEF Counted, Busy
    <3>4. \A u \in Threads : OwnerCounts(u)'
      BY <1>1, <2>1, <3>1, <3>2 DEF OwnerCounts
    <3>5. FreeIsUncounted' /\ RecursiveType'
      BY <1>0, <1>1, <2>1, <2>3, <3>1, <3>2 DEF FreeIsUncounted, RecursiveType
    <3>6. OneBusy' /\ BusyOrPosted' /\ ClaimsCounted'
      BY <1>1, <3>2, <3>3 DEF OneBusy, BusyOrPosted, ClaimsCounted
    <3> QED
      BY <3>2, <3>4, <3>5, <3>6 DEF WindowsRecursiveInv
  <2> QED
    BY <2>2, <2>3
<1>9. CASE WindowsDiscountClaim(t)
  <2>1. /\ rlock' = [rlock EXCEPT !.lock_count = @ - 1] /\ rheld' = rheld
        /\ rpc' = [rpc EXCEPT ![t] = IF c >= 1 THEN "releaseunit" ELSE "dylan"]
        /\ rpc[t] = "discountclaim"
    BY <1>9 DEF WindowsDiscountClaim, GoOn, At
  <2>2. c >= 0 /\ rlock.semaphore = 0 /\ \A u \in Threads : Busy(u) <=> u = t
    BY <1>1, <2>1 DEF OneBusy, BusyOrPosted, Busy
  <2>3. /\ rlock' \in WindowsLock /\ rlock'.owner = rlock.owner /\ rlock'.recursion_count = n
        /\ rlock'.lock_count = c - 1 /\ rlock'.semaphore = 0
    BY <1>1, <2>1, <2>2 DEF WindowsLock
  <2>4. Counted' = Counted \ {t} /\ t \in Counted
    BY <1>1, <2>1, <2>3 DEF Counted, OwnerCounts
  <2>5. Cardinality(Counted') = Cardinality(Counted) - 1
    BY <1>1, <2>4, Counting
  <2>6. \A u \in Threads : Busy(u)' <=> u = t /\ c >= 1
    BY <1>1, <2>1, <2>2, <2>3 DEF Busy, OwnerCounts
  <2>7. \A u \in Threads : OwnerCounts(u)'
    BY <1>1, <2>1, <2>3 DEF OwnerCounts
  <2>8. FreeIsUncounted' /\ RecursiveType'
    BY <1>0, <1>1, <2>1, <2>3 DEF FreeIsUncounted, RecursiveType
  <2>9. OneBusy' /\ BusyOrPosted' /\ ClaimsCounted'
    BY <1>1, <2>2, <2>3, <2>5, <2>6 DEF OneBusy, BusyOrPosted, ClaimsCounted
  <2> QED
    BY <2>3, <2>7, <2>8, <2>9 DEF WindowsRecursiveInv
<1>10. CASE WindowsReleaseRecursiveInternal(t)
  <2>1. /\ rlock' = [rlock EXCEPT !.semaphore = 1] /\ rheld' = rheld
        /\ rpc' = [rpc EXCEPT ![t] = "dylan"] /\ rpc[t] = "releaseunit"
    BY <1>10 DEF WindowsReleaseRecursiveInternal, GoOn, At
  <2>2. c # -1 /\ \A u \in Threads : Busy(u) <=> u = t
    BY <1>1, <2>1 DEF OneBusy, BusyOrPosted, Busy
  <2>3. /\ rlock' \in WindowsLock /\ rlock'.owner = rlock.owner /\ rlock'.recursion_count = n
        /\ rlock'.lock_count = c /\ rlock'.semaphore = 1
    BY <1>1, <2>1 DEF WindowsLock
  <2>4. Counted' = Counted /\ \A u \in Threads : ~Busy(u)'
    BY <1>1, <2>1, <2>2, <2>3 DEF Counted, Busy, OwnerCounts
  <2>5. \A u \in Threads : OwnerCounts(u)'
    BY <1>1, <2>1, <2>3 DEF OwnerCounts
  <2>6. FreeIsUncounted' /\ RecursiveType'
    BY <1>0, <1>1, <2>1, <2>3 DEF FreeIsUncounted, RecursiveType
  <2>7. OneBusy' /\ BusyOrPosted' /\ ClaimsCounted'
    BY <1>1, <2>2, <2>3, <2>4 DEF OneBusy, BusyOrPosted, ClaimsCounted
  <2> QED
    BY <2>3, <2>5, <2>6, <2>7 DEF WindowsRecursiveInv
<1> QED
  BY <1>2, <1>3, <1>4, <1>5, <1>6, <1>7, <1>8, <1>9, <1>10

LEMMA RecursiveInit == Init => RecursiveInv
<1> SUFFICES ASSUME Init PROVE RecursiveInv
  OBVIOUS
<1> USE NativeThreadsAssumption DEF Posix, Unix, Windows
<1>1. runtime \in {"posix", "unix", "windows"} /\ InitRecursive
  BY DEF Init, InitRuntime
<1>2. RecursiveType
  BY <1>1 DEF InitRecursive, RecursiveType, RecursivePlaces
<1>3. CASE runtime = "posix"
  <2>1. rlock = PosixMakeRecursiveLock /\ Uncounted = {}
    BY <1>1, <1>3 DEF InitRecursive, Uncounted
  <2>2. rlock \in PosixLock
    BY <2>1 DEF PosixMakeRecursiveLock, PosixLock, Owner
  <2>3. PosixRecursiveInv
    BY <1>1, <2>1, <2>2, FS_EmptySet
       DEF InitRecursive, PosixMakeRecursiveLock, PosixRecursiveInv, PosixCounts, PosixHolder, Pending
  <2> QED
    BY <1>1, <1>2, <1>3, <2>3 DEF RecursiveInv
<1>4. CASE runtime = "unix"
  <2>1. rlock = UnixMakeRecursiveLock
    BY <1>1, <1>4 DEF InitRecursive
  <2>2. rlock \in UnixLock
    BY <2>1 DEF UnixMakeRecursiveLock, UnixLock, Owner
  <2>3. UnixRecursiveInv
    BY <1>1, <2>1, <2>2 DEF InitRecursive, UnixMakeRecursiveLock, UnixRecursiveInv, OwnerCounts,
                            UnixHolder, FreeIsUncounted
  <2> QED
    BY <1>1, <1>2, <1>4, <2>3 DEF RecursiveInv
<1>5. CASE runtime = "windows"
  <2>1. rlock = WindowsMakeRecursiveLock
    BY <1>1, <1>5 DEF InitRecursive
  <2>2. rlock \in WindowsLock /\ Counted = {}
    BY <1>1, <2>1 DEF InitRecursive, WindowsMakeRecursiveLock, WindowsLock, Owner, Counted
  <2>3. WindowsRecursiveInv
    BY <1>1, <2>1, <2>2, FS_EmptySet
       DEF InitRecursive, WindowsMakeRecursiveLock, WindowsRecursiveInv, OwnerCounts,
           FreeIsUncounted, OneBusy, BusyOrPosted, ClaimsCounted, Busy
  <2> QED
    BY <1>1, <1>2, <1>5, <2>3 DEF RecursiveInv
<1> QED
  BY <1>1, <1>3, <1>4, <1>5

LEMMA RecursiveNext == RecursiveInv /\ [Next]_vars => RecursiveInv'
<1> SUFFICES ASSUME RecursiveInv, [Next]_vars PROVE RecursiveInv'
  OBVIOUS
<1>1. runtime' = runtime /\ (NextRecursive \/ UNCHANGED recursiveVars)
  BY RecursiveFrame
<1>2. (Posix' <=> Posix) /\ (Unix' <=> Unix) /\ (Windows' <=> Windows)
  BY <1>1 DEF Posix, Unix, Windows
<1>3. RecursivePlaces' = RecursivePlaces
  BY <1>1 DEF RecursivePlaces, Posix, Unix, Windows
<1>4. CASE UNCHANGED recursiveVars
  BY <1>1, <1>2, <1>3, <1>4
     DEF recursiveVars, RecursiveInv, RecursiveType, PosixRecursiveInv, PosixCounts, PosixHolder,
         Pending, Uncounted, UnixRecursiveInv, UnixHolder, WindowsRecursiveInv, OwnerCounts,
         FreeIsUncounted, OneBusy, BusyOrPosted, ClaimsCounted, Counted, Busy
<1>5. CASE NextRecursive
  <2>1. Posix \/ Unix \/ Windows
    BY DEF RecursiveInv, Posix, Unix, Windows
  <2>2. CASE Posix
    BY <1>1, <1>2, <1>5, <2>2, PosixRecursiveStep DEF RecursiveInv, Posix, Unix, Windows
  <2>3. CASE Unix
    BY <1>1, <1>2, <1>5, <2>3, UnixRecursiveStep DEF RecursiveInv, Posix, Unix, Windows
  <2>4. CASE Windows
    BY <1>1, <1>2, <1>5, <2>4, WindowsRecursiveStep DEF RecursiveInv, Posix, Unix, Windows
  <2> QED
    BY <2>1, <2>2, <2>3, <2>4
<1> QED
  BY <1>1, <1>4, <1>5

\* A recursive lock of any of the three runtimes has one owner at a time, its count is
\* what the program has claimed, and a thread asleep for it is passed it by a release.
THEOREM RecursiveLocksArePassedOn == Spec => []RecursiveLockIsPassedOn
<1>1. ASSUME RecursiveInv, Posix PROVE RecursiveLockIsPassedOn
  <2> DEFINE n == rlock.depth
             U == Cardinality(Uncounted)
  <2>1. /\ ~Windows /\ ~Unix /\ U \in Nat /\ n \in Nat /\ rlock.count \in Nat
        /\ rlock.mutex \in Owner /\ rheld \in [Threads -> Nat] /\ PosixCounts
        /\ rlock.mutex = NoThread => n = 0
        /\ U = 0 <=> Uncounted = {}
        /\ \A t \in Threads : PosixHolder(t)
    BY <1>1, Counting
       DEF RecursiveInv, PosixRecursiveInv, RecursiveType, PosixLock, Posix, Unix, Windows, Uncounted
  <2>2. \A t \in Threads : rlock.mutex # t => rheld[t] = 0 /\ rpc[t] \notin {"count", "own"}
    BY <2>1 DEF PosixHolder, Pending
  <2>3. \A t \in Threads : rheld[t] > 0 /\ At(t, "dylan") => rlock.owner = t /\ rlock.count # 0
    <3> SUFFICES ASSUME NEW t \in Threads, rheld[t] > 0, At(t, "dylan")
                 PROVE  rlock.owner = t /\ rlock.count # 0
      OBVIOUS
    <3>1. rlock.mutex = t /\ n > 0 /\ rlock.owner = t
      BY <2>1, <2>2 DEF PosixHolder
    <3>2. \A u \in Threads : rpc[u] # "count"
      BY <2>2, <3>1 DEF At
    <3> QED
      BY <2>1, <3>1, <3>2 DEF PosixCounts
  <2>4. ASSUME \A t \in Threads : At(t, "dylan")
        PROVE  IF rlock.count = 0 THEN \A t \in Threads : rheld[t] = 0
                                  ELSE \E t \in Threads : rheld[t] = rlock.count
    <3>1. rlock.count = n
      BY <2>1, <2>4 DEF PosixCounts, Uncounted, At
    <3>2. \A t \in Threads : rheld[t] = IF rlock.mutex = t THEN n ELSE 0
      BY <2>1, <2>4 DEF PosixHolder, Pending, At
    <3> QED
      BY <2>1, <3>1, <3>2 DEF Owner
  <2> QED
    BY <1>1, <2>1, <2>2, <2>3, <2>4
       DEF RecursiveLockIsPassedOn, RecursiveLockExcludes, RecursiveSleepersAreWoken,
           OwnedRecursiveLock, PosixOwnedRecursiveLock, At
<1>2. ASSUME RecursiveInv, Unix PROVE RecursiveLockIsPassedOn
  <2>1. /\ ~Posix /\ ~Windows /\ rlock.owner \in Owner /\ rlock.recursion_count \in Nat
        /\ FreeIsUncounted /\ \A t \in Threads : OwnerCounts(t) /\ UnixHolder(t)
    BY <1>2 DEF RecursiveInv, UnixRecursiveInv, UnixLock, Posix, Unix, Windows
  <2> QED
    BY <1>2, <2>1, NativeThreadsAssumption
       DEF RecursiveLockIsPassedOn, RecursiveLockExcludes, RecursiveSleepersAreWoken, OwnerCounts,
           UnixHolder, FreeIsUncounted, OwnedRecursiveLock, UnixOwnedRecursiveLock, At, Owner
<1>3. ASSUME RecursiveInv, Windows PROVE RecursiveLockIsPassedOn
  <2>1. /\ ~Posix /\ ~Unix /\ rlock.owner \in Owner /\ rlock.recursion_count \in Nat
        /\ FreeIsUncounted /\ (\A t \in Threads : OwnerCounts(t))
        /\ rlock.semaphore \in {0, 1} /\ rlock.lock_count \in Int
        /\ OneBusy /\ BusyOrPosted /\ ClaimsCounted
    BY <1>3 DEF RecursiveInv, WindowsRecursiveInv, WindowsLock, Posix, Unix, Windows
  <2>2. RecursiveLockExcludes
    BY <1>3, <2>1, NativeThreadsAssumption
       DEF RecursiveLockExcludes, OwnerCounts, OneBusy, Busy, FreeIsUncounted,
           OwnedRecursiveLock, WindowsOwnedRecursiveLock, At, Owner
  <2>3. ASSUME NEW t \in Threads, At(t, "wait")
        PROVE  rlock.semaphore = 1 \/ \E u \in Threads : Busy(u)
    <3>1. t \in Counted /\ Counted \in SUBSET Threads
      BY <2>3 DEF Counted, At
    <3>2. Cardinality(Counted) \in Nat /\ Cardinality(Counted) # 0
      BY <3>1, Counting
    <3> QED
      BY <2>1, <3>2 DEF ClaimsCounted, BusyOrPosted
  <2>4. \A u \in Threads : rlock.owner = u => rheld[u] > 0
    BY <2>1, NativeThreadsAssumption DEF OwnerCounts, FreeIsUncounted
  <2>5. RecursiveSleepersAreWoken
    BY <2>3, <2>4 DEF RecursiveSleepersAreWoken, Busy
  <2> QED
    BY <2>2, <2>5 DEF RecursiveLockIsPassedOn
<1>4. RecursiveInv => RecursiveLockIsPassedOn
  BY <1>1, <1>2, <1>3 DEF RecursiveInv, Posix, Unix, Windows
<1> QED
  BY <1>4, RecursiveInit, RecursiveNext, PTL DEF Spec

-----------------------------------------------------------------------------
(* Threads and join.                                                       *)

Flags == {"COMPLETED", "MARKED", "JOINED"}
Handle == IF Posix THEN SUBSET Flags ELSE {"null", "thread", "event"}
Life == IF Windows THEN {"unborn", "held", "running", "done"} ELSE {"unborn", "running", "done"}
JoinPlaces == IF Posix THEN {"dylan", "asleep", "awake"} ELSE {"dylan"}

JoinType == /\ life \in [Threads -> Life] /\ handle1 \in [Threads -> Handle]
            /\ synchro \in SUBSET Threads /\ goAhead \in SUBSET Threads
            /\ jpc \in [Threads -> JoinPlaces] /\ want \in [Threads -> Seq(Threads)]
            /\ joined \in SUBSET (Threads \X Threads) /\ evenly \in SUBSET Threads

\* posix: the flags of a thread tell whether it has ended, been joined, or is waited for
\* or was named an even number of times, and at most one thread waits for it.
Waits(t, w) == jpc[t] # "dylan" /\ w \in Named(want[t])
FlagsInv(w) == /\ "COMPLETED" \in handle1[w] <=> life[w] = "done"
               /\ "JOINED" \in handle1[w] <=> \E t \in Threads : <<t, w>> \in joined
               /\ "MARKED" \in handle1[w] <=> (\E t \in Threads : Waits(t, w)) \/ w \in evenly
               /\ life[w] = "unborn" => handle1[w] = {}
               /\ "JOINED" \in handle1[w] => "COMPLETED" \in handle1[w]
               /\ \A t \in Threads : Waits(t, w) => "JOINED" \notin handle1[w] /\ w \notin evenly
OneWaiter == \A t, u, w \in Threads : Waits(t, w) /\ Waits(u, w) => t = u
OneJoin == \A t, u, w \in Threads : <<t, w>> \in joined /\ <<u, w>> \in joined => t = u
NoSleepOverEnded == \A t, w \in Threads : jpc[t] = "asleep" /\ w \in Named(want[t]) => life[w] # "done"
PosixJoinInv == /\ \A w \in Threads : FlagsInv(w)
                /\ OneWaiter /\ OneJoin /\ NoSleepOverEnded

\* unix: a thread that was joined has ended and lost its handle.
UnixJoinInv == /\ \A p \in joined : life[p[2]] = "done" /\ handle1[p[2]] = "null"
               /\ OneJoin

\* windows: only a thread made with synchronize has an event for its handle.
WindowsJoinInv == /\ \A p \in joined : life[p[2]] = "done" \/ p[2] \in synchro
                  /\ \A w \in Threads : handle1[w] = "event" => w \in synchro

JoinInv == /\ runtime \in {"posix", "unix", "windows"}
           /\ JoinType
           /\ Posix => PosixJoinInv
           /\ Unix => UnixJoinInv
           /\ Windows => WindowsJoinInv

\* What a vector names are threads, and what it does not name it names an even number of times.
LEMMA NamedThreads ==
  ASSUME NEW v \in Seq(Threads)
  PROVE  /\ Named(v) \in SUBSET Threads
         /\ \A i \in DOMAIN v : v[i] \in Named(v)
         /\ \A u : u \notin Named(v) => ~Odd(v, u)
<1>1. ASSUME NEW u, u \notin Named(v) PROVE ~Odd(v, u)
  <2>1. {i \in DOMAIN v : v[i] = u} = {}
    BY <1>1 DEF Named
  <2>2. Cardinality({i \in DOMAIN v : v[i] = u}) = 0
    BY <2>1, FS_EmptySet
  <2> QED
    BY <2>2 DEF Odd
<1> QED
  BY <1>1 DEF Named

LEMMA VectorsNameThreads ==
  /\ Vectors \in SUBSET Seq(Threads)
  /\ \A v \in Vectors : v[1] \in Threads /\ \A i \in DOMAIN v : v[i] \in Threads
  BY JoinBoundAssumption DEF Vectors

\* The part every posix join ends in: the joiner takes an ended thread, or marks and sleeps.
LEMMA FinishOrSleepStep ==
  ASSUME NEW t \in Threads, NEW s \in Seq(Threads), Posix, Posix', JoinType, PosixJoinInv,
         FinishOrSleep(t, s), life' = life,
         UNCHANGED <<synchro, goAhead>>,
         \A w \in Named(s) : /\ life[w] # "unborn" /\ "JOINED" \notin handle1[w]
                             /\ w \notin evenly
                             /\ \A u \in Threads \ {t} : ~Waits(u, w),
         jpc[t] = "dylan" \/ want[t] = s
  PROVE  JoinType' /\ PosixJoinInv'
<1>0. /\ Life' = Life /\ Handle = SUBSET Flags /\ Handle' = SUBSET Flags
      /\ JoinPlaces = {"dylan", "asleep", "awake"} /\ JoinPlaces' = {"dylan", "asleep", "awake"}
  BY DEF Life, Handle, JoinPlaces, Posix, Windows
<1>1. /\ life \in [Threads -> Life] /\ handle1 \in [Threads -> SUBSET Flags]
      /\ jpc \in [Threads -> {"dylan", "asleep", "awake"}] /\ want \in [Threads -> Seq(Threads)]
      /\ joined \in SUBSET (Threads \X Threads) /\ evenly \in SUBSET Threads
      /\ (\A w \in Threads : FlagsInv(w)) /\ OneWaiter /\ OneJoin /\ NoSleepOverEnded
  BY <1>0 DEF JoinType, PosixJoinInv
<1>n. /\ Named(s) \in SUBSET Threads /\ \A i \in DOMAIN s : s[i] \in Named(s)
      /\ \A u : u \notin Named(s) => ~Odd(s, u)
  BY NamedThreads
<1>w. ASSUME NEW v \in Threads, v \notin Named(s) PROVE ~Waits(t, v)
  BY <1>w DEF Waits
<1>2. CASE \E i \in DOMAIN s :
             /\ "COMPLETED" \in handle1[s[i]]
             /\ handle1' = [u \in Threads |->
                              (Marked(s)[u] \ (IF Odd(s, u) THEN {"MARKED"} ELSE {}))
                                \cup (IF u = s[i] THEN {"JOINED"} ELSE {})]
             /\ joined' = joined \cup {<<t, s[i]>>}
             /\ evenly' = evenly \cup {u \in Named(s) : ~Odd(s, u)}
             /\ want' = [want EXCEPT ![t] = <<>>]
             /\ JGoto(t, "dylan")
  <2>0. PICK i \in DOMAIN s :
             /\ "COMPLETED" \in handle1[s[i]]
             /\ handle1' = [u \in Threads |->
                              (Marked(s)[u] \ (IF Odd(s, u) THEN {"MARKED"} ELSE {}))
                                \cup (IF u = s[i] THEN {"JOINED"} ELSE {})]
             /\ joined' = joined \cup {<<t, s[i]>>}
             /\ evenly' = evenly \cup {u \in Named(s) : ~Odd(s, u)}
             /\ want' = [want EXCEPT ![t] = <<>>]
             /\ jpc' = [jpc EXCEPT ![t] = "dylan"]
    BY <1>2 DEF JGoto
  <2> DEFINE w == s[i]
  <2>w. w \in Named(s) /\ w \in Threads
    BY <1>n, <2>0
  <2> HIDE DEF w
  <2>1. /\ "COMPLETED" \in handle1[w] /\ joined' = joined \cup {<<t, w>>}
        /\ jpc' = [jpc EXCEPT ![t] = "dylan"] /\ want' = [want EXCEPT ![t] = <<>>]
        /\ \A v \in Threads : v \in evenly' <=> v \in evenly \/ (v \in Named(s) /\ ~Odd(s, v))
    BY <2>0 DEF w
  <2>h. handle1' = [u \in Threads |->
                      ((IF u \in Named(s) THEN handle1[u] \cup {"MARKED"} ELSE handle1[u])
                         \ (IF Odd(s, u) THEN {"MARKED"} ELSE {}))
                        \cup (IF u = w THEN {"JOINED"} ELSE {})]
    BY <2>0 DEF w, Marked
  <2>2. JoinType'
    <3>1. handle1' \in [Threads -> SUBSET Flags]
      BY <1>1, <2>h DEF Flags
    <3>2. evenly' \in SUBSET Threads
      BY <1>1, <1>n, <2>0
    <3>3. want' \in [Threads -> Seq(Threads)]
      BY <1>1, <2>1
    <3>4. joined' \in SUBSET (Threads \X Threads)
      BY <1>1, <2>1, <2>w
    <3>5. jpc' \in [Threads -> {"dylan", "asleep", "awake"}]
      BY <1>1, <2>1
    <3> QED
      BY <1>0, <1>1, <3>1, <3>2, <3>3, <3>4, <3>5 DEF JoinType
  <2>3. \A u, v \in Threads : Waits(u, v)' <=> Waits(u, v) /\ u # t
    <3> SUFFICES ASSUME NEW u \in Threads, NEW v \in Threads
                 PROVE  Waits(u, v)' <=> Waits(u, v) /\ u # t
      OBVIOUS
    <3>1. CASE u = t
      BY <1>1, <2>1, <3>1 DEF Waits
    <3>2. CASE u # t
      <4>1. jpc'[u] = jpc[u] /\ want'[u] = want[u]
        BY <1>1, <2>1, <3>2
      <4> QED
        BY <3>2, <4>1 DEF Waits, Named
    <3> QED
      BY <3>1, <3>2
  <2>4. \A u, v \in Threads : <<u, v>> \in joined' <=> <<u, v>> \in joined \/ (u = t /\ v = w)
    BY <2>1
  <2>5. ASSUME NEW v \in Threads PROVE FlagsInv(v)'
    <3>1. \A f \in Flags :
            f \in handle1'[v] <=>
              \/ /\ f \in handle1[v] \/ (v \in Named(s) /\ f = "MARKED")
                 /\ ~(Odd(s, v) /\ f = "MARKED")
              \/ v = w /\ f = "JOINED"
      BY <2>h
    <3>a. /\ "MARKED" \in handle1'[v] <=> ("MARKED" \in handle1[v] \/ v \in Named(s)) /\ ~Odd(s, v)
          /\ "JOINED" \in handle1'[v] <=> "JOINED" \in handle1[v] \/ v = w
          /\ "COMPLETED" \in handle1'[v] <=> "COMPLETED" \in handle1[v]
      BY <3>1 DEF Flags
    <3>3. FlagsInv(v)
      BY <1>1
    <3>4. "MARKED" \in handle1'[v] <=> (\E u \in Threads : Waits(u, v)') \/ v \in evenly'
      <4>1. CASE v \in Named(s)
        <5>1. /\ v \notin evenly /\ \A u \in Threads : ~Waits(u, v)'
          BY <2>3, <4>1
        <5> QED
          BY <2>1, <3>a, <4>1, <5>1
      <4>2. CASE v \notin Named(s)
        <5>1. \A u \in Threads : Waits(u, v)' <=> Waits(u, v)
          BY <1>w, <2>3, <4>2
        <5> QED
          BY <1>n, <2>1, <3>a, <3>3, <4>2, <5>1 DEF FlagsInv
      <4> QED
        BY <4>1, <4>2
    <3>5. "JOINED" \in handle1'[v] <=> \E u \in Threads : <<u, v>> \in joined'
      BY <2>4, <3>a, <3>3 DEF FlagsInv
    <3>6. \A u \in Threads : Waits(u, v)' => "JOINED" \notin handle1'[v] /\ v \notin evenly'
      <4> SUFFICES ASSUME NEW u \in Threads, Waits(u, v)'
                   PROVE  "JOINED" \notin handle1'[v] /\ v \notin evenly'
        OBVIOUS
      <4>1. Waits(u, v) /\ u # t /\ v \notin Named(s)
        BY <2>3
      <4> QED
        BY <2>1, <2>w, <3>a, <3>3, <4>1 DEF FlagsInv
    <3>7. life'[v] = "unborn" => handle1'[v] = {}
      <4>1. life[v] = "unborn" => v \notin Named(s)
        OBVIOUS
      <4>2. v \notin Named(s) => handle1'[v] \subseteq handle1[v]
        BY <2>h, <2>w
      <4> QED
        BY <3>3, <4>1, <4>2 DEF FlagsInv
    <3> QED
      BY <2>1, <3>a, <3>3, <3>4, <3>5, <3>6, <3>7 DEF FlagsInv
  <2>6. OneWaiter'
    BY <1>1, <2>3 DEF OneWaiter
  <2>7. OneJoin'
    <3>1. \A u \in Threads : <<u, w>> \notin joined
      BY <1>1, <2>w DEF FlagsInv
    <3> QED
      BY <1>1, <2>4, <3>1 DEF OneJoin
  <2>8. NoSleepOverEnded'
    <3> SUFFICES ASSUME NEW u \in Threads, NEW v \in Threads, jpc'[u] = "asleep",
                        v \in Named(want'[u])
                 PROVE  life'[v] # "done"
      BY DEF NoSleepOverEnded, Named
    <3>1. u # t /\ jpc[u] = "asleep" /\ want'[u] = want[u]
      BY <1>1, <2>1
    <3> QED
      BY <1>1, <3>1 DEF NoSleepOverEnded
  <2> QED
    BY <2>2, <2>5, <2>6, <2>7, <2>8 DEF PosixJoinInv
<1>3. CASE /\ \A w \in Named(s) : "COMPLETED" \notin handle1[w]
           /\ handle1' = Marked(s)
           /\ want' = [want EXCEPT ![t] = s]
           /\ JGoto(t, "asleep")
           /\ UNCHANGED <<joined, evenly>>
  <2>1. /\ handle1' = [u \in Threads |-> IF u \in Named(s) THEN handle1[u] \cup {"MARKED"} ELSE handle1[u]]
        /\ want' = [want EXCEPT ![t] = s]
        /\ jpc' = [jpc EXCEPT ![t] = "asleep"] /\ joined' = joined /\ evenly' = evenly
    BY <1>3 DEF JGoto, Marked
  <2>2. JoinType'
    BY <1>0, <1>1, <2>1 DEF JoinType, Flags
  <2>3. \A u, v \in Threads : Waits(u, v)' <=> IF u = t THEN v \in Named(s) ELSE Waits(u, v)
    <3> SUFFICES ASSUME NEW u \in Threads, NEW v \in Threads
                 PROVE  Waits(u, v)' <=> IF u = t THEN v \in Named(s) ELSE Waits(u, v)
      OBVIOUS
    <3>1. /\ u = t => jpc'[u] = "asleep" /\ want'[u] = s
          /\ u # t => jpc'[u] = jpc[u] /\ want'[u] = want[u]
      BY <1>1, <2>1
    <3> QED
      BY <3>1 DEF Waits, Named
  <2>4. ASSUME NEW v \in Threads PROVE FlagsInv(v)'
    <3>1. handle1'[v] = IF v \in Named(s) THEN handle1[v] \cup {"MARKED"} ELSE handle1[v]
      BY <2>1
    <3>3. FlagsInv(v)
      BY <1>1
    <3>4. "MARKED" \in handle1'[v] <=> (\E u \in Threads : Waits(u, v)') \/ v \in evenly'
      <4>1. CASE v \in Named(s)
        BY <2>3, <3>1, <4>1
      <4>2. CASE v \notin Named(s)
        <5>1. \A u \in Threads : Waits(u, v)' <=> Waits(u, v)
          BY <1>w, <2>3, <4>2
        <5> QED
          BY <2>1, <3>1, <3>3, <4>2, <5>1 DEF FlagsInv
      <4> QED
        BY <4>1, <4>2
    <3>5. \A u \in Threads : Waits(u, v)' => "JOINED" \notin handle1'[v] /\ v \notin evenly'
      <4>1. CASE v \in Named(s)
        BY <2>1, <3>1, <4>1
      <4>2. CASE v \notin Named(s)
        <5>1. \A u \in Threads : Waits(u, v)' <=> Waits(u, v)
          BY <1>w, <2>3, <4>2
        <5> QED
          BY <2>1, <3>1, <3>3, <4>2, <5>1 DEF FlagsInv
      <4> QED
        BY <4>1, <4>2
    <3> QED
      BY <2>1, <3>1, <3>3, <3>4, <3>5 DEF FlagsInv
  <2>5. OneWaiter' /\ OneJoin'
    BY <1>1, <2>1, <2>3 DEF OneWaiter, OneJoin
  <2>6. NoSleepOverEnded'
    <3> SUFFICES ASSUME NEW u \in Threads, NEW v \in Threads, jpc'[u] = "asleep",
                        v \in Named(want'[u])
                 PROVE  life'[v] # "done"
      BY DEF NoSleepOverEnded, Named
    <3>1. CASE u = t
      <4>1. v \in Named(s)
        BY <1>1, <2>1, <3>1
      <4> QED
        BY <1>1, <1>3, <4>1 DEF FlagsInv
    <3>2. CASE u # t
      <4>1. jpc[u] = "asleep" /\ want'[u] = want[u]
        BY <1>1, <2>1, <3>2
      <4> QED
        BY <1>1, <4>1 DEF NoSleepOverEnded
    <3> QED
      BY <3>1, <3>2
  <2> QED
    BY <2>2, <2>4, <2>5, <2>6 DEF PosixJoinInv
<1> QED
  BY <1>2, <1>3 DEF FinishOrSleep

LEMMA PosixJoinStep ==
  ASSUME Posix, Posix', JoinType, PosixJoinInv, NextJoin
  PROVE  JoinType' /\ PosixJoinInv'
<1>0. /\ Life = {"unborn", "running", "done"} /\ Life' = Life
      /\ Handle = SUBSET Flags /\ Handle' = SUBSET Flags
      /\ JoinPlaces = {"dylan", "asleep", "awake"} /\ JoinPlaces' = {"dylan", "asleep", "awake"}
      /\ ~Unix /\ ~Windows
  BY DEF Life, Handle, JoinPlaces, Posix, Windows, Unix
<1>1. /\ life \in [Threads -> {"unborn", "running", "done"}]
      /\ handle1 \in [Threads -> SUBSET Flags]
      /\ jpc \in [Threads -> {"dylan", "asleep", "awake"}] /\ want \in [Threads -> Seq(Threads)]
      /\ joined \in SUBSET (Threads \X Threads) /\ evenly \in SUBSET Threads
      /\ synchro \in SUBSET Threads /\ goAhead \in SUBSET Threads
      /\ (\A w \in Threads : FlagsInv(w)) /\ OneWaiter /\ OneJoin /\ NoSleepOverEnded
  BY <1>0 DEF JoinType, PosixJoinInv
<1>2. \/ \E t, w \in Threads : PosixMakeThread(t, w) \/ PosixJoinSingle(t, w)
      \/ \E t \in Threads : \/ PosixInitializeSpecialThread(t) \/ PosixTrampoline(t)
                           \/ PosixJoinWake(t)
      \/ \E t \in Threads, s \in Vectors : PosixJoinMultiple(t, s)
  BY <1>0, <1>1
     DEF NextJoin, UnixMakeThread, WindowsMakeThread, UnixInitializeSpecialThread,
         WindowsInitializeSpecialThread, DebuggerGoAhead, WindowsInitializeCurrentThread,
         UnixTrampolineBody, WindowsTrampolineBody, UnixJoinSingle, UnixJoinMultiple, KernelJoin,
         WindowsJoinSingle, WindowsJoinMultiple, WaitForObject
\* A new thread: nobody waits for it, and its flags are clear as they were.
<1>3. ASSUME NEW t \in Threads, life[t] = "unborn", SetHandle(t, {}), Live(t, "running"),
             UNCHANGED <<synchro, goAhead, jpc, want, joined, evenly>>
      PROVE  JoinType' /\ PosixJoinInv'
  <2>1. /\ handle1' = handle1 /\ life' = [life EXCEPT ![t] = "running"]
        /\ synchro' = synchro /\ goAhead' = goAhead /\ jpc' = jpc /\ want' = want /\ joined' = joined
        /\ evenly' = evenly
    BY <1>1, <1>3 DEF SetHandle, Live, FlagsInv
  <2>2. JoinType'
    BY <1>0, <1>1, <2>1 DEF JoinType
  <2>3. \A w \in Threads : FlagsInv(w)'
    BY <1>1, <1>3, <2>1 DEF FlagsInv, Waits
  <2>4. OneWaiter' /\ OneJoin' /\ NoSleepOverEnded'
    BY <1>1, <1>3, <2>1 DEF OneWaiter, OneJoin, NoSleepOverEnded, Waits
  <2> QED
    BY <2>2, <2>3, <2>4 DEF PosixJoinInv
<1>4. ASSUME NEW t \in Threads, PosixTrampoline(t)
      PROVE  JoinType' /\ PosixJoinInv'
  <2>1. /\ handle1' = [handle1 EXCEPT ![t] = handle1[t] \cup {"COMPLETED"}]
        /\ life' = [life EXCEPT ![t] = "done"] /\ life[t] = "running"
        /\ jpc' = [u \in Threads |-> IF jpc[u] = "asleep" THEN "awake" ELSE jpc[u]]
        /\ synchro' = synchro /\ goAhead' = goAhead /\ want' = want /\ joined' = joined
        /\ evenly' = evenly
    BY <1>4 DEF PosixTrampoline, SetHandle, Live, Active
  <2>2. JoinType'
    BY <1>0, <1>1, <2>1 DEF JoinType, Flags
  <2>3. \A u, w \in Threads : Waits(u, w)' <=> Waits(u, w)
    BY <1>1, <2>1 DEF Waits
  <2>4. \A w \in Threads : FlagsInv(w)'
    <3> SUFFICES ASSUME NEW w \in Threads PROVE FlagsInv(w)'
      OBVIOUS
    <3>1. FlagsInv(w) /\ handle1'[w] = IF w = t THEN handle1[w] \cup {"COMPLETED"} ELSE handle1[w]
      BY <1>1, <2>1
    <3>2. "MARKED" \in handle1'[w] <=> (\E u \in Threads : Waits(u, w)') \/ w \in evenly'
      BY <2>1, <2>3, <3>1 DEF FlagsInv
    <3> QED
      BY <1>1, <2>1, <2>3, <3>1, <3>2 DEF FlagsInv
  <2>5. OneWaiter' /\ OneJoin' /\ NoSleepOverEnded'
    BY <1>1, <2>1, <2>3 DEF OneWaiter, OneJoin, NoSleepOverEnded
  <2> QED
    BY <2>2, <2>4, <2>5 DEF PosixJoinInv
<1>5. ASSUME NEW t \in Threads, NEW s \in Seq(Threads), StartJoin(t, s),
             \/ ~Duplicate(s) /\ FinishOrSleep(t, s)
             \/ UNCHANGED <<handle1, jpc, want, joined, evenly>>
      PROVE  JoinType' /\ PosixJoinInv'
  <2>1. /\ life' = life /\ synchro' = synchro /\ goAhead' = goAhead /\ jpc[t] = "dylan"
        /\ \A w \in Named(s) : life[w] # "unborn"
    BY <1>5 DEF StartJoin, Active
  <2>2. CASE ~Duplicate(s) /\ FinishOrSleep(t, s)
    <3>0. Named(s) \in SUBSET Threads
      BY NamedThreads
    <3>1. \A w \in Named(s) : /\ "JOINED" \notin handle1[w] /\ w \notin evenly
                              /\ \A u \in Threads : ~Waits(u, w)
      BY <1>1, <2>2, <3>0 DEF Duplicate, FlagsInv
    <3> QED
      BY <2>1, <2>2, <3>1, FinishOrSleepStep
  <2>3. CASE UNCHANGED <<handle1, jpc, want, joined, evenly>>
    <3>1. /\ handle1' = handle1 /\ jpc' = jpc /\ want' = want /\ joined' = joined
          /\ evenly' = evenly
      BY <2>3
    <3>2. JoinType'
      BY <1>0, <1>1, <2>1, <3>1 DEF JoinType
    <3>3. \A u, w \in Threads : Waits(u, w)' <=> Waits(u, w)
      BY <1>1, <2>1, <3>1 DEF Waits
    <3>4. \A w \in Threads : FlagsInv(w)'
      BY <1>1, <2>1, <3>1, <3>3 DEF FlagsInv
    <3>5. OneWaiter' /\ OneJoin' /\ NoSleepOverEnded'
      BY <1>1, <2>1, <3>1, <3>3 DEF OneWaiter, OneJoin, NoSleepOverEnded
    <3> QED
      BY <3>2, <3>4, <3>5 DEF PosixJoinInv
  <2> QED
    BY <1>5, <2>2, <2>3
<1>6. ASSUME NEW t \in Threads, PosixJoinWake(t)
      PROVE  JoinType' /\ PosixJoinInv'
  <2>1. /\ FinishOrSleep(t, want[t]) /\ jpc[t] = "awake" /\ life' = life
        /\ UNCHANGED <<synchro, goAhead>>
    BY <1>6 DEF PosixJoinWake
  <2>2. want[t] \in Seq(Threads) /\ Named(want[t]) \in SUBSET Threads
    BY <1>1, NamedThreads
  <2>3. \A w \in Named(want[t]) : Waits(t, w)
    BY <2>1 DEF Waits
  <2>4. \A w \in Named(want[t]) : /\ life[w] # "unborn" /\ "JOINED" \notin handle1[w]
                                  /\ w \notin evenly
                                  /\ \A u \in Threads \ {t} : ~Waits(u, w)
    BY <1>1, <2>2, <2>3 DEF FlagsInv, OneWaiter
  <2> QED
    BY <2>1, <2>2, <2>4, FinishOrSleepStep
<1>7. CASE \E t, w \in Threads : PosixMakeThread(t, w)
  BY <1>3, <1>7 DEF PosixMakeThread
<1>8. CASE \E t \in Threads : PosixInitializeSpecialThread(t)
  BY <1>3, <1>8 DEF PosixInitializeSpecialThread, SpecialThread
<1>9. CASE \E t, w \in Threads : PosixJoinSingle(t, w)
  <2>1. PICK t \in Threads, w \in Threads : PosixJoinSingle(t, w)
    BY <1>9
  <2>2. <<w>> \in Seq(Threads)
    OBVIOUS
  <2> QED
    BY <1>5, <2>1, <2>2 DEF PosixJoinSingle
<1>10. CASE \E t \in Threads, s \in Vectors : PosixJoinMultiple(t, s)
  BY <1>5, <1>10, VectorsNameThreads DEF PosixJoinMultiple
<1> QED
  BY <1>2, <1>4, <1>6, <1>7, <1>8, <1>9, <1>10

LEMMA UnixJoinStep ==
  ASSUME Unix, Unix', JoinType, UnixJoinInv, NextJoin
  PROVE  JoinType' /\ UnixJoinInv'
<1>0. /\ Life = {"unborn", "running", "done"} /\ Life' = Life
      /\ Handle = {"null", "thread", "event"} /\ Handle' = Handle
      /\ JoinPlaces = {"dylan"} /\ JoinPlaces' = {"dylan"} /\ ~Posix /\ ~Windows
  BY DEF Life, Handle, JoinPlaces, Posix, Windows, Unix
<1>1. /\ life \in [Threads -> {"unborn", "running", "done"}]
      /\ handle1 \in [Threads -> {"null", "thread", "event"}]
      /\ jpc \in [Threads -> {"dylan"}] /\ want \in [Threads -> Seq(Threads)]
      /\ joined \in SUBSET (Threads \X Threads) /\ evenly \in SUBSET Threads
      /\ synchro \in SUBSET Threads /\ goAhead \in SUBSET Threads
      /\ (\A p \in joined : life[p[2]] = "done" /\ handle1[p[2]] = "null") /\ OneJoin
  BY <1>0 DEF JoinType, UnixJoinInv
<1>2. \/ \E t, w \in Threads : UnixMakeThread(t, w) \/ KernelJoin(t, w)
      \/ \E t \in Threads : UnixInitializeSpecialThread(t) \/ UnixTrampolineBody(t)
  BY <1>0, <1>1, VectorsNameThreads
     DEF NextJoin, PosixMakeThread, WindowsMakeThread, PosixInitializeSpecialThread,
         WindowsInitializeSpecialThread, DebuggerGoAhead, WindowsInitializeCurrentThread,
         PosixTrampoline, WindowsTrampolineBody, UnixJoinSingle, UnixJoinMultiple,
         PosixJoinSingle, PosixJoinMultiple, StartJoin, PosixJoinWake,
         WindowsJoinSingle, WindowsJoinMultiple, WaitForObject
<1>3. ASSUME NEW t \in Threads, life[t] = "unborn", SetHandle(t, "thread"), Live(t, "running"),
             UNCHANGED <<synchro, goAhead, jpc, want, joined, evenly>>
      PROVE  JoinType' /\ UnixJoinInv'
  BY <1>0, <1>1, <1>3 DEF SetHandle, Live, JoinType, UnixJoinInv, OneJoin
<1>4. ASSUME NEW t \in Threads, UnixTrampolineBody(t)
      PROVE  JoinType' /\ UnixJoinInv'
  BY <1>0, <1>1, <1>4
     DEF UnixTrampolineBody, EndThread, Active, Live, JoinType, UnixJoinInv, OneJoin
<1>5. ASSUME NEW t \in Threads, NEW w \in Threads, KernelJoin(t, w)
      PROVE  JoinType' /\ UnixJoinInv'
  <2>1. /\ handle1[w] = "thread" /\ life[w] = "done" /\ handle1' = [handle1 EXCEPT ![w] = "null"]
        /\ joined' = joined \cup {<<t, w>>}
        /\ UNCHANGED <<life, synchro, goAhead, jpc, want, evenly>>
    BY <1>5 DEF KernelJoin, SetHandle
  <2>2. \A u \in Threads : <<u, w>> \notin joined
    BY <1>1, <2>1
  <2>3. JoinType'
    BY <1>0, <1>1, <2>1 DEF JoinType
  <2>4. \A p \in joined' : life'[p[2]] = "done" /\ handle1'[p[2]] = "null"
    BY <1>1, <2>1
  <2>5. OneJoin'
    BY <1>1, <2>1, <2>2 DEF OneJoin
  <2> QED
    BY <2>3, <2>4, <2>5 DEF UnixJoinInv
<1> QED
  BY <1>2, <1>3, <1>4, <1>5 DEF UnixMakeThread, UnixInitializeSpecialThread, SpecialThread

LEMMA WindowsJoinStep ==
  ASSUME Windows, Windows', JoinType, WindowsJoinInv, NextJoin
  PROVE  JoinType' /\ WindowsJoinInv'
<1>0. /\ Life = {"unborn", "held", "running", "done"} /\ Life' = Life
      /\ Handle = {"null", "thread", "event"} /\ Handle' = Handle
      /\ JoinPlaces = {"dylan"} /\ JoinPlaces' = {"dylan"} /\ ~Posix /\ ~Unix
  BY DEF Life, Handle, JoinPlaces, Posix, Windows, Unix
<1>1. /\ life \in [Threads -> {"unborn", "held", "running", "done"}]
      /\ handle1 \in [Threads -> {"null", "thread", "event"}]
      /\ jpc \in [Threads -> {"dylan"}] /\ want \in [Threads -> Seq(Threads)]
      /\ joined \in SUBSET (Threads \X Threads) /\ evenly \in SUBSET Threads
      /\ synchro \in SUBSET Threads /\ goAhead \in SUBSET Threads
      /\ \A p \in joined : life[p[2]] = "done" \/ p[2] \in synchro
      /\ \A w \in Threads : handle1[w] = "event" => w \in synchro
  BY <1>0 DEF JoinType, WindowsJoinInv
<1>2. \/ \E t, w \in Threads : WindowsMakeThread(t, w) \/ WaitForObject(t, w)
      \/ \E t \in Threads : \/ WindowsInitializeSpecialThread(t) \/ WindowsTrampolineBody(t)
                           \/ DebuggerGoAhead(t) \/ WindowsInitializeCurrentThread(t)
  BY <1>0, <1>1, VectorsNameThreads
     DEF NextJoin, PosixMakeThread, UnixMakeThread, PosixInitializeSpecialThread,
         UnixInitializeSpecialThread, PosixTrampoline, UnixTrampolineBody,
         UnixJoinSingle, UnixJoinMultiple, KernelJoin, PosixJoinSingle, PosixJoinMultiple,
         StartJoin, PosixJoinWake, WindowsJoinSingle, WindowsJoinMultiple
<1>3. ASSUME NEW t \in Threads, NEW w \in Threads, WindowsMakeThread(t, w)
      PROVE  JoinType' /\ WindowsJoinInv'
  <2>1. /\ handle1' = [handle1 EXCEPT ![w] = "thread"] \/ (handle1' = [handle1 EXCEPT ![w] = "event"] /\ w \in synchro')
        /\ life' = [life EXCEPT ![w] = "running"] \/ life' = [life EXCEPT ![w] = "held"]
        /\ life[w] = "unborn" /\ synchro \subseteq synchro' /\ synchro' \in SUBSET Threads
        /\ goAhead' = goAhead /\ jpc' = jpc /\ want' = want /\ joined' = joined /\ evenly' = evenly
    BY <1>1, <1>3 DEF WindowsMakeThread, SetHandle, Live
  <2>2. JoinType'
    <3>1. /\ handle1' \in [Threads -> {"null", "thread", "event"}]
          /\ life' \in [Threads -> {"unborn", "held", "running", "done"}]
      BY <1>1, <2>1
    <3> QED
      BY <1>0, <1>1, <2>1, <3>1 DEF JoinType
  <2>3. \A p \in joined : life'[p[2]] = "done" \/ p[2] \in synchro'
    BY <1>1, <2>1
  <2>4. \A u \in Threads : handle1'[u] = "event" => u \in synchro'
    BY <1>1, <2>1
  <2> QED
    BY <2>1, <2>2, <2>3, <2>4 DEF WindowsJoinInv
<1>4. ASSUME NEW t \in Threads, WindowsInitializeSpecialThread(t)
      PROVE  JoinType' /\ WindowsJoinInv'
  BY <1>0, <1>1, <1>4
     DEF WindowsInitializeSpecialThread, SpecialThread, SetHandle, Live, JoinType, WindowsJoinInv
<1>5. ASSUME NEW t \in Threads, WindowsTrampolineBody(t)
      PROVE  JoinType' /\ WindowsJoinInv'
  BY <1>0, <1>1, <1>5
     DEF WindowsTrampolineBody, EndThread, Active, Live, JoinType, WindowsJoinInv
<1>6. ASSUME NEW t \in Threads, DebuggerGoAhead(t)
      PROVE  JoinType' /\ WindowsJoinInv'
  BY <1>0, <1>1, <1>6 DEF DebuggerGoAhead, JoinType, WindowsJoinInv
<1>7. ASSUME NEW t \in Threads, WindowsInitializeCurrentThread(t)
      PROVE  JoinType' /\ WindowsJoinInv'
  BY <1>0, <1>1, <1>7
     DEF WindowsInitializeCurrentThread, SetHandle, Live, JoinType, WindowsJoinInv
<1>8. ASSUME NEW t \in Threads, NEW w \in Threads, WaitForObject(t, w)
      PROVE  JoinType' /\ WindowsJoinInv'
  BY <1>0, <1>1, <1>8 DEF WaitForObject, Signalled, JoinType, WindowsJoinInv
<1> QED
  BY <1>2, <1>3, <1>4, <1>5, <1>6, <1>7, <1>8

LEMMA JoinInit == Init => JoinInv
<1> SUFFICES ASSUME Init PROVE JoinInv
  OBVIOUS
<1>1. runtime \in {"posix", "unix", "windows"} /\ InitJoin
  BY DEF Init, InitRuntime
<1>2. JoinType
  BY <1>1 DEF InitJoin, JoinType, Life, Handle, JoinPlaces
<1>3. Posix => PosixJoinInv
  BY <1>1 DEF InitJoin, PosixJoinInv, FlagsInv, OneWaiter, OneJoin, NoSleepOverEnded, Waits
<1>4. Unix => UnixJoinInv
  BY <1>1 DEF InitJoin, UnixJoinInv, OneJoin
<1>5. Windows => WindowsJoinInv
  BY <1>1 DEF InitJoin, WindowsJoinInv, Posix, Windows
<1> QED
  BY <1>1, <1>2, <1>3, <1>4, <1>5 DEF JoinInv

LEMMA JoinNext == JoinInv /\ [Next]_vars => JoinInv'
<1> SUFFICES ASSUME JoinInv, [Next]_vars PROVE JoinInv'
  OBVIOUS
<1>1. runtime' = runtime /\ (NextJoin \/ UNCHANGED joinVars)
  BY JoinFrame
<1>2. (Posix' <=> Posix) /\ (Unix' <=> Unix) /\ (Windows' <=> Windows)
  BY <1>1 DEF Posix, Unix, Windows
<1>3. Life' = Life /\ Handle' = Handle /\ JoinPlaces' = JoinPlaces
  BY <1>2 DEF Life, Handle, JoinPlaces
<1>4. CASE UNCHANGED joinVars
  BY <1>1, <1>2, <1>3, <1>4
     DEF joinVars, JoinInv, JoinType, PosixJoinInv, FlagsInv, OneWaiter, OneJoin, NoSleepOverEnded,
         Waits, UnixJoinInv, WindowsJoinInv
<1>5. CASE NextJoin
  BY <1>1, <1>2, <1>5, PosixJoinStep, UnixJoinStep, WindowsJoinStep
     DEF JoinInv, Posix, Unix, Windows
<1> QED
  BY <1>1, <1>4, <1>5

\* A join of any of the three runtimes returns a thread that has ended, only one join does
\* where the runtime says so, no joiner sleeps over a thread that has ended, and a mark is left
\* behind on the threads, and only those, that a vector named an even number of times.
THEOREM JoinsReturnEndedThreads == Spec => []JoinsAreSound
<1>1. ASSUME JoinInv PROVE JoinReturnsEndedThread
  <2>1. joined \in SUBSET (Threads \X Threads)
    BY <1>1 DEF JoinInv, JoinType
  <2>2. ASSUME NEW p \in joined PROVE life[p[2]] = "done" \/ p[2] \in synchro
    <3>1. p = <<p[1], p[2]>> /\ p[1] \in Threads /\ p[2] \in Threads
      BY <2>1
    <3>2. CASE Posix
      BY <1>1, <2>2, <3>1, <3>2 DEF JoinInv, PosixJoinInv, FlagsInv
    <3> QED
      BY <1>1, <2>2, <3>2 DEF JoinInv, UnixJoinInv, WindowsJoinInv, Posix, Unix, Windows
  <2>3. ASSUME ~Windows, NEW p \in joined, NEW q \in joined, q[2] = p[2] PROVE q = p
    <3>1. /\ p = <<p[1], p[2]>> /\ p[1] \in Threads /\ p[2] \in Threads
          /\ q = <<q[1], q[2]>> /\ q[1] \in Threads /\ q[2] \in Threads
      BY <2>1
    <3>2. OneJoin
      BY <1>1, <2>3 DEF JoinInv, PosixJoinInv, UnixJoinInv, Posix, Unix, Windows
    <3> QED
      BY <2>3, <3>1, <3>2 DEF OneJoin
  <2> QED
    BY <2>2, <2>3 DEF JoinReturnsEndedThread
<1>2. ASSUME JoinInv PROVE JoinersMarkAndWake
  <2>1. SUFFICES ASSUME Posix PROVE JoinersMarkAndWake
    BY DEF JoinersMarkAndWake
  <2>2. /\ \A w \in Threads : FlagsInv(w)
        /\ NoSleepOverEnded /\ want \in [Threads -> Seq(Threads)]
        /\ \A t \in Threads : Named(want[t]) \in SUBSET Threads
    BY <1>2, <2>1, NamedThreads DEF JoinInv, PosixJoinInv, JoinType
  <2>3. \A t \in Threads : jpc[t] = "asleep" => \A w \in Named(want[t]) : "COMPLETED" \notin handle1[w]
    BY <2>2 DEF FlagsInv, NoSleepOverEnded
  <2> QED
    BY <2>2, <2>3 DEF JoinersMarkAndWake, FlagsInv, Waits
<1>3. JoinInv => JoinsAreSound
  BY <1>1, <1>2 DEF JoinsAreSound
<1> QED
  BY <1>3, JoinInit, JoinNext, PTL DEF Spec

-----------------------------------------------------------------------------
(* Semaphores: only the posix runtime without POSIX semaphores has a       *)
(* protocol of its own.                                                    *)

Asleep == {"asleep", "timedasleep"}
SemaphorePlaces == {"dylan", "test", "timedtest", "increment", "signal"} \cup Asleep
PosixSemaphore == [count : Nat, mutex : Owner, cond : SUBSET Threads]
Takers == {t \in Threads : \/ npc[t] \in {"signal", "test", "timedtest"}
                           \/ npc[t] \in Asleep /\ t \notin nsem.cond}

EmulatedInv == /\ Posix /\ nsem \in PosixSemaphore
               /\ npc \in [Threads -> SemaphorePlaces]
               /\ \A t \in nsem.cond : npc[t] \in Asleep
               /\ nsem.cond # {} => nsem.count <= Cardinality(Takers)
SemaphoreInv == emulated \in BOOLEAN /\ (emulated => EmulatedInv)

LEMMA SemaphoreStep ==
  ASSUME emulated, Posix', EmulatedInv, NextNativeSemaphore
  PROVE  EmulatedInv'
<1> USE NativeThreadsAssumption
<1> DEFINE n == nsem.count
           C == nsem.cond
           K == Cardinality(Takers)
<1>1. /\ nsem \in PosixSemaphore /\ n \in Nat /\ C \in SUBSET Threads /\ nsem.mutex \in Owner
      /\ npc \in [Threads -> SemaphorePlaces]
      /\ \A t \in C : npc[t] \in Asleep
      /\ C # {} => n <= K
      /\ Takers \in SUBSET Threads /\ Takers' \in SUBSET Threads
      /\ K \in Nat /\ Cardinality(Takers') \in Nat
  <2>1. Takers \in SUBSET Threads /\ Takers' \in SUBSET Threads
    BY DEF Takers
  <2> QED
    BY <2>1, Counting DEF EmulatedInv, PosixSemaphore
<1>2. PICK t \in Threads :
        \/ \E l \in {"test", "timedtest", "increment"} : LockSemaphore(t, l)
        \/ PosixTestCount(t) \/ PosixWake(t) \/ PosixSpuriousWake(t) \/ PosixSemaphoreTimeout(t)
        \/ PosixIncrement(t) \/ PosixSignal(t)
  BY DEF NextNativeSemaphore, UnixWaitForSemaphore, UnixWaitForSemaphoreTimed,
         UnixReleaseSemaphore, WindowsWaitForSemaphore, WindowsWaitForSemaphoreTimed,
         WindowsReleaseSemaphore, PosixWaitForSemaphore, PosixWaitForSemaphoreTimed,
         PosixReleaseSemaphore, EmulatedInv, Posix, Unix, Windows
\* What the size of the takers does when one thread joins or leaves them.
<1>3. ASSUME NEW u \in Threads, Takers' = Takers \cup {u}
      PROVE  Cardinality(Takers') = IF u \in Takers THEN K ELSE K + 1
  <2>1. CASE u \in Takers
    BY <1>3, <2>1
  <2>2. CASE u \notin Takers
    BY <1>1, <1>3, <2>2, Counting
  <2> QED
    BY <2>1, <2>2
<1>4. ASSUME NEW u \in Takers, Takers' = Takers \ {u}
      PROVE  Cardinality(Takers') = K - 1
  BY <1>1, <1>4, Counting
<1>5. ASSUME NEW l \in {"test", "timedtest", "increment"}, LockSemaphore(t, l)
      PROVE  EmulatedInv'
  <2>1. nsem' = [nsem EXCEPT !.mutex = t] /\ npc' = [npc EXCEPT ![t] = l] /\ npc[t] = "dylan"
    BY <1>5 DEF LockSemaphore, NGoto
  <2>2. nsem' \in PosixSemaphore /\ nsem'.count = n /\ nsem'.cond = C
    BY <1>1, <2>1 DEF PosixSemaphore, Owner
  <2>3. npc' \in [Threads -> SemaphorePlaces] /\ \A u \in C : npc'[u] \in Asleep
    BY <1>1, <2>1 DEF SemaphorePlaces, Asleep
  <2>4. Takers' = IF l = "increment" THEN Takers ELSE Takers \cup {t}
    BY <1>1, <2>1, <2>2 DEF Takers, Asleep
  <2>5. C # {} => n <= Cardinality(Takers')
    BY <1>1, <1>3, <2>4
  <2> QED
    BY <2>2, <2>3, <2>5 DEF EmulatedInv
<1>6. CASE PosixTestCount(t)
  <2>1. npc[t] \in {"test", "timedtest"} /\ t \in Takers
    BY <1>2, <1>6 DEF PosixTestCount, Takers
  <2>2. CASE n > 0
    <3>1. /\ nsem' = [nsem EXCEPT !.count = @ - 1, !.mutex = NoThread]
          /\ npc' = [npc EXCEPT ![t] = "dylan"]
      BY <1>6, <2>2 DEF PosixTestCount, NGoto
    <3>2. nsem' \in PosixSemaphore /\ nsem'.count = n - 1 /\ nsem'.cond = C
      <4>1. NoThread \in Owner /\ n - 1 \in Nat /\ nsem \in PosixSemaphore
        BY <1>1, <2>2 DEF Owner
      <4> QED
        BY <3>1, <4>1 DEF PosixSemaphore
    <3>3. npc' \in [Threads -> SemaphorePlaces] /\ \A u \in C : npc'[u] \in Asleep
      BY <1>1, <2>1, <3>1 DEF SemaphorePlaces, Asleep
    <3>4. Takers' = Takers \ {t}
      BY <1>1, <3>1, <3>2 DEF Takers, Asleep
    <3>5. C # {} => n - 1 <= Cardinality(Takers')
      BY <1>1, <1>4, <2>1, <3>4
    <3> QED
      BY <3>2, <3>3, <3>5 DEF EmulatedInv
  <2>3. CASE ~(n > 0)
    <3>1. /\ nsem' = [nsem EXCEPT !.mutex = NoThread, !.cond = @ \cup {t}]
          /\ npc' = [npc EXCEPT ![t] = IF npc[t] = "test" THEN "asleep" ELSE "timedasleep"]
      BY <1>6, <2>3 DEF PosixTestCount, NGoto
    <3>2. nsem' \in PosixSemaphore /\ nsem'.count = 0 /\ nsem'.cond = C \cup {t}
      <4>1. NoThread \in Owner /\ n = 0 /\ C \cup {t} \in SUBSET Threads /\ nsem \in PosixSemaphore
        BY <1>1, <1>2, <2>3 DEF Owner
      <4> QED
        BY <3>1, <4>1 DEF PosixSemaphore
    <3>3. npc' \in [Threads -> SemaphorePlaces] /\ \A u \in C \cup {t} : npc'[u] \in Asleep
      BY <1>1, <3>1 DEF SemaphorePlaces, Asleep
    <3> QED
      BY <1>1, <3>2, <3>3 DEF EmulatedInv
  <2> QED
    BY <2>2, <2>3
<1>7. CASE PosixWake(t)
  <2>1. /\ nsem' = [nsem EXCEPT !.mutex = t] /\ npc[t] \in Asleep /\ t \notin C
        /\ npc' = [npc EXCEPT ![t] = IF npc[t] = "asleep" THEN "test" ELSE "timedtest"]
    BY <1>7 DEF PosixWake, NGoto, Asleep
  <2>2. nsem' \in PosixSemaphore /\ nsem'.count = n /\ nsem'.cond = C
    BY <1>1, <2>1 DEF PosixSemaphore, Owner
  <2>3. npc' \in [Threads -> SemaphorePlaces] /\ \A u \in C : npc'[u] \in Asleep
    BY <1>1, <2>1 DEF SemaphorePlaces, Asleep
  <2>4. Takers' = Takers
    BY <1>1, <2>1, <2>2 DEF Takers, Asleep
  <2> QED
    BY <1>1, <2>2, <2>3, <2>4 DEF EmulatedInv
<1>8. CASE PosixSpuriousWake(t)
  <2>1. nsem' = [nsem EXCEPT !.cond = @ \ {t}] /\ npc' = npc /\ t \in C
    BY <1>8 DEF PosixSpuriousWake
  <2>2. nsem' \in PosixSemaphore /\ nsem'.count = n /\ nsem'.cond = C \ {t}
    BY <1>1, <2>1 DEF PosixSemaphore
  <2>3. Takers' = Takers \cup {t}
    BY <1>1, <2>1, <2>2 DEF Takers
  <2>4. C # {} => n <= Cardinality(Takers')
    BY <1>1, <1>3, <2>3
  <2> QED
    BY <1>1, <2>1, <2>2, <2>4 DEF EmulatedInv
<1>9. CASE PosixSemaphoreTimeout(t)
  <2>1. /\ nsem' = [nsem EXCEPT !.cond = @ \ {t}] /\ npc' = [npc EXCEPT ![t] = "dylan"] /\ t \in C
    BY <1>9 DEF PosixSemaphoreTimeout, NGoto
  <2>2. nsem' \in PosixSemaphore /\ nsem'.count = n /\ nsem'.cond = C \ {t}
    BY <1>1, <2>1 DEF PosixSemaphore
  <2>3. npc' \in [Threads -> SemaphorePlaces] /\ \A u \in C \ {t} : npc'[u] \in Asleep
    BY <1>1, <2>1 DEF SemaphorePlaces, Asleep
  <2>4. Takers' = Takers
    BY <1>1, <2>1, <2>2 DEF Takers, Asleep
  <2> QED
    BY <1>1, <2>1, <2>2, <2>3, <2>4 DEF EmulatedInv
<1>10. CASE PosixIncrement(t)
  <2>1. npc[t] = "increment"
    BY <1>10 DEF PosixIncrement
  <2>2. CASE n >= MaximumCount
    <3>1. nsem' = nsem /\ npc' = [npc EXCEPT ![t] = "dylan"]
      BY <1>10, <2>2 DEF PosixIncrement, NGoto
    <3>2. npc' \in [Threads -> SemaphorePlaces] /\ \A u \in C : npc'[u] \in Asleep
      BY <1>1, <2>1, <3>1 DEF SemaphorePlaces, Asleep
    <3>3. Takers' = Takers
      BY <1>1, <2>1, <3>1 DEF Takers, Asleep
    <3> QED
      BY <1>1, <3>1, <3>2, <3>3 DEF EmulatedInv
  <2>3. CASE ~(n >= MaximumCount)
    <3>1. /\ nsem' = [nsem EXCEPT !.count = @ + 1, !.mutex = NoThread]
          /\ npc' = [npc EXCEPT ![t] = "signal"]
      BY <1>10, <2>3 DEF PosixIncrement, NGoto
    <3>2. nsem' \in PosixSemaphore /\ nsem'.count = n + 1 /\ nsem'.cond = C
      <4>1. NoThread \in Owner /\ n + 1 \in Nat /\ nsem \in PosixSemaphore
        BY <1>1 DEF Owner
      <4> QED
        BY <3>1, <4>1 DEF PosixSemaphore
    <3>3. npc' \in [Threads -> SemaphorePlaces] /\ \A u \in C : npc'[u] \in Asleep
      BY <1>1, <2>1, <3>1 DEF SemaphorePlaces, Asleep
    <3>4. Takers' = Takers \cup {t} /\ t \notin Takers
      BY <1>1, <2>1, <3>1, <3>2 DEF Takers, Asleep
    <3>5. C # {} => n + 1 <= Cardinality(Takers')
      BY <1>1, <1>3, <3>4
    <3> QED
      BY <3>2, <3>3, <3>5 DEF EmulatedInv
  <2> QED
    BY <2>2, <2>3
<1>11. CASE PosixSignal(t)
  <2>1. npc[t] = "signal" /\ npc' = [npc EXCEPT ![t] = "dylan"] /\ t \in Takers
    BY <1>2, <1>11 DEF PosixSignal, NGoto, Takers
  <2>2. npc' \in [Threads -> SemaphorePlaces] /\ \A u \in C : npc'[u] \in Asleep
    BY <1>1, <2>1 DEF SemaphorePlaces, Asleep
  <2>3. CASE C = {} /\ nsem' = nsem
    BY <1>1, <2>2, <2>3 DEF EmulatedInv
  <2>4. CASE \E u \in C : nsem' = [nsem EXCEPT !.cond = @ \ {u}]
    <3>1. PICK u \in C : nsem' = [nsem EXCEPT !.cond = @ \ {u}]
      BY <2>4
    <3>2. nsem' \in PosixSemaphore /\ nsem'.count = n /\ nsem'.cond = C \ {u}
      BY <1>1, <3>1 DEF PosixSemaphore
    <3>3. u \in Threads /\ u \notin Takers /\ u # t
      BY <1>1, <2>1 DEF Takers, Asleep
    <3>4. Takers' = (Takers \ {t}) \cup {u}
      BY <1>1, <2>1, <3>2 DEF Takers, Asleep
    <3>5. Cardinality(Takers \ {t}) = K - 1 /\ Takers \ {t} \in SUBSET Threads
      BY <1>1, <2>1, Counting
    <3>6. Cardinality(Takers') = K - 1 + 1
      BY <3>3, <3>4, <3>5, Counting
    <3>7. n <= Cardinality(Takers')
      BY <1>1, <3>6
    <3> QED
      BY <2>2, <3>2, <3>7 DEF EmulatedInv
  <2> QED
    BY <1>11, <2>3, <2>4 DEF PosixSignal
<1> QED
  BY <1>2, <1>5, <1>6, <1>7, <1>8, <1>9, <1>10, <1>11

\* A unit released while threads sleep on the condition variable of an emulated semaphore
\* has a thread on its way to take it or to wake a taker, whatever wakes and times out.
THEOREM ReleasedUnitsHaveTakers == Spec => []UnitsHaveTakers
<1>1. Init => SemaphoreInv
  <2> SUFFICES ASSUME Init, emulated PROVE EmulatedInv
    BY DEF Init, InitNativeSemaphore, SemaphoreInv
  <2>1. Posix /\ nsem \in PosixMakeSemaphore /\ npc = [t \in Threads |-> "dylan"]
    BY DEF Init, InitNativeSemaphore, Posix, Unix, Windows
  <2>2. nsem \in PosixSemaphore /\ nsem.cond = {}
    BY <2>1, MaximumAssumption DEF PosixMakeSemaphore, PosixSemaphore, Owner
  <2> QED
    BY <2>1, <2>2 DEF EmulatedInv, SemaphorePlaces
<1>2. SemaphoreInv /\ [Next]_vars => SemaphoreInv'
  <2> SUFFICES ASSUME SemaphoreInv, [Next]_vars PROVE SemaphoreInv'
    OBVIOUS
  <2>1. runtime' = runtime /\ (NextNativeSemaphore \/ UNCHANGED nsemVars)
    BY SemaphoreFrame
  <2>2. Posix' <=> Posix
    BY <2>1 DEF Posix
  <2>3. emulated' = emulated
    BY <2>1 DEF NextNativeSemaphore, UnixWaitForSemaphore, UnixWaitForSemaphoreTimed,
       UnixReleaseSemaphore, WindowsWaitForSemaphore, WindowsWaitForSemaphoreTimed,
       WindowsReleaseSemaphore, PosixWaitForSemaphore, PosixWaitForSemaphoreTimed,
       PosixReleaseSemaphore, LockSemaphore, Increment, Decrement, PosixTestCount, PosixWake,
       PosixSpuriousWake, PosixSemaphoreTimeout, PosixIncrement, PosixSignal, nsemVars
  <2>4. CASE UNCHANGED nsemVars
    BY <2>2, <2>4 DEF nsemVars, SemaphoreInv, EmulatedInv, Takers
  <2>5. CASE NextNativeSemaphore
    <3>1. emulated => EmulatedInv'
      <4> SUFFICES ASSUME emulated PROVE EmulatedInv'
        OBVIOUS
      <4>1. EmulatedInv /\ Posix'
        BY <2>2 DEF SemaphoreInv, EmulatedInv
      <4> QED
        BY <2>5, <4>1, SemaphoreStep
    <3> QED
      BY <2>3, <3>1 DEF SemaphoreInv
  <2> QED
    BY <2>1, <2>4, <2>5
<1>3. SemaphoreInv => UnitsHaveTakers
  BY DEF SemaphoreInv, EmulatedInv, UnitsHaveTakers, Takers, Asleep
<1> QED
  BY <1>1, <1>2, <1>3, PTL DEF Spec

-----------------------------------------------------------------------------
(* Simple locks and notifications.                                         *)

\* posix and unix: a sleeper of the condition variable is asleep.
MutexType == /\ slock \in [owner : Owner, mutex : Owner]
             /\ notif \in [cond : SUBSET Threads]
             /\ mpc \in [Threads -> {"dylan", "own", "unlock", "asleep", "awake"}]
             /\ claimed \in SUBSET Threads
             /\ \A t \in notif.cond : mpc[t] = "asleep"

\* posix: whoever has the lock, or is about to, has the mutex; the owner recorded has
\* the lock or has given it up in a wait, and a thread that has it is the owner unless
\* it has waited or its record was wiped.
PosixHas(t) ==
  /\ t \in claimed \/ mpc[t] = "own" => slock.mutex = t
  /\ slock.owner = t => (mpc[t] = "dylan" /\ t \in claimed) \/ mpc[t] \in {"asleep", "awake"}
  /\ t \in claimed /\ mpc[t] = "dylan" => slock.owner = t \/ t \in unsure
  /\ mpc[t] \in {"asleep", "awake"} => t \in unsure
PosixMonitorInv == MutexType /\ \A t \in Threads : PosixHas(t)

\* unix: the mutex, the owner and the program's view differ only inside a primitive.
UnixHas(t) == /\ slock.mutex = t <=> slock.owner = t \/ mpc[t] \in {"own", "unlock"}
              /\ mpc[t] \in {"own", "unlock"} => slock.owner = NoThread
              /\ t \in claimed <=> slock.owner = t \/ mpc[t] = "unlock"
              /\ slock.owner = t => mpc[t] = "dylan"
UnixMonitorInv == MutexType /\ \A t \in Threads : UnixHas(t)

\* windows: the places of a thread that has the lock, that is passing it on or taking it,
\* and the others.
Inside == {"antiwait", "release", "resetanti", "setnotifier", "recount", "storecount"}
Passing == {"own", "uncount", "post"}
Waiting == {"notifier", "exchange", "leave"}
Outside == {"dylan", "semaphore", "reset", "setanti", "reclaim", "peek"} \cup Waiting
SimpleLock == [owner : Owner, lock_count : Int, semaphore : {0, 1}]
Notification == [notifier : BOOLEAN, anti_notifier : BOOLEAN, target : Int, count : Int]
WindowsMonitorType == /\ slock \in SimpleLock /\ notif \in Notification
                      /\ mpc \in [Threads -> Inside \cup Passing \cup Outside]
                      /\ after \in [Threads -> {"dylan", "notifier"}]
                      /\ tmp \in [Threads -> Int]
                      /\ claimed \in SUBSET Threads /\ torn \in BOOLEAN

\* windows: the owner is the thread that was told so, and lock_count includes its
\* claims, also while the decrement of a refused one is under way.
Owning(t) == /\ t \in claimed <=> slock.owner = t
             /\ slock.owner = t => mpc[t] \in Inside \cup {"dylan"}
             /\ mpc[t] \in Inside => slock.owner = t
             /\ mpc[t] = "recount" => slock.lock_count >= 1
             /\ mpc[t] = "storecount" => tmp[t] >= 1
HasLock(t) == slock.owner = t \/ mpc[t] \in Passing
OneHasLock == \A t, u \in Threads : HasLock(t) /\ HasLock(u) => t = u
LockedOrPosted ==
  /\ slock.semaphore = 1 => \A t \in Threads : ~HasLock(t)
  /\ slock.lock_count >= -1
  /\ slock.lock_count = -1 <=> slock.semaphore = 0 /\ \A t \in Threads : ~HasLock(t)

\* windows: every claim that has not timed out is in lock_count, a refused one too until
\* it has been subtracted.
LockClaims == {t \in Threads : slock.owner = t \/ mpc[t] \in {"own", "semaphore", "uncount"}}
Refused == IF \E t \in Threads : mpc[t] \in {"recount", "storecount"} THEN 1 ELSE 0
LockClaimsCounted == ~torn => Cardinality(LockClaims) + Refused <= slock.lock_count + 1

WindowsLockInv == /\ \A t \in Threads : Owning(t)
                  /\ OneHasLock /\ LockedOrPosted /\ LockClaimsCounted

Waiters == {t \in Threads : \/ mpc[t] \in {"uncount", "post"} /\ after[t] = "notifier"
                            \/ mpc[t] \in Waiting}
WindowsMonitorInv == /\ WindowsMonitorType /\ WindowsLockInv
                     /\ notif.count = Cardinality(Waiters)

MonitorInv == /\ runtime \in {"posix", "unix", "windows"}
              /\ Posix => PosixMonitorInv
              /\ Unix => UnixMonitorInv
              /\ Windows => WindowsMonitorInv

\* The steps of a monitor on a pthread mutex: what each does to the fields.
LEMMA PosixMonitorStep ==
  ASSUME Posix, Posix', PosixMonitorInv, NextMonitor
  PROVE  PosixMonitorInv'
<1> USE NativeThreadsAssumption
<1> DEFINE C == notif.cond
           L == [owner : Owner, mutex : Owner]
           N == [cond : SUBSET Threads]
<1>1. /\ slock \in L /\ slock.owner \in Owner /\ slock.mutex \in Owner
      /\ notif \in N /\ C \in SUBSET Threads
      /\ mpc \in [Threads -> {"dylan", "own", "unlock", "asleep", "awake"}]
      /\ claimed \in SUBSET Threads
      /\ (\A t \in C : mpc[t] = "asleep") /\ \A t \in Threads : PosixHas(t)
  BY DEF PosixMonitorInv, MutexType
<1>2. PICK t \in Threads :
        \/ OwnLock(t) \/ UnlockMutex(t) \/ WakeUp(t) \/ ClaimMutex(t) \/ PosixReleaseSimpleLock(t)
        \/ PosixWaitForNotification(t) \/ PosixWaitForNotificationTimed(t) \/ PosixRetakeMutex(t)
        \/ PosixReleaseNotification(t) \/ PosixReleaseAllNotification(t)
  <2>1. ~Unix /\ ~Windows
    BY DEF Posix, Unix, Windows
  <2> QED
    BY <1>1, <2>1, ZenonT(30)
       DEF NextMonitor, PosixWaitForSimpleLock, PosixWaitForSimpleLockTimed,
           UnixWaitForSimpleLock, UnixWaitForSimpleLockTimed, UnixReleaseSimpleLock,
           UnixWaitForNotification, UnixWaitForNotificationTimed, UnixSleepOnCond, UnixRetakeMutex,
           UnixReleaseNotification, UnixReleaseAllNotification, WindowsWaitForSimpleLock,
           WindowsWaitForSimpleLockTimed, WindowsClaim, WindowsLoadCount, WindowsStoreCount,
           WindowsTakeUnit, WindowsSemaphoreTimeout, WindowsReleaseSimpleLock, WindowsUncount,
           WindowsPost, WindowsWaitForNotification, WindowsWaitForNotificationTimed, WindowsAwait,
           WindowsJoinWaiters, WindowsAntiTimeout, WindowsSeeNotifier, WindowsExchange,
           WindowsLeaveWaiters, WindowsResetNotifier, WindowsSetAnti, WindowsReclaim,
           WindowsNotifierTimeout, WindowsPeekNotifier, WindowsReleaseNotification,
           WindowsReleaseAllNotification, StartRelease, WindowsSetTarget, WindowsResetAnti,
           WindowsSetNotifier
<1>3. CASE OwnLock(t)
  <2>1. /\ slock' = [slock EXCEPT !.owner = t] /\ notif' = notif /\ mpc[t] = "own"
        /\ mpc' = [mpc EXCEPT ![t] = "dylan"] /\ claimed' = claimed \cup {t}
        /\ unsure' = unsure \ {t}
    BY <1>3 DEF OwnLock, Return, Goto
  <2>2. slock' \in L /\ slock'.mutex = slock.mutex /\ slock'.owner = t /\ slock.mutex = t
    BY <1>1, <2>1 DEF Owner, PosixHas
  <2> QED
    BY <1>1, <2>1, <2>2 DEF PosixMonitorInv, MutexType, PosixHas
<1>4. CASE UnlockMutex(t)
  <2>1. /\ slock' = IF slock.mutex = t THEN [slock EXCEPT !.mutex = NoThread] ELSE slock
        /\ notif' = notif /\ mpc[t] = "unlock"
        /\ mpc' = [mpc EXCEPT ![t] = "dylan"] /\ claimed' = claimed \ {t} /\ unsure' = unsure
    BY <1>4 DEF UnlockMutex, Return, Goto
  <2>2. /\ slock' \in L /\ slock'.mutex = IF slock.mutex = t THEN NoThread ELSE slock.mutex
        /\ slock'.owner = slock.owner
    BY <1>1, <2>1 DEF Owner
  <2> QED
    BY <1>1, <2>1, <2>2 DEF PosixMonitorInv, MutexType, PosixHas
<1>5. CASE WakeUp(t)
  <2>1. /\ slock' = slock /\ claimed' = claimed /\ mpc' = [mpc EXCEPT ![t] = "awake"]
        /\ notif' = [notif EXCEPT !.cond = @ \ {t}] /\ mpc[t] = "asleep" /\ unsure' = unsure
    BY <1>5 DEF WakeUp, Goto
  <2>2. notif' \in N /\ notif'.cond = C \ {t}
    BY <1>1, <2>1
  <2> QED
    BY <1>1, <2>1, <2>2 DEF PosixMonitorInv, MutexType, PosixHas
<1>6. CASE ClaimMutex(t)
  <2>1. /\ slock' = [slock EXCEPT !.mutex = t] /\ slock.mutex = NoThread /\ notif' = notif
        /\ mpc' = [mpc EXCEPT ![t] = "own"] /\ mpc[t] = "dylan" /\ claimed' = claimed
        /\ unsure' = unsure
    BY <1>6 DEF ClaimMutex, TakeMutex, Goto
  <2>2. slock' \in L /\ slock'.mutex = t /\ slock'.owner = slock.owner
    BY <1>1, <2>1 DEF Owner
  <2> QED
    BY <1>1, <2>1, <2>2 DEF PosixMonitorInv, MutexType, PosixHas
<1>7. CASE PosixReleaseSimpleLock(t)
  <2>1. /\ slock' = [slock EXCEPT !.owner = NoThread] /\ notif' = notif
        /\ mpc' = [mpc EXCEPT ![t] = "unlock"] /\ mpc[t] = "dylan" /\ claimed' = claimed
        /\ unsure' = unsure \cup ({slock.mutex} \ {t, NoThread})
    BY <1>7 DEF PosixReleaseSimpleLock, Goto
  <2>2. slock' \in L /\ slock'.mutex = slock.mutex /\ slock'.owner = NoThread
    BY <1>1, <2>1 DEF Owner
  <2> QED
    BY <1>1, <2>1, <2>2 DEF PosixMonitorInv, MutexType, PosixHas
<1>8. CASE PosixWaitForNotification(t) \/ PosixWaitForNotificationTimed(t)
  <2>1. /\ slock' = [slock EXCEPT !.mutex = NoThread] /\ slock.mutex = t
        /\ notif' = [notif EXCEPT !.cond = @ \cup {t}]
        /\ mpc' = [mpc EXCEPT ![t] = "asleep"] /\ mpc[t] = "dylan" /\ claimed' = claimed \ {t}
        /\ unsure' = unsure \cup {t}
    BY <1>8 DEF PosixWaitForNotification, PosixWaitForNotificationTimed, PosixSleepOnCond, Call, Goto
  <2>2. slock' \in L /\ slock'.mutex = NoThread /\ slock'.owner = slock.owner
    BY <1>1, <2>1 DEF Owner
  <2>3. notif' \in N /\ notif'.cond = C \cup {t}
    BY <1>1, <2>1
  <2> QED
    BY <1>1, <2>1, <2>2, <2>3 DEF PosixMonitorInv, MutexType, PosixHas
<1>9. CASE PosixRetakeMutex(t)
  <2>1. /\ slock' = [slock EXCEPT !.mutex = t] /\ slock.mutex = NoThread /\ notif' = notif
        /\ mpc' = [mpc EXCEPT ![t] = "dylan"] /\ mpc[t] = "awake" /\ claimed' = claimed \cup {t}
        /\ unsure' = unsure
    BY <1>9 DEF PosixRetakeMutex, TakeMutex, Return, Goto
  <2>2. slock' \in L /\ slock'.mutex = t /\ slock'.owner = slock.owner
    BY <1>1, <2>1 DEF Owner
  <2> QED
    BY <1>1, <2>1, <2>2 DEF PosixMonitorInv, MutexType, PosixHas
<1>10. ASSUME NEW woken \in SUBSET C, SignalCond(t, woken)
       PROVE  PosixMonitorInv'
  <2>1. /\ slock' = slock /\ claimed' = claimed /\ notif' = [notif EXCEPT !.cond = @ \ woken]
        /\ mpc' = [u \in Threads |-> IF u \in woken THEN "awake" ELSE mpc[u]] /\ unsure' = unsure
    BY <1>10 DEF SignalCond
  <2>2. notif' \in N /\ notif'.cond = C \ woken
    <3>1. C \ woken \in SUBSET Threads /\ notif \in N
      BY <1>1
    <3> QED
      BY <2>1, <3>1
  <2> QED
    BY <1>1, <2>1, <2>2 DEF PosixMonitorInv, MutexType, PosixHas
<1>11. CASE PosixReleaseNotification(t) \/ PosixReleaseAllNotification(t)
  <2>1. \E woken \in SUBSET C : SignalCond(t, woken)
    BY <1>11 DEF PosixReleaseNotification, PosixReleaseAllNotification
  <2> QED
    BY <1>10, <2>1
<1> QED
  BY <1>2, <1>3, <1>4, <1>5, <1>6, <1>7, <1>8, <1>9, <1>11

LEMMA UnixMonitorStep ==
  ASSUME Unix, Unix', UnixMonitorInv, NextMonitor
  PROVE  UnixMonitorInv'
<1> USE NativeThreadsAssumption
<1> DEFINE C == notif.cond
           L == [owner : Owner, mutex : Owner]
           N == [cond : SUBSET Threads]
<1>1. /\ slock \in L /\ slock.owner \in Owner /\ slock.mutex \in Owner
      /\ notif \in N /\ C \in SUBSET Threads
      /\ mpc \in [Threads -> {"dylan", "own", "unlock", "asleep", "awake"}]
      /\ claimed \in SUBSET Threads
      /\ (\A t \in C : mpc[t] = "asleep") /\ \A t \in Threads : UnixHas(t)
  BY DEF UnixMonitorInv, MutexType
<1>2. PICK t \in Threads :
        \/ OwnLock(t) \/ UnlockMutex(t) \/ WakeUp(t)
        \/ UnixWaitForSimpleLock(t) \/ UnixWaitForSimpleLockTimed(t) \/ UnixReleaseSimpleLock(t)
        \/ UnixWaitForNotification(t) \/ UnixWaitForNotificationTimed(t) \/ UnixRetakeMutex(t)
        \/ UnixReleaseNotification(t) \/ UnixReleaseAllNotification(t)
  <2>1. ~Posix /\ ~Windows
    BY DEF Posix, Unix, Windows
  <2> QED
    BY <1>1, <2>1, ZenonT(30)
       DEF NextMonitor, PosixWaitForSimpleLock, PosixWaitForSimpleLockTimed,
           PosixReleaseSimpleLock, PosixWaitForNotification, PosixWaitForNotificationTimed,
           PosixSleepOnCond, PosixRetakeMutex, PosixReleaseNotification,
           PosixReleaseAllNotification, WindowsWaitForSimpleLock,
           WindowsWaitForSimpleLockTimed, WindowsClaim, WindowsLoadCount, WindowsStoreCount,
           WindowsTakeUnit, WindowsSemaphoreTimeout, WindowsReleaseSimpleLock, WindowsUncount,
           WindowsPost, WindowsWaitForNotification, WindowsWaitForNotificationTimed, WindowsAwait,
           WindowsJoinWaiters, WindowsAntiTimeout, WindowsSeeNotifier, WindowsExchange,
           WindowsLeaveWaiters, WindowsResetNotifier, WindowsSetAnti, WindowsReclaim,
           WindowsNotifierTimeout, WindowsPeekNotifier, WindowsReleaseNotification,
           WindowsReleaseAllNotification, StartRelease, WindowsSetTarget, WindowsResetAnti,
           WindowsSetNotifier
<1>3. CASE OwnLock(t)
  <2>1. /\ slock' = [slock EXCEPT !.owner = t] /\ notif' = notif /\ mpc[t] = "own"
        /\ mpc' = [mpc EXCEPT ![t] = "dylan"] /\ claimed' = claimed \cup {t}
    BY <1>3 DEF OwnLock, Return, Goto
  <2>2. slock' \in L /\ slock'.mutex = slock.mutex /\ slock'.owner = t
    BY <1>1, <2>1 DEF Owner
  <2> QED
    BY <1>1, <2>1, <2>2 DEF UnixMonitorInv, MutexType, UnixHas
<1>4. CASE UnlockMutex(t)
  <2>1. /\ slock' = [slock EXCEPT !.mutex = NoThread] /\ notif' = notif /\ mpc[t] = "unlock"
        /\ mpc' = [mpc EXCEPT ![t] = "dylan"] /\ claimed' = claimed \ {t} /\ slock.mutex = t
    BY <1>1, <1>4 DEF UnlockMutex, Return, Goto, UnixHas
  <2>2. slock' \in L /\ slock'.mutex = NoThread /\ slock'.owner = slock.owner
    BY <1>1, <2>1 DEF Owner
  <2> QED
    BY <1>1, <2>1, <2>2 DEF UnixMonitorInv, MutexType, UnixHas
<1>5. CASE WakeUp(t)
  <2>1. /\ slock' = slock /\ claimed' = claimed /\ mpc' = [mpc EXCEPT ![t] = "awake"]
        /\ notif' = [notif EXCEPT !.cond = @ \ {t}] /\ mpc[t] = "asleep"
    BY <1>5 DEF WakeUp, Goto
  <2>2. notif' \in N /\ notif'.cond = C \ {t}
    BY <1>1, <2>1
  <2> QED
    BY <1>1, <2>1, <2>2 DEF UnixMonitorInv, MutexType, UnixHas
<1>6. CASE \/ UnixWaitForSimpleLock(t) \/ UnixWaitForSimpleLockTimed(t) \/ UnixRetakeMutex(t)
  <2>1. /\ slock' = [slock EXCEPT !.mutex = t] /\ slock.mutex = NoThread /\ notif' = notif
        /\ mpc' = [mpc EXCEPT ![t] = "own"] /\ mpc[t] \in {"dylan", "awake"} /\ claimed' = claimed
    BY <1>6 DEF UnixWaitForSimpleLock, UnixWaitForSimpleLockTimed, UnixRetakeMutex, ClaimMutex,
                TakeMutex, Goto
  <2>2. slock' \in L /\ slock'.mutex = t /\ slock'.owner = slock.owner
    BY <1>1, <2>1 DEF Owner
  <2>3. slock.owner = NoThread
    BY <1>1, <2>1 DEF UnixHas, Owner
  <2> QED
    BY <1>1, <2>1, <2>2, <2>3 DEF UnixMonitorInv, MutexType, UnixHas
<1>7. CASE UnixReleaseSimpleLock(t)
  <2>1. /\ slock' = [slock EXCEPT !.owner = NoThread] /\ notif' = notif /\ slock.owner = t
        /\ mpc' = [mpc EXCEPT ![t] = "unlock"] /\ mpc[t] = "dylan" /\ claimed' = claimed
    BY <1>7 DEF UnixReleaseSimpleLock, Goto
  <2>2. slock' \in L /\ slock'.mutex = slock.mutex /\ slock'.owner = NoThread
    BY <1>1, <2>1 DEF Owner
  <2> QED
    BY <1>1, <2>1, <2>2 DEF UnixMonitorInv, MutexType, UnixHas
<1>8. CASE UnixWaitForNotification(t) \/ UnixWaitForNotificationTimed(t)
  <2>1. /\ slock' = [slock EXCEPT !.owner = NoThread, !.mutex = NoThread] /\ slock.owner = t
        /\ notif' = [notif EXCEPT !.cond = @ \cup {t}]
        /\ mpc' = [mpc EXCEPT ![t] = "asleep"] /\ mpc[t] = "dylan" /\ claimed' = claimed \ {t}
    BY <1>8 DEF UnixWaitForNotification, UnixWaitForNotificationTimed, UnixSleepOnCond, Call, Goto
  <2>2. slock' \in L /\ slock'.mutex = NoThread /\ slock'.owner = NoThread
    BY <1>1, <2>1 DEF Owner
  <2>3. notif' \in N /\ notif'.cond = C \cup {t}
    BY <1>1, <2>1
  <2> QED
    BY <1>1, <2>1, <2>2, <2>3 DEF UnixMonitorInv, MutexType, UnixHas
<1>9. ASSUME NEW woken \in SUBSET C, SignalCond(t, woken)
      PROVE  UnixMonitorInv'
  <2>1. /\ slock' = slock /\ claimed' = claimed /\ notif' = [notif EXCEPT !.cond = @ \ woken]
        /\ mpc' = [u \in Threads |-> IF u \in woken THEN "awake" ELSE mpc[u]]
    BY <1>9 DEF SignalCond
  <2>2. notif' \in N /\ notif'.cond = C \ woken
    <3>1. C \ woken \in SUBSET Threads /\ notif \in N
      BY <1>1
    <3> QED
      BY <2>1, <3>1
  <2> QED
    BY <1>1, <2>1, <2>2 DEF UnixMonitorInv, MutexType, UnixHas
<1>10. CASE UnixReleaseNotification(t) \/ UnixReleaseAllNotification(t)
  <2>1. \E woken \in SUBSET C : SignalCond(t, woken)
    BY <1>10 DEF UnixReleaseNotification, UnixReleaseAllNotification
  <2> QED
    BY <1>9, <2>1
<1> QED
  BY <1>2, <1>3, <1>4, <1>5, <1>6, <1>7, <1>8, <1>10

\* windows: a step that moves a thread about inside a notification leaves the lock alone.
Idle == Waiting \cup {"reset", "setanti", "reclaim", "peek"}
Calling == {"dylan", "antiwait", "release", "resetanti", "setnotifier"}
Counts(l) == IF l \in Waiting THEN 1 ELSE 0

QuietMove(t, l) ==
  /\ slock' = slock /\ claimed' = claimed /\ torn' = torn /\ mpc' = [mpc EXCEPT ![t] = l]
  /\ \/ slock.owner = t /\ mpc[t] \in Calling /\ l \in Calling
     \/ mpc[t] \in Idle /\ l \in Idle
  /\ notif' \in Notification /\ notif'.count = notif.count + Counts(l) - Counts(mpc[t])
  /\ tmp' \in [Threads -> Int] /\ \A u \in Threads \ {t} : tmp'[u] = tmp[u]
  /\ after' \in [Threads -> {"dylan", "notifier"}]
  /\ \A u \in Threads \ {t} : after'[u] = after[u]

LEMMA WindowsQuietStep ==
  ASSUME NEW t \in Threads, NEW l \in Idle \cup Calling, WindowsMonitorInv, QuietMove(t, l)
  PROVE  WindowsMonitorInv'
<1> USE DEF QuietMove
<1>1. /\ slock \in SimpleLock /\ notif \in Notification /\ notif.count \in Int
      /\ mpc \in [Threads -> Inside \cup Passing \cup Outside]
      /\ tmp \in [Threads -> Int] /\ claimed \in SUBSET Threads /\ torn \in BOOLEAN
      /\ (\A u \in Threads : Owning(u)) /\ OneHasLock /\ LockedOrPosted /\ LockClaimsCounted
      /\ notif.count = Cardinality(Waiters)
  BY DEF WindowsMonitorInv, WindowsMonitorType, WindowsLockInv, Notification
<1>2. mpc[t] \in Idle \cup Calling /\ l \in Idle \cup Calling
  OBVIOUS
<1>3. WindowsMonitorType'
  BY <1>1, <1>2
     DEF WindowsMonitorType, Inside, Passing, Outside, Idle, Calling, Waiting
<1>4. \A u \in Threads : (HasLock(u)' <=> HasLock(u)) /\ (mpc[u] \in Idle => slock.owner # u)
  BY <1>1, <1>2 DEF HasLock, Passing, Idle, Calling, Waiting, Owning, Inside
<1>5. \A u \in Threads : Owning(u)'
  <2>1. \A u \in Threads \ {t} : Owning(u)'
    BY <1>1 DEF Owning
  <2>2. Owning(t)'
    BY <1>1, <1>2, <1>4 DEF Owning, Inside, Idle, Calling, Waiting
  <2> QED
    BY <2>1, <2>2
<1>6. OneHasLock' /\ LockedOrPosted'
  BY <1>1, <1>4 DEF OneHasLock, LockedOrPosted
<1>7. LockClaims' = LockClaims /\ Refused' = Refused
  BY <1>1, <1>2 DEF LockClaims, Refused, Idle, Calling, Waiting
<1>8. LockClaimsCounted'
  BY <1>1, <1>7 DEF LockClaimsCounted
<1>9. notif'.count = Cardinality(Waiters')
  <2>1. Waiters \in SUBSET Threads
    BY DEF Waiters
  <2>2. /\ t \in Waiters <=> mpc[t] \in Waiting
        /\ Waiters' = IF l \in Waiting THEN Waiters \cup {t} ELSE Waiters \ {t}
    BY <1>1, <1>2 DEF Waiters, Idle, Calling, Waiting
  <2>3. CASE l \in Waiting <=> mpc[t] \in Waiting
    <3>1. Waiters' = Waiters
      BY <2>2, <2>3
    <3>2. Counts(l) = Counts(mpc[t]) /\ Counts(l) \in Int
      BY <2>3 DEF Counts
    <3>3. notif'.count = notif.count
      BY <1>1, <3>2
    <3> QED
      BY <1>1, <3>1, <3>3
  <2>4. CASE l \in Waiting /\ mpc[t] \notin Waiting
    BY <1>1, <2>1, <2>2, <2>4, Counting DEF Counts
  <2>5. CASE l \notin Waiting /\ mpc[t] \in Waiting
    BY <1>1, <2>1, <2>2, <2>5, Counting DEF Counts
  <2> QED
    BY <2>3, <2>4, <2>5
<1> QED
  BY <1>3, <1>5, <1>6, <1>8, <1>9 DEF WindowsMonitorInv, WindowsLockInv

\* The steps inside a notification, one by one.
LEMMA WindowsNotificationStep ==
  ASSUME WindowsMonitorInv, NEW t \in Threads,
         \/ WindowsWaitForNotification(t) \/ WindowsWaitForNotificationTimed(t)
         \/ WindowsAntiTimeout(t) \/ WindowsSeeNotifier(t) \/ WindowsExchange(t)
         \/ WindowsLeaveWaiters(t) \/ WindowsResetNotifier(t) \/ WindowsSetAnti(t)
         \/ WindowsNotifierTimeout(t) \/ WindowsPeekNotifier(t)
         \/ WindowsReleaseNotification(t) \/ WindowsReleaseAllNotification(t)
         \/ WindowsSetTarget(t) \/ WindowsResetAnti(t) \/ WindowsSetNotifier(t)
  PROVE  WindowsMonitorInv'
<1>1. /\ slock \in SimpleLock /\ notif \in Notification /\ notif.count \in Int
      /\ notif.target \in Int
      /\ mpc \in [Threads -> Inside \cup Passing \cup Outside]
      /\ after \in [Threads -> {"dylan", "notifier"}] /\ tmp \in [Threads -> Int]
      /\ \A u \in Threads : mpc[u] \in Inside => slock.owner = u
  BY DEF WindowsMonitorInv, WindowsMonitorType, WindowsLockInv, Owning, Notification
<1>2. ASSUME WindowsWaitForNotification(t) \/ WindowsWaitForNotificationTimed(t)
      PROVE  WindowsMonitorInv'
  <2>1. /\ slock' = slock /\ claimed' = claimed /\ torn' = torn /\ mpc' = [mpc EXCEPT ![t] = "antiwait"]
        /\ slock.owner = t /\ mpc[t] = "dylan" /\ notif' = notif /\ tmp' = tmp /\ after' = after
    BY <1>2 DEF WindowsWaitForNotification, WindowsWaitForNotificationTimed, WindowsAwait, Call, Goto
  <2>2. QuietMove(t, "antiwait")
    BY <1>1, <2>1 DEF QuietMove, Calling, Counts, Waiting
  <2> QED
    BY <2>2, WindowsQuietStep DEF Calling
<1>3. ASSUME WindowsAntiTimeout(t)
      PROVE  WindowsMonitorInv'
  <2>1. /\ slock' = slock /\ claimed' = claimed /\ torn' = torn /\ mpc' = [mpc EXCEPT ![t] = "dylan"]
        /\ mpc[t] = "antiwait" /\ notif' = notif
        /\ tmp' = [tmp EXCEPT ![t] = 0] /\ after' = [after EXCEPT ![t] = "dylan"]
    BY <1>3 DEF WindowsAntiTimeout, Return, Goto
  <2>2. slock.owner = t
    BY <1>1, <2>1 DEF Inside
  <2>3. QuietMove(t, "dylan")
    BY <1>1, <2>1, <2>2 DEF QuietMove, Calling, Counts, Waiting
  <2> QED
    BY <2>3, WindowsQuietStep DEF Calling
<1>4. ASSUME WindowsSeeNotifier(t)
      PROVE  WindowsMonitorInv'
  <2>1. /\ slock' = slock /\ claimed' = claimed /\ torn' = torn /\ mpc' = [mpc EXCEPT ![t] = "exchange"]
        /\ mpc[t] = "notifier" /\ notif' = notif /\ tmp' = tmp /\ after' = after
    BY <1>4 DEF WindowsSeeNotifier, Goto
  <2>2. QuietMove(t, "exchange")
    BY <1>1, <2>1 DEF QuietMove, Idle, Counts, Waiting
  <2> QED
    BY <2>2, WindowsQuietStep DEF Idle, Waiting
<1>5. ASSUME WindowsExchange(t)
      PROVE  WindowsMonitorInv'
  <2>1. /\ slock' = slock /\ claimed' = claimed /\ torn' = torn
        /\ \E l \in {"notifier", "leave"} : mpc' = [mpc EXCEPT ![t] = l]
        /\ mpc[t] = "exchange" /\ tmp' = [tmp EXCEPT ![t] = notif.target] /\ after' = after
        /\ notif' = IF notif.target = 0 THEN [notif EXCEPT !.target = 1] ELSE notif
    BY <1>5 DEF WindowsExchange, Keep, Goto
  <2>2. notif' \in Notification /\ notif'.count = notif.count
    BY <1>1, <2>1 DEF Notification
  <2>3. tmp' \in [Threads -> Int] /\ \A u \in Threads \ {t} : tmp'[u] = tmp[u]
    BY <1>1, <2>1
  <2>4. PICK l \in {"notifier", "leave"} : mpc' = [mpc EXCEPT ![t] = l]
    BY <2>1
  <2>5. /\ Counts(l) = 1 /\ Counts(mpc[t]) = 1 /\ l \in Idle /\ mpc[t] \in Idle
    BY <2>1 DEF Idle, Counts, Waiting
  <2>6. notif'.count = notif.count + Counts(l) - Counts(mpc[t])
    BY <1>1, <2>2, <2>5
  <2>7. QuietMove(t, l)
    BY <1>1, <2>1, <2>2, <2>3, <2>4, <2>5, <2>6 DEF QuietMove
  <2> QED
    BY <2>5, <2>7, WindowsQuietStep
<1>6. ASSUME WindowsLeaveWaiters(t)
      PROVE  WindowsMonitorInv'
  <2>1. /\ slock' = slock /\ claimed' = claimed /\ torn' = torn
        /\ \E l \in {"reset", "reclaim"} : mpc' = [mpc EXCEPT ![t] = l]
        /\ mpc[t] = "leave" /\ notif' = [notif EXCEPT !.count = @ - 1] /\ tmp' = tmp /\ after' = after
    BY <1>6 DEF WindowsLeaveWaiters, Goto
  <2>2. notif' \in Notification /\ notif'.count = notif.count - 1
    BY <1>1, <2>1 DEF Notification
  <2>3. PICK l \in {"reset", "reclaim"} : mpc' = [mpc EXCEPT ![t] = l]
    BY <2>1
  <2>4. QuietMove(t, l) /\ l \in Idle
    BY <1>1, <2>1, <2>2, <2>3 DEF QuietMove, Idle, Counts, Waiting
  <2> QED
    BY <2>4, WindowsQuietStep
<1>7. ASSUME WindowsResetNotifier(t)
      PROVE  WindowsMonitorInv'
  <2>1. /\ slock' = slock /\ claimed' = claimed /\ torn' = torn /\ mpc' = [mpc EXCEPT ![t] = "setanti"]
        /\ mpc[t] = "reset" /\ notif' = [notif EXCEPT !.notifier = FALSE] /\ tmp' = tmp /\ after' = after
    BY <1>7 DEF WindowsResetNotifier, Goto
  <2>2. notif' \in Notification /\ notif'.count = notif.count
    BY <1>1, <2>1 DEF Notification
  <2>3. QuietMove(t, "setanti")
    BY <1>1, <2>1, <2>2 DEF QuietMove, Idle, Counts, Waiting
  <2> QED
    BY <2>3, WindowsQuietStep DEF Idle
<1>8. ASSUME WindowsSetAnti(t)
      PROVE  WindowsMonitorInv'
  <2>1. /\ slock' = slock /\ claimed' = claimed /\ torn' = torn /\ mpc' = [mpc EXCEPT ![t] = "reclaim"]
        /\ mpc[t] = "setanti" /\ notif' = [notif EXCEPT !.anti_notifier = TRUE]
        /\ tmp' = tmp /\ after' = after
    BY <1>8 DEF WindowsSetAnti, Goto
  <2>2. notif' \in Notification /\ notif'.count = notif.count
    BY <1>1, <2>1 DEF Notification
  <2>3. QuietMove(t, "reclaim")
    BY <1>1, <2>1, <2>2 DEF QuietMove, Idle, Counts, Waiting
  <2> QED
    BY <2>3, WindowsQuietStep DEF Idle
<1>9. ASSUME WindowsNotifierTimeout(t)
      PROVE  WindowsMonitorInv'
  <2>1. /\ slock' = slock /\ claimed' = claimed /\ torn' = torn /\ mpc' = [mpc EXCEPT ![t] = "peek"]
        /\ mpc[t] = "notifier" /\ notif' = [notif EXCEPT !.count = @ - 1]
        /\ tmp' = [tmp EXCEPT ![t] = notif.count - 1] /\ after' = after
    BY <1>9 DEF WindowsNotifierTimeout, Keep, Goto
  <2>2. notif' \in Notification /\ notif'.count = notif.count - 1
    BY <1>1, <2>1 DEF Notification
  <2>3. tmp' \in [Threads -> Int]
    BY <1>1, <2>1
  <2>4. QuietMove(t, "peek")
    BY <1>1, <2>1, <2>2, <2>3 DEF QuietMove, Idle, Counts, Waiting
  <2> QED
    BY <2>4, WindowsQuietStep DEF Idle
<1>10. ASSUME WindowsPeekNotifier(t)
       PROVE  WindowsMonitorInv'
  <2>1. /\ slock' = slock /\ claimed' = claimed /\ torn' = torn
        /\ \E l \in {"reset", "reclaim"} : mpc' = [mpc EXCEPT ![t] = l]
        /\ mpc[t] = "peek" /\ notif' = notif /\ tmp' = tmp /\ after' = after
    BY <1>10 DEF WindowsPeekNotifier, Goto
  <2>2. PICK l \in {"reset", "reclaim"} : mpc' = [mpc EXCEPT ![t] = l]
    BY <2>1
  <2>3. QuietMove(t, l) /\ l \in Idle
    BY <1>1, <2>1, <2>2 DEF QuietMove, Idle, Counts, Waiting
  <2> QED
    BY <2>3, WindowsQuietStep
<1>11. ASSUME WindowsReleaseNotification(t) \/ WindowsReleaseAllNotification(t)
       PROVE  WindowsMonitorInv'
  <2>1. /\ slock' = slock /\ claimed' = claimed /\ torn' = torn /\ mpc' = [mpc EXCEPT ![t] = "release"]
        /\ slock.owner = t /\ mpc[t] = "dylan" /\ notif' = notif /\ after' = after
        /\ \E to \in {0, -1} : tmp' = [tmp EXCEPT ![t] = to]
    BY <1>11 DEF WindowsReleaseNotification, WindowsReleaseAllNotification, StartRelease, Call,
                 Keep, Goto
  <2>2. tmp' \in [Threads -> Int] /\ \A u \in Threads \ {t} : tmp'[u] = tmp[u]
    BY <1>1, <2>1
  <2>3. QuietMove(t, "release")
    BY <1>1, <2>1, <2>2 DEF QuietMove, Calling, Counts, Waiting
  <2> QED
    BY <2>3, WindowsQuietStep DEF Calling
<1>12. ASSUME WindowsSetTarget(t)
       PROVE  WindowsMonitorInv'
  <2>1. slock' = slock /\ claimed' = claimed /\ torn' = torn /\ mpc[t] = "release"
    BY <1>12 DEF WindowsSetTarget
  <2>2. slock.owner = t
    BY <1>1, <2>1 DEF Inside
  <2>3. CASE notif.count > 0
    <3>1. /\ notif' = [notif EXCEPT !.target = tmp[t]] /\ mpc' = [mpc EXCEPT ![t] = "resetanti"]
          /\ tmp' = tmp /\ after' = after
      BY <1>12, <2>3 DEF WindowsSetTarget, Goto
    <3>2. notif' \in Notification /\ notif'.count = notif.count
      BY <1>1, <3>1 DEF Notification
    <3>3. QuietMove(t, "resetanti")
      BY <1>1, <2>1, <2>2, <3>1, <3>2 DEF QuietMove, Calling, Counts, Waiting
    <3> QED
      BY <3>3, WindowsQuietStep DEF Calling
  <2>4. CASE ~(notif.count > 0)
    <3>1. /\ notif' = notif /\ mpc' = [mpc EXCEPT ![t] = "dylan"]
          /\ tmp' = [tmp EXCEPT ![t] = 0] /\ after' = [after EXCEPT ![t] = "dylan"]
      BY <1>12, <2>4 DEF WindowsSetTarget, Return, Goto
    <3>2. QuietMove(t, "dylan")
      BY <1>1, <2>1, <2>2, <3>1 DEF QuietMove, Calling, Counts, Waiting
    <3> QED
      BY <3>2, WindowsQuietStep DEF Calling
  <2> QED
    BY <2>3, <2>4
<1>13. ASSUME WindowsResetAnti(t)
       PROVE  WindowsMonitorInv'
  <2>1. /\ slock' = slock /\ claimed' = claimed /\ torn' = torn
        /\ mpc' = [mpc EXCEPT ![t] = "setnotifier"] /\ mpc[t] = "resetanti"
        /\ notif' = [notif EXCEPT !.anti_notifier = FALSE] /\ tmp' = tmp /\ after' = after
    BY <1>13 DEF WindowsResetAnti, Goto
  <2>2. notif' \in Notification /\ notif'.count = notif.count /\ slock.owner = t
    BY <1>1, <2>1 DEF Notification, Inside
  <2>3. QuietMove(t, "setnotifier")
    BY <1>1, <2>1, <2>2 DEF QuietMove, Calling, Counts, Waiting
  <2> QED
    BY <2>3, WindowsQuietStep DEF Calling
<1>14. ASSUME WindowsSetNotifier(t)
       PROVE  WindowsMonitorInv'
  <2>1. /\ slock' = slock /\ claimed' = claimed /\ torn' = torn /\ mpc' = [mpc EXCEPT ![t] = "dylan"]
        /\ mpc[t] = "setnotifier" /\ notif' = [notif EXCEPT !.notifier = TRUE]
        /\ tmp' = [tmp EXCEPT ![t] = 0] /\ after' = [after EXCEPT ![t] = "dylan"]
    BY <1>14 DEF WindowsSetNotifier, Return, Goto
  <2>2. notif' \in Notification /\ notif'.count = notif.count /\ slock.owner = t
    BY <1>1, <2>1 DEF Notification, Inside
  <2>3. QuietMove(t, "dylan")
    BY <1>1, <2>1, <2>2 DEF QuietMove, Calling, Counts, Waiting
  <2> QED
    BY <2>3, WindowsQuietStep DEF Calling
<1> QED
  BY <1>2, <1>3, <1>4, <1>5, <1>6, <1>7, <1>8, <1>9, <1>10, <1>11, <1>12, <1>13, <1>14

\* The steps that claim, take, pass on or release the lock.
LEMMA WindowsSimpleLockStep ==
  ASSUME WindowsMonitorInv, NEW t \in Threads,
         \/ OwnLock(t) \/ WindowsWaitForSimpleLock(t) \/ WindowsWaitForSimpleLockTimed(t)
         \/ WindowsReclaim(t) \/ WindowsLoadCount(t) \/ WindowsStoreCount(t)
         \/ WindowsTakeUnit(t) \/ WindowsSemaphoreTimeout(t) \/ WindowsReleaseSimpleLock(t)
         \/ WindowsJoinWaiters(t) \/ WindowsUncount(t) \/ WindowsPost(t)
  PROVE  WindowsMonitorInv'
<1> USE NativeThreadsAssumption
<1> DEFINE c == slock.lock_count
           P == Inside \cup Passing \cup Outside
           K == Cardinality(LockClaims)
<1>1. /\ slock \in SimpleLock /\ slock.owner \in Owner /\ c \in Int /\ slock.semaphore \in {0, 1}
      /\ notif \in Notification /\ notif.count \in Int /\ mpc \in [Threads -> P]
      /\ after \in [Threads -> {"dylan", "notifier"}] /\ tmp \in [Threads -> Int]
      /\ claimed \in SUBSET Threads /\ torn \in BOOLEAN
      /\ notif.count = Cardinality(Waiters)
  BY DEF WindowsMonitorInv, WindowsMonitorType, Notification, SimpleLock
<1>2. (\A u \in Threads : Owning(u)) /\ OneHasLock /\ LockedOrPosted /\ LockClaimsCounted
  BY DEF WindowsMonitorInv, WindowsLockInv
<1>3. /\ LockClaims \in SUBSET Threads /\ K \in Nat
      /\ \A u \in Threads \ LockClaims : Cardinality(LockClaims \cup {u}) = K + 1
      /\ \A u \in LockClaims : Cardinality(LockClaims \ {u}) = K - 1
  <2>1. LockClaims \in SUBSET Threads
    BY DEF LockClaims
  <2> QED
    BY <2>1, Counting
<1>4. Refused \in {0, 1}
  BY DEF Refused
<1>5. CASE OwnLock(t)
  <2>1. /\ slock' = [slock EXCEPT !.owner = t] /\ notif' = notif /\ mpc[t] = "own"
        /\ mpc' = [mpc EXCEPT ![t] = "dylan"] /\ claimed' = claimed \cup {t} /\ torn' = torn
        /\ tmp' = [tmp EXCEPT ![t] = 0] /\ after' = [after EXCEPT ![t] = "dylan"]
    BY <1>5 DEF OwnLock, Return, Goto
  <2>2. /\ slock' \in SimpleLock /\ slock'.owner = t /\ slock'.lock_count = c
        /\ slock'.semaphore = slock.semaphore
    BY <1>1, <2>1 DEF SimpleLock, Owner
  <2>3. /\ \A u \in Threads : slock.owner # u
        /\ \A u \in Threads : mpc[u] \notin Inside
        /\ \A u \in Threads \ {t} : ~HasLock(u)
    BY <1>2, <2>1 DEF OneHasLock, HasLock, Passing, Owning, Inside
  <2>4. WindowsMonitorType'
    BY <1>1, <2>1, <2>2 DEF WindowsMonitorType, Outside
  <2>5. \A u \in Threads : HasLock(u)' <=> HasLock(u)
    BY <1>1, <2>1, <2>2, <2>3 DEF HasLock, Passing
  <2>6. \A u \in Threads : Owning(u)'
    BY <1>1, <1>2, <2>1, <2>2, <2>3 DEF Owning, Inside
  <2>7. OneHasLock' /\ LockedOrPosted'
    BY <1>2, <2>2, <2>5 DEF OneHasLock, LockedOrPosted
  <2>8. LockClaims' = LockClaims /\ Refused' = Refused /\ Waiters' = Waiters
    BY <1>1, <2>1, <2>2, <2>3 DEF LockClaims, Refused, Waiters, Waiting
  <2>9. LockClaimsCounted'
    BY <1>2, <2>1, <2>2, <2>8 DEF LockClaimsCounted
  <2> QED
    BY <1>1, <2>1, <2>4, <2>6, <2>7, <2>8, <2>9 DEF WindowsMonitorInv, WindowsLockInv
\* A claim: the lock was free, or is the caller's, or is somebody else's.
<1>6. ASSUME mpc[t] \in {"dylan", "reclaim"}, CountClaim(t),
             UNCHANGED <<notif, after, tmp, claimed, torn>>
      PROVE  WindowsMonitorInv'
  <2>1. /\ slock' = [slock EXCEPT !.lock_count = c + 1] /\ notif' = notif /\ after' = after
        /\ tmp' = tmp /\ claimed' = claimed /\ torn' = torn
        /\ mpc' = [mpc EXCEPT ![t] = IF c + 1 = 0 THEN "own"
                                     ELSE IF slock.owner = t THEN "recount" ELSE "semaphore"]
    BY <1>6 DEF CountClaim, Goto
  <2>2. /\ slock' \in SimpleLock /\ slock'.owner = slock.owner /\ slock'.lock_count = c + 1
        /\ slock'.semaphore = slock.semaphore
    BY <1>1, <2>1 DEF SimpleLock
  <2>3. WindowsMonitorType'
    BY <1>1, <2>1, <2>2 DEF WindowsMonitorType, Inside, Passing, Outside
  <2>4. Waiters' = Waiters
    BY <1>1, <1>6, <2>1 DEF Waiters, Waiting
  <2>5. c >= -1
    BY <1>2 DEF LockedOrPosted
  <2>6. CASE c = -1
    <3>1. mpc' = [mpc EXCEPT ![t] = "own"] /\ \A u \in Threads : ~HasLock(u)
      BY <1>2, <2>1, <2>6 DEF LockedOrPosted
    <3>2. \A u \in Threads : HasLock(u)' <=> u = t
      BY <1>1, <2>2, <3>1 DEF HasLock, Passing
    <3>3. \A u \in Threads : Owning(u)'
      BY <1>1, <1>2, <2>1, <2>2, <2>5, <3>1 DEF Owning, Inside, HasLock
    <3>4. OneHasLock' /\ LockedOrPosted'
      BY <1>1, <1>2, <2>2, <2>6, <3>1, <3>2 DEF OneHasLock, LockedOrPosted
    <3>5. LockClaims' = LockClaims \cup {t} /\ t \notin LockClaims /\ Refused' = Refused
      BY <1>1, <1>6, <2>2, <3>1 DEF LockClaims, Refused, HasLock
    <3>6. Cardinality(LockClaims') = K + 1
      BY <1>3, <3>5
    <3>7. LockClaimsCounted'
      BY <1>1, <1>2, <1>3, <1>4, <2>1, <2>2, <3>5, <3>6 DEF LockClaimsCounted
    <3> QED
      BY <1>1, <2>1, <2>3, <2>4, <3>3, <3>4, <3>7 DEF WindowsMonitorInv, WindowsLockInv
  <2>7. CASE c # -1 /\ slock.owner = t
    <3>1. mpc' = [mpc EXCEPT ![t] = "recount"] /\ mpc[t] = "dylan" /\ c >= 0
      <4>1. c + 1 # 0 /\ c >= 0
        BY <1>1, <2>5, <2>7
      <4>2. mpc[t] = "dylan"
        BY <1>2, <1>6, <2>7 DEF Owning, Inside
      <4> QED
        BY <2>1, <2>7, <4>1, <4>2
    <3>2. \A u \in Threads : HasLock(u)' <=> HasLock(u)
      BY <1>1, <2>2, <3>1 DEF HasLock, Passing
    <3>3. \A u \in Threads : Owning(u)'
      BY <1>1, <1>2, <2>1, <2>2, <2>7, <3>1 DEF Owning, Inside
    <3>4. OneHasLock' /\ LockedOrPosted'
      BY <1>1, <1>2, <2>2, <2>7, <3>1, <3>2 DEF OneHasLock, LockedOrPosted, HasLock
    <3>5. LockClaims' = LockClaims
      BY <1>1, <2>2, <2>7, <3>1 DEF LockClaims
    <3>6. Refused = 0 /\ Refused' = 1
      BY <1>1, <1>2, <2>7, <3>1 DEF Refused, Owning, Inside
    <3>7. LockClaimsCounted'
      BY <1>1, <1>2, <1>3, <2>1, <2>2, <3>5, <3>6 DEF LockClaimsCounted
    <3> QED
      BY <1>1, <2>1, <2>3, <2>4, <3>3, <3>4, <3>7 DEF WindowsMonitorInv, WindowsLockInv
  <2>8. CASE c # -1 /\ slock.owner # t
    <3>1. mpc' = [mpc EXCEPT ![t] = "semaphore"] /\ c >= 0
      <4>1. c + 1 # 0 /\ c >= 0
        BY <1>1, <2>5, <2>8
      <4> QED
        BY <2>1, <2>8, <4>1
    <3>2. \A u \in Threads : HasLock(u)' <=> HasLock(u)
      BY <1>1, <1>6, <2>2, <3>1 DEF HasLock, Passing
    <3>3. \A u \in Threads : Owning(u)'
      BY <1>1, <1>2, <1>6, <2>1, <2>2, <2>8, <3>1 DEF Owning, Inside
    <3>4. OneHasLock' /\ LockedOrPosted'
      BY <1>1, <1>2, <2>2, <2>8, <3>1, <3>2 DEF OneHasLock, LockedOrPosted
    <3>5. LockClaims' = LockClaims \cup {t} /\ t \notin LockClaims /\ Refused' = Refused
      BY <1>1, <1>6, <2>2, <2>8, <3>1 DEF LockClaims, Refused
    <3>6. Cardinality(LockClaims') = K + 1
      BY <1>3, <3>5
    <3>7. LockClaimsCounted'
      BY <1>1, <1>2, <1>3, <1>4, <2>1, <2>2, <3>5, <3>6 DEF LockClaimsCounted
    <3> QED
      BY <1>1, <2>1, <2>3, <2>4, <3>3, <3>4, <3>7 DEF WindowsMonitorInv, WindowsLockInv
  <2> QED
    BY <2>6, <2>7, <2>8
<1>7. CASE WindowsLoadCount(t)
  <2>1. /\ slock' = slock /\ notif' = notif /\ after' = after /\ mpc[t] = "recount"
        /\ tmp' = [tmp EXCEPT ![t] = c] /\ claimed' = claimed /\ torn' = torn
        /\ mpc' = [mpc EXCEPT ![t] = "storecount"]
    BY <1>7 DEF WindowsLoadCount, Keep, Goto
  <2>2. WindowsMonitorType'
    BY <1>1, <2>1 DEF WindowsMonitorType, Inside
  <2>3. \A u \in Threads : HasLock(u)' <=> HasLock(u)
    BY <1>1, <2>1 DEF HasLock, Passing
  <2>4. \A u \in Threads : Owning(u)'
    BY <1>1, <1>2, <2>1 DEF Owning, Inside
  <2>5. OneHasLock' /\ LockedOrPosted'
    BY <1>2, <2>1, <2>3 DEF OneHasLock, LockedOrPosted
  <2>6. LockClaims' = LockClaims /\ Refused' = Refused /\ Waiters' = Waiters
    BY <1>1, <2>1 DEF LockClaims, Refused, Waiters, Waiting
  <2>7. LockClaimsCounted'
    BY <1>2, <2>1, <2>6 DEF LockClaimsCounted
  <2> QED
    BY <1>1, <2>1, <2>2, <2>4, <2>5, <2>6, <2>7 DEF WindowsMonitorInv, WindowsLockInv
\* The store may lose claims, but never the owner's own.
<1>8. CASE WindowsStoreCount(t)
  <2>1. /\ slock' = [slock EXCEPT !.lock_count = tmp[t] - 1] /\ notif' = notif
        /\ mpc[t] = "storecount" /\ claimed' = claimed /\ torn' = (torn \/ c # tmp[t])
        /\ tmp' = [tmp EXCEPT ![t] = 0] /\ after' = [after EXCEPT ![t] = "dylan"]
        /\ mpc' = [mpc EXCEPT ![t] = "dylan"]
    BY <1>8 DEF WindowsStoreCount, Return, Goto
  <2>2. tmp[t] >= 1 /\ slock.owner = t /\ \A u \in Threads \ {t} : mpc[u] \notin Inside
    BY <1>2, <2>1 DEF Owning, Inside
  <2>3. /\ slock' \in SimpleLock /\ slock'.owner = t /\ slock'.lock_count = tmp[t] - 1
        /\ slock'.semaphore = slock.semaphore
    BY <1>1, <2>1, <2>2 DEF SimpleLock
  <2>4. WindowsMonitorType'
    BY <1>1, <2>1, <2>3 DEF WindowsMonitorType, Outside
  <2>5. \A u \in Threads : HasLock(u)' <=> HasLock(u)
    BY <1>1, <2>1, <2>2, <2>3 DEF HasLock, Passing
  <2>6. \A u \in Threads : Owning(u)'
    BY <1>1, <1>2, <2>1, <2>2, <2>3 DEF Owning, Inside
  <2>7. OneHasLock' /\ LockedOrPosted'
    BY <1>1, <1>2, <2>2, <2>3, <2>5 DEF OneHasLock, LockedOrPosted, HasLock
  <2>8. LockClaims' = LockClaims /\ Waiters' = Waiters
    BY <1>1, <2>1, <2>2, <2>3 DEF LockClaims, Waiters, Waiting
  <2>9. Refused = 1 /\ Refused' = 0
    BY <1>1, <2>1, <2>2 DEF Refused, Inside
  <2>10. ~torn' => ~torn /\ c = tmp[t]
    BY <2>1, Zenon
  <2>11. LockClaimsCounted'
    <3>1. SUFFICES ASSUME ~torn' PROVE Cardinality(LockClaims') + Refused' <= slock'.lock_count + 1
      BY DEF LockClaimsCounted
    <3>2. K + 1 <= c + 1 /\ c = tmp[t]
      BY <1>2, <2>9, <2>10, <3>1 DEF LockClaimsCounted
    <3> QED
      BY <1>1, <1>3, <2>3, <2>8, <2>9, <3>2
  <2> QED
    BY <1>1, <2>1, <2>4, <2>6, <2>7, <2>8, <2>11 DEF WindowsMonitorInv, WindowsLockInv
<1>9. CASE WindowsTakeUnit(t)
  <2>1. /\ slock' = [slock EXCEPT !.semaphore = 0] /\ slock.semaphore = 1 /\ notif' = notif
        /\ after' = after /\ mpc[t] = "semaphore" /\ tmp' = tmp /\ claimed' = claimed
        /\ torn' = torn /\ mpc' = [mpc EXCEPT ![t] = "own"]
    BY <1>9 DEF WindowsTakeUnit, Goto
  <2>2. /\ slock' \in SimpleLock /\ slock'.owner = slock.owner /\ slock'.lock_count = c
        /\ slock'.semaphore = 0
    BY <1>1, <2>1 DEF SimpleLock
  <2>3. WindowsMonitorType'
    BY <1>1, <2>1, <2>2 DEF WindowsMonitorType, Passing
  <2>4. \A u \in Threads : ~HasLock(u) /\ (HasLock(u)' <=> u = t)
    BY <1>1, <1>2, <2>1, <2>2 DEF HasLock, Passing, LockedOrPosted
  <2>5. \A u \in Threads : Owning(u)'
    BY <1>1, <1>2, <2>1, <2>2, <2>4 DEF Owning, Inside, HasLock
  <2>6. OneHasLock' /\ LockedOrPosted'
    BY <1>1, <1>2, <2>1, <2>2, <2>4 DEF OneHasLock, LockedOrPosted
  <2>7. LockClaims' = LockClaims /\ Refused' = Refused /\ Waiters' = Waiters
    BY <1>1, <2>1, <2>2 DEF LockClaims, Refused, Waiters, Waiting
  <2>8. LockClaimsCounted'
    BY <1>2, <2>1, <2>2, <2>7 DEF LockClaimsCounted
  <2> QED
    BY <1>1, <2>1, <2>3, <2>5, <2>6, <2>7, <2>8 DEF WindowsMonitorInv, WindowsLockInv
<1>10. CASE WindowsSemaphoreTimeout(t)
  <2>1. /\ slock' = slock /\ notif' = notif /\ mpc[t] = "semaphore" /\ claimed' = claimed
        /\ torn' = torn /\ mpc' = [mpc EXCEPT ![t] = "dylan"]
        /\ tmp' = [tmp EXCEPT ![t] = 0] /\ after' = [after EXCEPT ![t] = "dylan"]
    BY <1>10 DEF WindowsSemaphoreTimeout, Return, Goto
  <2>2. WindowsMonitorType'
    BY <1>1, <2>1 DEF WindowsMonitorType, Outside
  <2>3. slock.owner # t /\ \A u \in Threads : HasLock(u)' <=> HasLock(u)
    BY <1>1, <1>2, <2>1 DEF HasLock, Passing, Owning, Inside
  <2>4. \A u \in Threads : Owning(u)'
    BY <1>1, <1>2, <2>1, <2>3 DEF Owning, Inside
  <2>5. OneHasLock' /\ LockedOrPosted'
    BY <1>2, <2>1, <2>3 DEF OneHasLock, LockedOrPosted
  <2>6. LockClaims' = LockClaims \ {t} /\ t \in LockClaims /\ Refused' = Refused /\ Waiters' = Waiters
    BY <1>1, <2>1, <2>3 DEF LockClaims, Refused, Waiters, Waiting
  <2>7. Cardinality(LockClaims') = K - 1
    BY <1>3, <2>6
  <2>8. LockClaimsCounted'
    BY <1>1, <1>2, <1>3, <1>4, <2>1, <2>6, <2>7 DEF LockClaimsCounted
  <2> QED
    BY <1>1, <2>1, <2>2, <2>4, <2>5, <2>6, <2>8 DEF WindowsMonitorInv, WindowsLockInv
\* The owner starts a release, of its own or inside a wait that joins the waiters.
<1>11. ASSUME NEW then \in {"dylan", "notifier"}, slock.owner = t, mpc[t] \in {"dylan", "antiwait"},
              ReleaseLockThen(t, then), notif' \in Notification,
              notif'.count = notif.count + Counts(then), UNCHANGED <<tmp, torn>>
       PROVE  WindowsMonitorInv'
  <2>1. /\ slock' = [slock EXCEPT !.owner = NoThread] /\ claimed' = claimed \ {t}
        /\ torn' = torn /\ tmp' = tmp /\ mpc' = [mpc EXCEPT ![t] = "uncount"]
        /\ after' = [after EXCEPT ![t] = then]
    BY <1>11 DEF ReleaseLockThen, Goto
  <2>2. /\ slock' \in SimpleLock /\ slock'.owner = NoThread /\ slock'.lock_count = c
        /\ slock'.semaphore = slock.semaphore
    BY <1>1, <2>1 DEF SimpleLock, Owner
  <2>3. WindowsMonitorType'
    BY <1>1, <1>11, <2>1, <2>2 DEF WindowsMonitorType, Passing
  <2>4. \A u \in Threads : HasLock(u)' <=> HasLock(u)
    BY <1>1, <1>11, <2>1, <2>2 DEF HasLock, Passing
  <2>5. \A u \in Threads : Owning(u)'
    BY <1>1, <1>2, <1>11, <2>1, <2>2 DEF Owning, Inside
  <2>6. OneHasLock' /\ LockedOrPosted'
    BY <1>2, <2>2, <2>4 DEF OneHasLock, LockedOrPosted
  <2>7. LockClaims' = LockClaims /\ Refused' = Refused
    BY <1>1, <1>11, <2>1, <2>2 DEF LockClaims, Refused
  <2>8. LockClaimsCounted'
    BY <1>2, <2>1, <2>2, <2>7 DEF LockClaimsCounted
  <2>9. /\ t \notin Waiters /\ Waiters \in SUBSET Threads
        /\ Waiters' = IF then = "notifier" THEN Waiters \cup {t} ELSE Waiters
    BY <1>1, <1>11, <2>1 DEF Waiters, Waiting
  <2>10. notif'.count = Cardinality(Waiters')
    BY <1>1, <1>11, <2>9, Counting DEF Counts, Waiting
  <2> QED
    BY <2>3, <2>5, <2>6, <2>8, <2>10 DEF WindowsMonitorInv, WindowsLockInv
<1>12. CASE WindowsUncount(t)
  <2>1. /\ slock' = [slock EXCEPT !.lock_count = @ - 1] /\ notif' = notif /\ after' = after
        /\ tmp' = tmp /\ claimed' = claimed /\ torn' = torn /\ mpc[t] = "uncount"
        /\ mpc' = [mpc EXCEPT ![t] = IF c - 1 >= 0 THEN "post" ELSE after[t]]
    BY <1>12 DEF WindowsUncount, Goto
  <2>2. /\ c >= 0 /\ slock.semaphore = 0 /\ (\A u \in Threads : HasLock(u) <=> u = t)
        /\ \A u \in Threads : slock.owner # u
    BY <1>1, <1>2, <2>1 DEF OneHasLock, LockedOrPosted, HasLock, Passing, Owning, Inside
  <2>3. /\ slock' \in SimpleLock /\ slock'.owner = slock.owner /\ slock'.lock_count = c - 1
        /\ slock'.semaphore = 0
    BY <1>1, <2>1, <2>2 DEF SimpleLock
  <2>4. after[t] \in {"dylan", "notifier"}
    BY <1>1
  <2>5. WindowsMonitorType'
    BY <1>1, <2>1, <2>3, <2>4 DEF WindowsMonitorType, Passing, Outside, Waiting
  <2>6. \A u \in Threads : HasLock(u)' <=> u = t /\ c >= 1
    BY <1>1, <2>1, <2>2, <2>3, <2>4 DEF HasLock, Passing
  <2>7. \A u \in Threads : Owning(u)'
    <3>1. \A u \in Threads : mpc[u] \notin Inside
      BY <1>2, <2>2 DEF Owning
    <3> QED
      BY <1>1, <1>2, <2>1, <2>2, <2>3, <2>4, <3>1 DEF Owning, Inside
  <2>8. OneHasLock' /\ LockedOrPosted'
    BY <1>1, <2>2, <2>3, <2>6 DEF OneHasLock, LockedOrPosted
  <2>9. LockClaims' = LockClaims \ {t} /\ t \in LockClaims /\ Refused' = Refused
    BY <1>1, <2>1, <2>2, <2>3, <2>4 DEF LockClaims, Refused
  <2>10. Waiters' = Waiters
    BY <1>1, <2>1, <2>4 DEF Waiters, Waiting
  <2>11. Cardinality(LockClaims') = K - 1
    BY <1>3, <2>9
  <2>12. LockClaimsCounted'
    BY <1>1, <1>2, <1>3, <1>4, <2>1, <2>3, <2>9, <2>11 DEF LockClaimsCounted
  <2> QED
    BY <1>1, <2>1, <2>5, <2>7, <2>8, <2>10, <2>12 DEF WindowsMonitorInv, WindowsLockInv
<1>13. CASE WindowsPost(t)
  <2>1. /\ slock' = [slock EXCEPT !.semaphore = 1] /\ notif' = notif /\ after' = after
        /\ tmp' = tmp /\ claimed' = claimed /\ torn' = torn /\ mpc[t] = "post"
        /\ mpc' = [mpc EXCEPT ![t] = after[t]]
    BY <1>13 DEF WindowsPost, Goto
  <2>2. /\ c # -1 /\ (\A u \in Threads : HasLock(u) <=> u = t)
        /\ \A u \in Threads : slock.owner # u
    BY <1>1, <1>2, <2>1 DEF OneHasLock, LockedOrPosted, HasLock, Passing, Owning, Inside
  <2>3. /\ slock' \in SimpleLock /\ slock'.owner = slock.owner /\ slock'.lock_count = c
        /\ slock'.semaphore = 1
    BY <1>1, <2>1 DEF SimpleLock
  <2>4. after[t] \in {"dylan", "notifier"}
    BY <1>1
  <2>5. WindowsMonitorType'
    BY <1>1, <2>1, <2>3, <2>4 DEF WindowsMonitorType, Outside, Waiting
  <2>6. \A u \in Threads : ~HasLock(u)'
    BY <1>1, <2>1, <2>2, <2>3, <2>4 DEF HasLock, Passing
  <2>7. \A u \in Threads : Owning(u)'
    BY <1>1, <1>2, <2>1, <2>2, <2>3, <2>4 DEF Owning, Inside
  <2>8. OneHasLock' /\ LockedOrPosted'
    BY <1>2, <2>2, <2>3, <2>6 DEF OneHasLock, LockedOrPosted
  <2>9. LockClaims' = LockClaims /\ Refused' = Refused /\ Waiters' = Waiters
    BY <1>1, <2>1, <2>2, <2>3, <2>4 DEF LockClaims, Refused, Waiters, Waiting
  <2>10. LockClaimsCounted'
    BY <1>2, <2>1, <2>3, <2>9 DEF LockClaimsCounted
  <2> QED
    BY <1>1, <2>1, <2>5, <2>7, <2>8, <2>9, <2>10 DEF WindowsMonitorInv, WindowsLockInv
<1>14. CASE WindowsWaitForSimpleLock(t) \/ WindowsWaitForSimpleLockTimed(t) \/ WindowsReclaim(t)
  BY <1>6, <1>14
     DEF WindowsWaitForSimpleLock, WindowsWaitForSimpleLockTimed, WindowsClaim, WindowsReclaim
<1>15. CASE WindowsReleaseSimpleLock(t)
  <2>1. /\ slock.owner = t /\ mpc[t] = "dylan" /\ ReleaseLockThen(t, "dylan") /\ notif' = notif
        /\ UNCHANGED <<tmp, torn>> /\ Counts("dylan") = 0
    BY <1>15 DEF WindowsReleaseSimpleLock, Counts, Waiting
  <2>2. notif'.count = notif.count + Counts("dylan")
    BY <1>1, <2>1
  <2> QED
    BY <1>1, <1>11, <2>1, <2>2
<1>16. CASE WindowsJoinWaiters(t)
  <2>1. /\ mpc[t] = "antiwait" /\ ReleaseLockThen(t, "notifier")
        /\ notif' = [notif EXCEPT !.count = @ + 1]
        /\ UNCHANGED <<tmp, torn>> /\ Counts("notifier") = 1
    BY <1>16 DEF WindowsJoinWaiters, Counts, Waiting
  <2>2. notif' \in Notification /\ notif'.count = notif.count + Counts("notifier")
    BY <1>1, <2>1 DEF Notification
  <2>3. slock.owner = t
    BY <1>2, <2>1 DEF Owning, Inside
  <2> QED
    BY <1>11, <2>1, <2>2, <2>3
<1> QED
  BY <1>5, <1>7, <1>8, <1>9, <1>10, <1>12, <1>13, <1>14, <1>15, <1>16

LEMMA WindowsMonitorStep ==
  ASSUME Windows, WindowsMonitorInv, NextMonitor
  PROVE  WindowsMonitorInv'
<1>1. /\ ~Posix /\ ~Unix
      /\ \A t \in Threads : mpc[t] \notin {"asleep", "awake", "unlock"}
  BY DEF Posix, Unix, Windows, WindowsMonitorInv, WindowsMonitorType, Inside, Passing, Outside,
         Waiting
<1>2. PICK t \in Threads :
        \/ OwnLock(t) \/ WindowsWaitForSimpleLock(t) \/ WindowsWaitForSimpleLockTimed(t)
        \/ WindowsReclaim(t) \/ WindowsLoadCount(t) \/ WindowsStoreCount(t)
        \/ WindowsTakeUnit(t) \/ WindowsSemaphoreTimeout(t) \/ WindowsReleaseSimpleLock(t)
        \/ WindowsJoinWaiters(t) \/ WindowsUncount(t) \/ WindowsPost(t)
        \/ WindowsWaitForNotification(t) \/ WindowsWaitForNotificationTimed(t)
        \/ WindowsAntiTimeout(t) \/ WindowsSeeNotifier(t) \/ WindowsExchange(t)
        \/ WindowsLeaveWaiters(t) \/ WindowsResetNotifier(t) \/ WindowsSetAnti(t)
        \/ WindowsNotifierTimeout(t) \/ WindowsPeekNotifier(t)
        \/ WindowsReleaseNotification(t) \/ WindowsReleaseAllNotification(t)
        \/ WindowsSetTarget(t) \/ WindowsResetAnti(t) \/ WindowsSetNotifier(t)
  BY <1>1, ZenonT(30)
     DEF NextMonitor, UnlockMutex, WakeUp, PosixWaitForSimpleLock, PosixWaitForSimpleLockTimed,
         PosixReleaseSimpleLock, PosixWaitForNotification, PosixWaitForNotificationTimed,
         PosixSleepOnCond, PosixRetakeMutex, PosixReleaseNotification, PosixReleaseAllNotification,
         UnixWaitForSimpleLock, UnixWaitForSimpleLockTimed, UnixReleaseSimpleLock,
         UnixWaitForNotification, UnixWaitForNotificationTimed, UnixSleepOnCond, UnixRetakeMutex,
         UnixReleaseNotification, UnixReleaseAllNotification
<1> QED
  BY <1>2, WindowsSimpleLockStep, WindowsNotificationStep

LEMMA MonitorInit == Init => MonitorInv
<1> SUFFICES ASSUME Init PROVE MonitorInv
  OBVIOUS
<1> USE NativeThreadsAssumption
<1>1. runtime \in {"posix", "unix", "windows"} /\ InitMonitor
  BY DEF Init, InitRuntime
<1>2. /\ mpc = [t \in Threads |-> "dylan"] /\ after = [t \in Threads |-> "dylan"]
      /\ tmp = [t \in Threads |-> 0] /\ claimed = {} /\ torn = FALSE /\ unsure = {}
  BY <1>1 DEF InitMonitor
<1>3. ASSUME Posix PROVE PosixMonitorInv
  <2>1. slock = PosixMakeSimpleLock /\ notif = PosixMakeNotification
    BY <1>1, <1>3 DEF InitMonitor, Posix, Unix, Windows
  <2>2. MutexType
    BY <1>2, <2>1 DEF PosixMakeSimpleLock, PosixMakeNotification, MutexType, Owner
  <2>3. slock.owner = NoThread
    BY <2>1 DEF PosixMakeSimpleLock
  <2> QED
    BY <1>2, <2>2, <2>3 DEF PosixMonitorInv, PosixHas
<1>4. ASSUME Unix PROVE UnixMonitorInv
  <2>1. slock = UnixMakeSimpleLock /\ notif = UnixMakeNotification
    BY <1>1, <1>4 DEF InitMonitor, Posix, Unix, Windows
  <2>2. MutexType
    BY <1>2, <2>1 DEF UnixMakeSimpleLock, UnixMakeNotification, MutexType, Owner
  <2>3. slock.owner = NoThread /\ slock.mutex = NoThread
    BY <2>1 DEF UnixMakeSimpleLock
  <2> QED
    BY <1>2, <2>2, <2>3 DEF UnixMonitorInv, UnixHas
<1>5. ASSUME Windows PROVE WindowsMonitorInv
  <2>1. slock = WindowsMakeSimpleLock /\ notif = WindowsMakeNotification
    BY <1>1, <1>5 DEF InitMonitor, Posix, Unix, Windows
  <2>2. /\ slock \in SimpleLock /\ slock.owner = NoThread /\ slock.lock_count = -1
        /\ slock.semaphore = 0
    BY <2>1 DEF WindowsMakeSimpleLock, SimpleLock, Owner
  <2>3. notif \in Notification /\ notif.count = 0
    BY <2>1 DEF WindowsMakeNotification, Notification
  <2>4. WindowsMonitorType
    <3>1. mpc \in [Threads -> Inside \cup Passing \cup Outside]
      BY <1>2 DEF Outside
    <3>2. /\ after \in [Threads -> {"dylan", "notifier"}] /\ tmp \in [Threads -> Int]
          /\ claimed \in SUBSET Threads
      BY <1>2
    <3>3. torn \in BOOLEAN
      BY <1>2, Zenon
    <3> QED
      BY <2>2, <2>3, <3>1, <3>2, <3>3 DEF WindowsMonitorType
  <2>5. \A t \in Threads : Owning(t) /\ ~HasLock(t)
    BY <1>2, <2>2 DEF Owning, HasLock, Inside, Passing
  <2>6. LockClaims = {} /\ Refused = 0 /\ Waiters = {}
    BY <1>2, <2>2 DEF LockClaims, Refused, Waiters, Waiting
  <2>7. OneHasLock /\ LockedOrPosted
    BY <2>2, <2>5 DEF OneHasLock, LockedOrPosted
  <2>8. LockClaimsCounted /\ notif.count = Cardinality(Waiters)
    BY <2>2, <2>3, <2>6, FS_EmptySet DEF LockClaimsCounted
  <2> QED
    BY <2>4, <2>5, <2>7, <2>8 DEF WindowsMonitorInv, WindowsLockInv
<1> QED
  BY <1>1, <1>3, <1>4, <1>5 DEF MonitorInv

LEMMA MonitorNext == MonitorInv /\ [Next]_vars => MonitorInv'
<1> SUFFICES ASSUME MonitorInv, [Next]_vars PROVE MonitorInv'
  OBVIOUS
<1>1. runtime' = runtime /\ (NextMonitor \/ UNCHANGED monitorVars)
  BY MonitorFrame
<1>2. (Posix' <=> Posix) /\ (Unix' <=> Unix) /\ (Windows' <=> Windows)
  BY <1>1 DEF Posix, Unix, Windows
<1>3. CASE UNCHANGED monitorVars
  <2>1. /\ slock' = slock /\ notif' = notif /\ mpc' = mpc /\ after' = after /\ tmp' = tmp
        /\ claimed' = claimed /\ torn' = torn /\ unsure' = unsure
    BY <1>3 DEF monitorVars
  <2>2. (PosixMonitorInv' <=> PosixMonitorInv) /\ (UnixMonitorInv' <=> UnixMonitorInv)
    BY <2>1 DEF PosixMonitorInv, UnixMonitorInv, MutexType, PosixHas, UnixHas
  <2>3. WindowsMonitorType' <=> WindowsMonitorType
    BY <2>1 DEF WindowsMonitorType
  <2>4. WindowsLockInv' <=> WindowsLockInv
    BY <2>1 DEF WindowsLockInv, Owning, OneHasLock, LockedOrPosted, LockClaimsCounted, HasLock,
                LockClaims, Refused
  <2>5. WindowsMonitorInv' <=> WindowsMonitorInv
    BY <2>1, <2>3, <2>4 DEF WindowsMonitorInv, Waiters
  <2> QED
    BY <1>1, <1>2, <2>2, <2>5 DEF MonitorInv
<1>4. CASE NextMonitor
  BY <1>1, <1>2, <1>4, PosixMonitorStep, UnixMonitorStep, WindowsMonitorStep
     DEF MonitorInv, Posix, Unix, Windows
<1> QED
  BY <1>1, <1>3, <1>4

\* A simple lock of any of the three runtimes has one holder.  Who is told that it owns
\* the lock has it, and in the HARP runtimes whoever has it is told so, also when decrements
\* were lost; in posix a holder is denied it only after a wait for the notification or after
\* another thread's release was refused.
THEOREM LocksAndOwnersAgree == Spec => []LockAndOwnerAgree
<1>1. ASSUME MonitorInv PROVE \A t, u \in Threads : t \in claimed /\ u \in claimed => t = u
  BY <1>1 DEF MonitorInv, PosixMonitorInv, PosixHas, UnixMonitorInv, UnixHas, WindowsMonitorInv,
              WindowsLockInv, Owning, Posix, Unix, Windows
<1>2. ASSUME MonitorInv PROVE SimpleLockExcludes
  <2>1. claimed \in SUBSET Threads
    BY <1>2 DEF MonitorInv, PosixMonitorInv, UnixMonitorInv, MutexType, WindowsMonitorInv,
                WindowsMonitorType, Posix, Unix, Windows
  <2>2. CASE claimed = {}
    BY <2>2, FS_EmptySet DEF SimpleLockExcludes
  <2>3. ASSUME NEW t \in claimed PROVE SimpleLockExcludes
    <3>1. claimed = {t}
      BY <1>1, <1>2, <2>1
    <3> QED
      BY <3>1, FS_Singleton DEF SimpleLockExcludes
  <2> QED
    BY <2>2, <2>3
<1>3. ASSUME MonitorInv PROVE OwnerFollowsLock
  <2>1. CASE Posix
    <3>1. ~Unix /\ ~Windows /\ \A t \in Threads : PosixHas(t)
      BY <1>3, <2>1 DEF MonitorInv, PosixMonitorInv, Posix, Unix, Windows
    <3> QED
      BY <2>1, <3>1
         DEF OwnerFollowsLock, OwnedTellsTruth, OwnedSimpleLock, PosixOwnedSimpleLock, PosixHas
  <2>2. CASE Unix
    <3>1. ~Posix /\ ~Windows /\ \A t \in Threads : UnixHas(t)
      BY <1>3, <2>2 DEF MonitorInv, UnixMonitorInv, Posix, Unix, Windows
    <3> QED
      BY <2>2, <3>1
         DEF OwnerFollowsLock, OwnedTellsTruth, OwnedSimpleLock, UnixOwnedSimpleLock, UnixHas
  <2>3. CASE Windows
    <3>1. ~Posix /\ ~Unix /\ slock.owner \in Owner /\ OneHasLock /\ \A t \in Threads : Owning(t)
      BY <1>3, <2>3 DEF MonitorInv, WindowsMonitorInv, WindowsLockInv, WindowsMonitorType,
                        SimpleLock, Posix, Unix, Windows
    <3>2. \A t \in Threads : mpc[t] = "own" => slock.owner = NoThread
      BY <3>1 DEF OneHasLock, HasLock, Passing, Owning, Inside, Owner
    <3> QED
      BY <2>3, <3>1, <3>2
         DEF OwnerFollowsLock, OwnedTellsTruth, OwnedSimpleLock, WindowsOwnedSimpleLock, Owning
  <2> QED
    BY <1>3, <2>1, <2>2, <2>3 DEF MonitorInv, Posix, Unix, Windows
<1>4. MonitorInv => LockAndOwnerAgree
  BY <1>2, <1>3 DEF LockAndOwnerAgree
<1> QED
  BY <1>4, MonitorInit, MonitorNext, PTL DEF Spec

\* windows: a thread asleep for a lock is passed it unless a decrement was torn, and the
\* count a release of a notification looks at is the number of threads that wait for it.
THEOREM SleepersAndWaitersCount == Spec => []SleepersAndWaitersAreCounted
<1>1. ASSUME MonitorInv PROVE SleepersAreCounted
  <2>1. SUFFICES ASSUME Windows, ~torn, NEW t \in Threads, mpc[t] = "semaphore"
                 PROVE  \/ slock.semaphore = 1
                        \/ \E u \in Threads : u \in claimed \/ mpc[u] \in {"own", "uncount", "post"}
    BY DEF SleepersAreCounted
  <2>2. /\ slock \in SimpleLock /\ LockedOrPosted /\ LockClaimsCounted
        /\ \A u \in Threads : Owning(u)
    BY <1>1, <2>1 DEF MonitorInv, WindowsMonitorInv, WindowsLockInv, WindowsMonitorType
  <2>3. t \in LockClaims /\ LockClaims \in SUBSET Threads /\ Refused \in {0, 1}
    BY <2>1 DEF LockClaims, Refused
  <2>4. Cardinality(LockClaims) \in Nat /\ Cardinality(LockClaims) # 0
    BY <2>3, Counting
  <2>5. slock.lock_count \in Int /\ slock.semaphore \in {0, 1} /\ slock.lock_count # -1
    BY <2>1, <2>2, <2>3, <2>4 DEF LockClaimsCounted, SimpleLock
  <2> QED
    BY <2>2, <2>5 DEF LockedOrPosted, HasLock, Passing, Owning
<1>2. MonitorInv => WaitersAreCounted
  BY DEF MonitorInv, WindowsMonitorInv, WaitersAreCounted, Waiters, Waiting
<1>3. MonitorInv => SleepersAndWaitersAreCounted
  BY <1>1, <1>2 DEF SleepersAndWaitersAreCounted
<1> QED
  BY <1>3, MonitorInit, MonitorNext, PTL DEF Spec

------------------------------------------------------------------------------
(* Thread variables, until a posix thread leaves the list without the lock. *)
(* The counter says how many writers are at it, plus TLV_GROW while one     *)
(* thread makes the vectors grow; that thread alone holds the list lock,    *)
(* every thread in Dylan is on the list and its vector is as long as the    *)
(* defaults except while it waits for its copy.                             *)

TLVPlaces == {"unborn", "dylan", "done", "behead", "cut", "exclude", "grow", "propagate",
              "lower", "synchronize", "raise", "store", "leave"}

TLVValues == {"none", "default", "stored"}

TLVType == /\ tpc \in [Threads -> TLVPlaces]
           /\ tlvVector \in [Threads -> Seq(TLVValues)] /\ grown \in [Threads -> Seq(TLVValues)]
           /\ defaults \in Seq(TLVValues) /\ Len(defaults) > 0
           /\ offset \in Nat /\ counter \in Int
           /\ listLock \in Threads \cup {NoThread} /\ head \in Threads \cup {NoThread}
           /\ next \in [Threads -> Threads \cup {NoThread}]
           /\ stored \in [Threads -> SUBSET Nat]

Started(t) == tpc[t] \notin {"unborn", "done"}
Holds(t) == tpc[t] \in {"exclude", "grow", "propagate"}
Holder(place) == \E t \in Threads : tpc[t] = place

OneHolder == \A t \in Threads : Holds(t) <=> listLock = t

Writers == {t \in Threads : tpc[t] \in {"store", "leave", "lower"}}
WritersCounted == /\ counter = Cardinality(Writers) + (IF Holder("grow") THEN TLV_GROW ELSE 0)
                  /\ Holder("grow") => ~Holder("store") /\ ~Holder("leave")

ListComplete == \A t \in Threads : /\ Started(t) => t \in Listed
                                   /\ tpc[t] = "unborn" => next[t] = NoThread /\ stored[t] = {}

Allocated == /\ Holder("exclude") => offset = Len(defaults) + 1
             /\ ~Holder("exclude") => offset <= Len(defaults)
             /\ listLock # NoThread => offset > 0

DefaultsKnown == \A v \in 1 .. Len(defaults) :
                   defaults[v] = IF v < offset \/ (v = offset /\ listLock = NoThread) THEN "default" ELSE "none"

LongEnough == \A t \in Threads : Started(t) =>
                /\ Len(tlvVector[t]) <= Len(defaults)
                /\ offset <= Len(tlvVector[t]) + 1
                /\ ~Holder("grow") => Len(tlvVector[t]) = Len(defaults)

Copies == \A u \in Threads : grown[u] # None =>
            /\ Holder("grow") /\ u \in Listed /\ Len(tlvVector[u]) < Len(defaults)
            /\ grown[u] = Grow(tlvVector[u], Len(defaults))

Contents == \A t \in Threads : /\ stored[t] \subseteq Known
                               /\ Started(t) => \A v \in Known :
                                    tlvVector[t][v] = IF v \in stored[t] THEN "stored" ELSE "default"

Uncut == ~Holder("behead") /\ ~Holder("cut")

TLVSound == /\ TLVType /\ OneHolder /\ WritersCounted /\ ListComplete /\ Allocated
            /\ DefaultsKnown /\ LongEnough /\ Copies /\ Contents /\ Uncut
TLVInv == ~cut => TLVSound

LEMMA TLVFrame ==
  [Next]_vars => UNCHANGED runtime /\ (NextTLV \/ UNCHANGED tlvVars)
  BY DEF Next, vars, tlvVars

\* A vector that has grown begins like the old one.
LEMMA Grown ==
  ASSUME NEW vector \in Seq(TLVValues), NEW size \in Nat
  PROVE  /\ Grow(vector, size) \in Seq(TLVValues) /\ Len(Grow(vector, size)) = size
         /\ \A i \in 1 .. size : i <= Len(vector) => Grow(vector, size)[i] = vector[i]
         /\ \A i \in 1 .. size : i > Len(vector) => Grow(vector, size)[i] = "none"
<1>1. \A i \in 1 .. Len(vector) : vector[i] \in TLVValues
  OBVIOUS
<1>2. Grow(vector, size) \in [1 .. size -> TLVValues]
  BY <1>1 DEF Grow, TLVValues
<1>3. Grow(vector, size) \in Seq(TLVValues) /\ Len(Grow(vector, size)) = size
  BY <1>2
<1> QED
  BY <1>3 DEF Grow

\* Where the threads are after one has moved.
LEMMA TLVMove ==
  ASSUME TLVType, NEW t \in Threads, NEW l \in TLVPlaces, TGoto(t, l)
  PROVE  /\ tpc' \in [Threads -> TLVPlaces] /\ tpc'[t] = l
         /\ \A u \in Threads : u # t => tpc'[u] = tpc[u]
  BY DEF TLVType, TGoto

LEMMA SameList ==
  ASSUME UNCHANGED <<head, next>>
  PROVE  Listed' = Listed
  BY DEF Listed, Linked

\* A new thread is put before the list.
LEMMA ListGrows ==
  ASSUME TLVType, NEW t \in Threads, next[t] = NoThread,
         head' = t, next' = [next EXCEPT ![t] = head]
  PROVE  t \in Listed' /\ Listed \subseteq Listed'
<1> SUFFICES ASSUME NEW S \in SUBSET Threads, Linked(S)' PROVE t \in S /\ Listed \subseteq S
  BY DEF Listed
<1>1. t \in S
  BY NativeThreadsAssumption DEF Linked
<1>2. Linked(S)
  <2>1. head \in S \cup {NoThread}
    BY <1>1 DEF Linked, TLVType
  <2>2. ASSUME NEW u \in S PROVE next[u] \in S \cup {NoThread}
    BY <2>2 DEF Linked, TLVType
  <2> QED
    BY <2>1, <2>2 DEF Linked
<1> QED
  BY <1>1, <1>2 DEF Listed

\* The list without a thread that leaves it under the lock.
LEMMA ListShrinks ==
  ASSUME TLVType, NEW t \in Threads,
         head' = IF head = t THEN next[t] ELSE head,
         next' = [u \in Threads |-> IF head # t /\ u \in Predecessor(t) THEN next[t] ELSE next[u]]
  PROVE  Listed \ {t} \subseteq Listed'
<1> SUFFICES ASSUME NEW S \in SUBSET Threads, Linked(S)' PROVE Listed \ {t} \subseteq S
  BY DEF Listed
<1> USE NativeThreadsAssumption
<1>1. Linked(Listed)
  <2>1. ASSUME NEW R \in SUBSET Threads, Linked(R), NEW u \in Listed
        PROVE  head \in R \cup {NoThread} /\ next[u] \in R \cup {NoThread}
    BY <2>1 DEF Linked, Listed
  <2>2. head \in Listed \cup {NoThread}
    BY <2>1 DEF Listed, TLVType, Linked
  <2>3. ASSUME NEW u \in Listed PROVE next[u] \in Listed \cup {NoThread}
    BY <2>1, <2>3 DEF Listed, TLVType
  <2> QED
    BY <2>2, <2>3 DEF Linked
<1>2. PICK R : R = S \cap Listed
  OBVIOUS
<1>3. R \in SUBSET Threads /\ head' \in R \cup {NoThread}
  BY <1>1, <1>2 DEF Linked, Listed
<1>4. ASSUME NEW u \in R PROVE next'[u] \in R \cup {NoThread}
  <2>1. u \in S /\ u \in Listed /\ u \in Threads
    BY <1>2
  <2>2. next'[u] \in S \cup {NoThread}
    BY <2>1 DEF Linked
  <2>3. next'[u] = next[u] \/ (next'[u] = next[t] /\ next[u] = t)
    BY <2>1 DEF Predecessor
  <2>4. next[u] \in Listed \cup {NoThread}
    BY <1>1, <2>1 DEF Linked
  <2>5. next[u] = t => next[t] \in Listed \cup {NoThread}
    BY <1>1, <2>4 DEF Linked
  <2> QED
    BY <1>2, <2>2, <2>3, <2>4, <2>5
<1>5. CASE head = t \/ \E u \in R : next[u] = t
  <2>1. next[t] \in R \cup {NoThread}
    <3>1. CASE head = t
      BY <1>3, <3>1
    <3>2. CASE head # t /\ \E u \in R : next[u] = t
      <4>1. PICK u \in R : next[u] = t
        BY <3>2
      <4>2. next'[u] = next[t]
        BY <1>2, <3>2, <4>1 DEF Predecessor
      <4> QED
        BY <1>4, <4>2
    <3> QED
      BY <1>5, <3>1, <3>2
  <2>2. Linked(R \cup {t})
    <3>1. head \in R \cup {t} \cup {NoThread}
      BY <1>3
    <3>2. ASSUME NEW u \in R PROVE next[u] \in R \cup {t} \cup {NoThread}
      BY <1>3, <1>4, <3>2 DEF Predecessor
    <3> QED
      BY <2>1, <3>1, <3>2 DEF Linked
  <2>3. Listed \subseteq R \cup {t}
    BY <1>3, <2>2 DEF Listed
  <2> QED
    BY <1>2, <2>3
<1>6. CASE ~(head = t \/ \E u \in R : next[u] = t)
  <2>1. Linked(R)
    BY <1>3, <1>4, <1>6 DEF Linked, Predecessor
  <2>2. Listed \subseteq R
    BY <1>3, <2>1 DEF Listed
  <2> QED
    BY <1>2, <2>2
<1> QED
  BY <1>5, <1>6

\* Where a thread does not hold the list lock, and where it is counted.
Unlocked == {"dylan", "lower", "synchronize", "raise", "store", "leave"}
Raised == {"store", "leave", "lower"}

\* A thread that moves is counted before, after, both or not at all.
LEMMA WritersMove ==
  ASSUME TLVType, NEW t \in Threads, NEW l \in TLVPlaces, TGoto(t, l)
  PROVE  /\ Cardinality(Writers) \in Nat /\ Writers \subseteq Threads
         /\ tpc[t] \in Raised /\ l \in Raised => Cardinality(Writers)' = Cardinality(Writers)
         /\ tpc[t] \notin Raised /\ l \notin Raised => Cardinality(Writers)' = Cardinality(Writers)
         /\ tpc[t] \notin Raised /\ l \in Raised => Cardinality(Writers)' = Cardinality(Writers) + 1
         /\ tpc[t] \in Raised /\ l \notin Raised => Cardinality(Writers)' = Cardinality(Writers) - 1
<1>1. tpc'[t] = l /\ \A u \in Threads : u # t => tpc'[u] = tpc[u]
  BY TLVMove
<1>2. Writers \in SUBSET Threads
  BY DEF Writers
<1>3. ASSUME tpc[t] \in Raised, l \in Raised PROVE Cardinality(Writers)' = Cardinality(Writers)
  <2>1. Writers' = Writers
    BY <1>1, <1>3 DEF Writers, Raised
  <2> QED
    BY <2>1
<1>4. ASSUME tpc[t] \notin Raised, l \notin Raised PROVE Cardinality(Writers)' = Cardinality(Writers)
  <2>1. Writers' = Writers
    BY <1>1, <1>4 DEF Writers, Raised
  <2> QED
    BY <2>1
<1>5. ASSUME tpc[t] \notin Raised, l \in Raised PROVE Cardinality(Writers)' = Cardinality(Writers) + 1
  <2>1. Writers' = Writers \cup {t} /\ t \in Threads \ Writers
    BY <1>1, <1>5 DEF Writers, Raised
  <2> QED
    BY <1>2, <2>1, Counting
<1>6. ASSUME tpc[t] \in Raised, l \notin Raised PROVE Cardinality(Writers)' = Cardinality(Writers) - 1
  <2>1. Writers' = Writers \ {t} /\ t \in Writers
    BY <1>1, <1>6 DEF Writers, Raised
  <2> QED
    BY <1>2, <2>1, Counting
<1> QED
  BY <1>2, <1>3, <1>4, <1>5, <1>6, Counting

\* A thread that is storing and one that does not hold the lock leave the rest alone.
LEMMA WriterKeeps ==
  ASSUME TLVSound, NEW t \in Threads, tpc[t] \in Unlocked, NEW l \in Unlocked, TGoto(t, l),
         UNCHANGED <<tlvVector, grown, defaults, offset, listLock, head, next, stored>>,
         counter' \in Int, WritersCounted'
  PROVE  TLVSound'
<1>1. TLVType /\ l \in TLVPlaces
  BY DEF TLVSound, Unlocked, TLVPlaces
<1>2. /\ tpc' \in [Threads -> TLVPlaces] /\ tpc'[t] = l
      /\ \A u \in Threads : u # t => tpc'[u] = tpc[u]
  BY <1>1, TLVMove
<1>3. \A p \in TLVPlaces \ Unlocked : (\E u \in Threads : tpc'[u] = p) <=> (\E u \in Threads : tpc[u] = p)
  BY <1>2
<1>4. /\ Holder("exclude")' <=> Holder("exclude")
      /\ Holder("grow")' <=> Holder("grow")
      /\ Holder("behead")' <=> Holder("behead")
      /\ Holder("cut")' <=> Holder("cut")
  BY <1>3 DEF Holder, TLVPlaces, Unlocked
<1>5. \A u \in Threads : /\ Started(u)' <=> Started(u)
                         /\ Holds(u)' <=> Holds(u)
                         /\ tpc'[u] = "unborn" <=> tpc[u] = "unborn"
  BY <1>2 DEF Started, Holds, Unlocked
<1>6. Listed' = Listed /\ Known' = Known
  BY SameList DEF Known
<1>7. TLVType'
  BY <1>1, <1>2 DEF TLVType
<1>8. OneHolder'
  BY <1>5 DEF TLVSound, OneHolder
<1>9. ListComplete'
  BY <1>5, <1>6 DEF TLVSound, ListComplete
<1>10. Allocated' /\ DefaultsKnown' /\ Uncut'
  BY <1>4 DEF TLVSound, Allocated, DefaultsKnown, Uncut
<1>11. LongEnough'
  BY <1>4, <1>5 DEF TLVSound, LongEnough
<1>12. Copies'
  BY <1>4, <1>6 DEF TLVSound, Copies
<1>13. Contents'
  BY <1>5, <1>6 DEF TLVSound, Contents
<1> QED
  BY <1>7, <1>8, <1>9, <1>10, <1>11, <1>12, <1>13 DEF TLVSound

\* While the vectors grow, no number of writers brings the counter up to zero.
LEMMA RefusedWriters ==
  ASSUME TLVSound
  PROVE  /\ counter \in Int /\ Cardinality(Writers) \in Nat /\ TLV_GROW \in Int
         /\ Holder("grow") => Cardinality(Writers) + 1 + TLV_GROW < 0
<1>1. Writers \subseteq Threads /\ Cardinality(Writers) \in Nat /\ Cardinality(Threads) \in Nat
  <2>1. Writers \in SUBSET Threads
    BY DEF Writers
  <2> QED
    BY <2>1, Counting
<1>2. TLV_GROW \in Int
  BY <1>1 DEF TLV_GROW
<1>3. ASSUME Holder("grow") PROVE Cardinality(Writers) + 1 <= Cardinality(Threads)
  <2>1. PICK t \in Threads : tpc[t] = "grow"
    BY <1>3 DEF Holder
  <2>2. t \in Threads \ Writers /\ Writers \cup {t} \subseteq Threads
    BY <1>1, <2>1 DEF Writers
  <2>3. Cardinality(Writers \cup {t}) = Cardinality(Writers) + 1
    BY <1>1, <2>2, Counting
  <2>4. Cardinality(Writers \cup {t}) <= Cardinality(Threads)
    BY <2>2, NativeThreadsAssumption, FS_Subset
  <2> QED
    BY <2>3, <2>4
<1>4. ASSUME Holder("grow") PROVE Cardinality(Writers) + 1 + TLV_GROW < 0
  BY <1>1, <1>3, <1>4 DEF TLV_GROW
<1> QED
  BY <1>1, <1>2, <1>4 DEF TLVSound, TLVType

\* Raising the counter: it is refused exactly while the vectors grow.
LEMMA RaiseKeeps ==
  ASSUME TLVSound, NEW t \in Threads, tpc[t] \in {"dylan", "raise"}, Raise(t)
  PROVE  TLVSound'
<1>1. PICK l \in {"lower", "store"} : TGoto(t, l) /\ (l = "lower" <=> counter + 1 < 0)
  BY DEF Raise
<1>2. counter' = counter + 1 /\ UNCHANGED <<tlvVector, grown, defaults, offset, listLock, head, next, stored>>
  BY DEF Raise
<1>3. TLVType /\ l \in TLVPlaces /\ WritersCounted
  BY DEF TLVSound, TLVPlaces
<1>4. Cardinality(Writers)' = Cardinality(Writers) + 1
  BY <1>1, <1>3, WritersMove DEF Raised
<1>5. tpc'[t] = l /\ \A u \in Threads : u # t => tpc'[u] = tpc[u]
  BY <1>1, <1>3, TLVMove
<1>6. counter \in Int /\ Cardinality(Writers) \in Nat /\ TLV_GROW \in Int
  BY RefusedWriters
<1>7. Holder("grow")' <=> Holder("grow")
  BY <1>5 DEF Holder
<1>8. ASSUME Holder("grow") PROVE l = "lower"
  BY <1>1, <1>3, <1>8, RefusedWriters DEF WritersCounted
<1>9. WritersCounted'
  <2>1. counter' = Cardinality(Writers)' + (IF Holder("grow") THEN TLV_GROW ELSE 0)
    BY <1>2, <1>3, <1>4, <1>6 DEF WritersCounted
  <2>2. Holder("grow") => ~Holder("store")' /\ ~Holder("leave")'
    BY <1>3, <1>5, <1>8 DEF WritersCounted, Holder
  <2> QED
    BY <1>7, <2>1, <2>2 DEF WritersCounted
<1> QED
  BY <1>1, <1>2, <1>6, <1>9, WriterKeeps DEF Unlocked

\* Lowering it, after a store or a refusal.
LEMMA LowerKeeps ==
  ASSUME TLVSound, NEW t \in Threads, tpc[t] \in {"lower", "leave"},
         NEW l \in {"dylan", "synchronize", "raise"}, TGoto(t, l), counter' = counter - 1,
         UNCHANGED <<tlvVector, grown, defaults, offset, listLock, head, next, stored>>
  PROVE  TLVSound'
<1>1. TLVType /\ l \in TLVPlaces /\ WritersCounted
  BY DEF TLVSound, TLVPlaces
<1>2. Cardinality(Writers)' = Cardinality(Writers) - 1
  BY <1>1, WritersMove DEF Raised
<1>3. tpc'[t] = l /\ \A u \in Threads : u # t => tpc'[u] = tpc[u]
  BY <1>1, TLVMove
<1>4. counter \in Int /\ Cardinality(Writers) \in Nat /\ TLV_GROW \in Int
  BY RefusedWriters
<1>5. Holder("grow")' <=> Holder("grow")
  BY <1>3 DEF Holder
<1>6. WritersCounted'
  <2>1. counter' = Cardinality(Writers)' + (IF Holder("grow") THEN TLV_GROW ELSE 0)
    BY <1>1, <1>2, <1>4 DEF WritersCounted
  <2>2. Holder("grow") => ~Holder("store")' /\ ~Holder("leave")'
    BY <1>1, <1>3 DEF WritersCounted, Holder
  <2> QED
    BY <1>5, <2>1, <2>2 DEF WritersCounted
<1> QED
  BY <1>4, <1>6, WriterKeeps DEF Unlocked

LEMMA SynchronizeKeeps ==
  ASSUME TLVSound, NEW t \in Threads, tpc[t] = "synchronize", TGoto(t, "raise"), counter' = counter,
         UNCHANGED <<tlvVector, grown, defaults, offset, listLock, head, next, stored>>
  PROVE  TLVSound'
<1>1. TLVType /\ "raise" \in TLVPlaces /\ WritersCounted
  BY DEF TLVSound, TLVPlaces
<1>2. Cardinality(Writers)' = Cardinality(Writers)
  BY <1>1, WritersMove DEF Raised
<1>3. tpc'[t] = "raise" /\ \A u \in Threads : u # t => tpc'[u] = tpc[u]
  BY <1>1, TLVMove
<1>4. counter \in Int
  BY RefusedWriters
<1>5. Holder("grow")' <=> Holder("grow")
  BY <1>3 DEF Holder
<1>6. Holder("grow") => ~Holder("store")' /\ ~Holder("leave")'
  BY <1>1, <1>3 DEF WritersCounted, Holder
<1>7. WritersCounted'
  BY <1>1, <1>2, <1>5, <1>6 DEF WritersCounted
<1> QED
  BY <1>4, <1>7, WriterKeeps DEF Unlocked

\* The variables whose handles are known.
LEMMA KnownVariables ==
  ASSUME TLVSound
  PROVE  /\ Known \subseteq 1 .. Len(defaults) /\ Known \subseteq 1 .. offset
         /\ listLock = NoThread => Known = 1 .. offset
         /\ listLock # NoThread => Known = 1 .. offset - 1
<1>1. /\ defaults \in Seq(TLVValues) /\ offset \in Nat /\ Len(defaults) \in Nat
      /\ \A v \in 1 .. Len(defaults) :
           defaults[v] = IF v < offset \/ (v = offset /\ listLock = NoThread) THEN "default" ELSE "none"
  BY DEF TLVSound, TLVType, DefaultsKnown
<1>2. offset <= Len(defaults) + 1 /\ (listLock = NoThread => offset <= Len(defaults))
  <2>1. listLock = NoThread => ~Holder("exclude")
    BY NativeThreadsAssumption DEF TLVSound, OneHolder, Holder, Holds
  <2> QED
    BY <1>1, <2>1 DEF TLVSound, Allocated
<1>3. \A v \in 1 .. offset : v \in Known <=> v <= Len(defaults) /\ (v < offset \/ listLock = NoThread)
  BY <1>1 DEF Known
<1>4. Known \subseteq 1 .. offset
  BY DEF Known
<1>5. Known \subseteq 1 .. Len(defaults)
  BY <1>1, <1>3, <1>4
<1>6. ASSUME listLock = NoThread PROVE Known = 1 .. offset
  <2>1. \A v \in 1 .. offset : v <= Len(defaults)
    BY <1>1, <1>2, <1>6
  <2> QED
    BY <1>3, <1>4, <1>6, <2>1
<1>7. ASSUME listLock # NoThread PROVE Known = 1 .. offset - 1
  <2>1. \A v \in 1 .. offset - 1 : v \in 1 .. offset /\ v <= Len(defaults) /\ v < offset
    BY <1>1, <1>2
  <2>2. \A v \in 1 .. offset : v < offset => v \in 1 .. offset - 1
    BY <1>1
  <2> QED
    BY <1>3, <1>4, <1>7, <2>1, <2>2
<1> QED
  BY <1>4, <1>5, <1>6, <1>7

\* A store: no vector is being copied meanwhile.
LEMMA StoreKeeps ==
  ASSUME TLVSound, NEW t \in Threads, StoreVariable(t)
  PROVE  TLVSound'
<1>1. PICK v \in Known \cap DOMAIN tlvVector[t] :
        /\ tlvVector' = [tlvVector EXCEPT ![t][v] = "stored"]
        /\ stored' = [stored EXCEPT ![t] = @ \cup {v}]
  BY DEF StoreVariable
<1>2. /\ tpc[t] = "store" /\ TGoto(t, "leave")
      /\ UNCHANGED <<grown, defaults, offset, counter, listLock, head, next>>
  BY DEF StoreVariable
<1>3. TLVType /\ "leave" \in TLVPlaces /\ WritersCounted
  BY DEF TLVSound, TLVPlaces
<1>4. /\ tpc' \in [Threads -> TLVPlaces] /\ tpc'[t] = "leave"
      /\ \A u \in Threads : u # t => tpc'[u] = tpc[u]
  BY <1>2, <1>3, TLVMove
<1>5. Cardinality(Writers)' = Cardinality(Writers)
  BY <1>2, <1>3, WritersMove DEF Raised
<1>6. ~Holder("grow") /\ ~Holder("grow")'
  BY <1>2, <1>3, <1>4 DEF WritersCounted, Holder
<1>7. /\ Holder("exclude")' <=> Holder("exclude")
      /\ Holder("behead")' <=> Holder("behead")
      /\ Holder("cut")' <=> Holder("cut")
  BY <1>2, <1>4 DEF Holder
<1>8. \A u \in Threads : /\ Started(u)' <=> Started(u)
                         /\ Holds(u)' <=> Holds(u)
                         /\ tpc'[u] = "unborn" => u # t /\ tpc[u] = "unborn"
  BY <1>2, <1>4 DEF Started, Holds
<1>9. Listed' = Listed /\ Known' = Known
  BY <1>2, SameList DEF Known
<1>10. /\ tlvVector[t] \in Seq(TLVValues) /\ v \in 1 .. Len(tlvVector[t]) /\ v \in Nat
       /\ tlvVector'[t] = [tlvVector[t] EXCEPT ![v] = "stored"]
       /\ \A u \in Threads : u # t => tlvVector'[u] = tlvVector[u]
  BY <1>1, <1>3 DEF TLVType
<1>11. /\ tlvVector'[t] \in Seq(TLVValues) /\ Len(tlvVector'[t]) = Len(tlvVector[t])
       /\ \A w \in 1 .. Len(tlvVector[t]) : tlvVector'[t][w] = IF w = v THEN "stored" ELSE tlvVector[t][w]
  BY <1>10 DEF TLVValues
<1>12. \A u \in Threads : Len(tlvVector'[u]) = Len(tlvVector[u])
  BY <1>10, <1>11
<1>13. TLVType'
  <2>1. tlvVector' \in [Threads -> Seq(TLVValues)]
    BY <1>1, <1>3, <1>10, <1>11 DEF TLVType
  <2>2. stored' \in [Threads -> SUBSET Nat]
    BY <1>1, <1>3, <1>10 DEF TLVType
  <2> QED
    BY <1>2, <1>3, <1>4, <2>1, <2>2 DEF TLVType
<1>14. OneHolder' /\ Allocated' /\ DefaultsKnown' /\ Uncut'
  BY <1>2, <1>7, <1>8 DEF TLVSound, OneHolder, Allocated, DefaultsKnown, Uncut
<1>15. WritersCounted'
  BY <1>2, <1>3, <1>5, <1>6 DEF WritersCounted
<1>16. ListComplete'
  <2>1. \A u \in Threads : u # t => stored'[u] = stored[u]
    BY <1>1, <1>3 DEF TLVType
  <2> QED
    BY <1>2, <1>8, <1>9, <2>1 DEF TLVSound, ListComplete
<1>17. LongEnough'
  BY <1>2, <1>6, <1>8, <1>12 DEF TLVSound, LongEnough
<1>18. Copies'
  <2>1. \A u \in Threads : grown[u] = None
    BY <1>6 DEF TLVSound, Copies
  <2> QED
    BY <1>2, <2>1 DEF Copies
<1>19. Contents'
  <2>1. ASSUME NEW u \in Threads, u # t
        PROVE  stored'[u] = stored[u] /\ tlvVector'[u] = tlvVector[u]
    BY <1>1, <1>3, <1>10, <2>1 DEF TLVType
  <2>2. stored'[t] = stored[t] \cup {v}
    BY <1>1, <1>3 DEF TLVType
  <2>3. \A w \in Known : w \in 1 .. Len(tlvVector[t])
    <3>1. Started(t) /\ Len(tlvVector[t]) = Len(defaults)
      BY <1>2, <1>6 DEF TLVSound, LongEnough, Started
    <3> QED
      BY <3>1, KnownVariables
  <2>4. ASSUME NEW w \in Known PROVE tlvVector'[t][w] = IF w \in stored'[t] THEN "stored" ELSE "default"
    <3>1. tlvVector[t][w] = IF w \in stored[t] THEN "stored" ELSE "default"
      BY <1>2, <2>4 DEF TLVSound, Contents, Started
    <3> QED
      BY <1>11, <2>2, <2>3, <2>4, <3>1
  <2>5. stored'[t] \subseteq Known
    BY <1>1, <2>2 DEF TLVSound, Contents
  <2> QED
    BY <1>8, <1>9, <2>1, <2>4, <2>5 DEF TLVSound, Contents
<1> QED
  BY <1>13, <1>14, <1>15, <1>16, <1>17, <1>18, <1>19 DEF TLVSound

\* Whoever holds the list lock holds it alone.
LEMMA Alone ==
  ASSUME TLVSound, NEW t \in Threads
  PROVE  /\ listLock = NoThread => ~Holder("exclude") /\ ~Holder("grow") /\ ~Holder("propagate")
         /\ Holds(t) => listLock = t /\ \A u \in Threads : u # t => ~Holds(u)
  BY NativeThreadsAssumption DEF TLVSound, OneHolder, Holder, Holds

\* A new thread copies the defaults and goes to the front of the list.
LEMMA SetupKeeps ==
  ASSUME TLVSound, NEW t \in Threads, SetupTLV(t)
  PROVE  TLVSound'
<1>1. /\ tpc[t] = "unborn" /\ TGoto(t, "dylan") /\ listLock = NoThread
      /\ tlvVector' = [tlvVector EXCEPT ![t] = defaults]
      /\ head' = t /\ next' = [next EXCEPT ![t] = head]
      /\ UNCHANGED <<grown, defaults, offset, counter, listLock, stored>>
  BY DEF SetupTLV
<1>2. TLVType /\ "dylan" \in TLVPlaces /\ WritersCounted /\ next[t] = NoThread /\ stored[t] = {}
  BY <1>1 DEF TLVSound, TLVPlaces, ListComplete
<1>3. /\ tpc' \in [Threads -> TLVPlaces] /\ tpc'[t] = "dylan"
      /\ \A u \in Threads : u # t => tpc'[u] = tpc[u]
  BY <1>1, <1>2, TLVMove
<1>4. Cardinality(Writers)' = Cardinality(Writers)
  BY <1>1, <1>2, WritersMove DEF Raised
<1>5. \A p \in TLVPlaces \ {"unborn", "dylan"} : Holder(p)' <=> Holder(p)
  BY <1>1, <1>3 DEF Holder
<1>6. /\ Holder("exclude")' <=> Holder("exclude")
      /\ Holder("grow")' <=> Holder("grow")
      /\ Holder("store")' <=> Holder("store")
      /\ Holder("leave")' <=> Holder("leave")
      /\ Holder("behead")' <=> Holder("behead")
      /\ Holder("cut")' <=> Holder("cut")
  BY <1>5 DEF TLVPlaces
<1>7. \A u \in Threads : /\ Started(u)' => u = t \/ Started(u)
                         /\ Holds(u)' <=> Holds(u)
                         /\ tpc'[u] = "unborn" => u # t /\ tpc[u] = "unborn"
  BY <1>1, <1>3 DEF Started, Holds
<1>8. t \in Listed' /\ Listed \subseteq Listed' /\ Known' = Known
  BY <1>1, <1>2, ListGrows DEF Known
<1>9. tlvVector'[t] = defaults /\ \A u \in Threads : u # t => tlvVector'[u] = tlvVector[u]
  BY <1>1, <1>2 DEF TLVType
<1>10. TLVType'
  BY <1>1, <1>2, <1>3 DEF TLVType
<1>11. OneHolder' /\ Allocated' /\ DefaultsKnown' /\ Uncut'
  BY <1>1, <1>6, <1>7 DEF TLVSound, OneHolder, Allocated, DefaultsKnown, Uncut
<1>12. WritersCounted'
  BY <1>1, <1>2, <1>4, <1>6 DEF WritersCounted
<1>13. ListComplete'
  <2>1. \A u \in Threads : u # t => next'[u] = next[u]
    BY <1>1, <1>2 DEF TLVType
  <2> QED
    BY <1>1, <1>7, <1>8, <2>1 DEF TLVSound, ListComplete
<1>14. ~Holder("grow") /\ offset <= Len(defaults)
  BY <1>1, Alone DEF TLVSound, Allocated
<1>15. LongEnough'
  <2>1. ASSUME NEW u \in Threads, Started(u)'
        PROVE  Len(tlvVector'[u]) = Len(defaults)
    BY <1>7, <1>9, <1>14, <2>1 DEF TLVSound, LongEnough
  <2>2. offset \in Nat /\ Len(defaults) \in Nat
    BY <1>2 DEF TLVType
  <2> QED
    BY <1>1, <1>14, <2>1, <2>2 DEF LongEnough
<1>16. Copies'
  <2>1. \A u \in Threads : grown[u] = None
    BY <1>14 DEF TLVSound, Copies
  <2> QED
    BY <1>1, <2>1 DEF Copies
<1>17. Contents'
  <2>1. \A v \in Known : defaults[v] = "default"
    BY DEF Known
  <2> QED
    BY <1>1, <1>2, <1>7, <1>8, <1>9, <2>1 DEF TLVSound, Contents
<1> QED
  BY <1>10, <1>11, <1>12, <1>13, <1>15, <1>16, <1>17 DEF TLVSound

\* A thread that ends leaves the list under the lock, and no other does.
LEMMA RemoveKeeps ==
  ASSUME TLVSound, NEW t \in Threads, RemoveTLV(t)
  PROVE  TLVSound'
<1>1. /\ tpc[t] = "dylan" /\ TGoto(t, "done") /\ listLock = NoThread
      /\ head' = IF head = t THEN next[t] ELSE head
      /\ next' = [u \in Threads |-> IF head # t /\ u \in Predecessor(t) THEN next[t] ELSE next[u]]
      /\ UNCHANGED <<tlvVector, grown, defaults, offset, counter, listLock, stored>>
  BY DEF RemoveTLV
<1>2. TLVType /\ "done" \in TLVPlaces /\ WritersCounted
  BY DEF TLVSound, TLVPlaces
<1>3. /\ tpc' \in [Threads -> TLVPlaces] /\ tpc'[t] = "done"
      /\ \A u \in Threads : u # t => tpc'[u] = tpc[u]
  BY <1>1, <1>2, TLVMove
<1>4. Cardinality(Writers)' = Cardinality(Writers)
  BY <1>1, <1>2, WritersMove DEF Raised
<1>5. \A p \in TLVPlaces \ {"done", "dylan"} : Holder(p)' <=> Holder(p)
  BY <1>1, <1>3 DEF Holder
<1>6. /\ Holder("exclude")' <=> Holder("exclude")
      /\ Holder("grow")' <=> Holder("grow")
      /\ Holder("store")' <=> Holder("store")
      /\ Holder("leave")' <=> Holder("leave")
      /\ Holder("behead")' <=> Holder("behead")
      /\ Holder("cut")' <=> Holder("cut")
  BY <1>5 DEF TLVPlaces
<1>7. \A u \in Threads : /\ Started(u)' => u # t /\ Started(u)
                         /\ Holds(u)' <=> Holds(u)
                         /\ tpc'[u] = "unborn" => tpc[u] = "unborn"
  BY <1>1, <1>3 DEF Started, Holds
<1>8. Listed \ {t} \subseteq Listed' /\ Known' = Known
  BY <1>1, <1>2, ListShrinks DEF Known
<1>9. TLVType'
  BY <1>1, <1>2, <1>3 DEF TLVType
<1>10. OneHolder' /\ Allocated' /\ DefaultsKnown' /\ Uncut'
  BY <1>1, <1>6, <1>7 DEF TLVSound, OneHolder, Allocated, DefaultsKnown, Uncut
<1>11. WritersCounted'
  BY <1>1, <1>2, <1>4, <1>6 DEF WritersCounted
<1>12. ListComplete'
  <2>1. \A u \in Threads : next[u] = NoThread => next'[u] = NoThread
    BY <1>1, NativeThreadsAssumption DEF Predecessor
  <2> QED
    BY <1>1, <1>7, <1>8, <2>1 DEF TLVSound, ListComplete
<1>13. LongEnough'
  BY <1>1, <1>6, <1>7 DEF TLVSound, LongEnough
<1>14. Copies'
  <2>1. \A u \in Threads : grown[u] = None
    BY <1>1, Alone DEF TLVSound, Copies
  <2> QED
    BY <1>1, <2>1 DEF Copies
<1>15. Contents'
  BY <1>1, <1>7, <1>8 DEF TLVSound, Contents
<1> QED
  BY <1>9, <1>10, <1>11, <1>12, <1>13, <1>14, <1>15 DEF TLVSound

\* A thread takes the lock and the next offset.
LEMMA AllocateKeeps ==
  ASSUME TLVSound, NEW t \in Threads, AllocateVariable(t)
  PROVE  TLVSound'
<1>1. PICK l \in {"exclude", "propagate"} : TGoto(t, l) /\ (l = "exclude" <=> offset + 1 > Len(defaults))
  BY DEF AllocateVariable
<1>2. /\ tpc[t] = "dylan" /\ listLock = NoThread /\ listLock' = t /\ offset' = offset + 1
      /\ UNCHANGED <<tlvVector, grown, defaults, counter, head, next, stored>>
  BY DEF AllocateVariable, Lock
<1>3. TLVType /\ l \in TLVPlaces /\ WritersCounted
  BY DEF TLVSound, TLVPlaces
<1>4. /\ tpc' \in [Threads -> TLVPlaces] /\ tpc'[t] = l
      /\ \A u \in Threads : u # t => tpc'[u] = tpc[u]
  BY <1>1, <1>3, TLVMove
<1>5. Cardinality(Writers)' = Cardinality(Writers)
  BY <1>1, <1>2, <1>3, WritersMove DEF Raised
<1>6. ~Holder("exclude") /\ ~Holder("grow") /\ offset <= Len(defaults)
  BY <1>2, Alone DEF TLVSound, Allocated
<1>7. /\ ~Holder("grow")'
      /\ Holder("exclude")' <=> l = "exclude"
      /\ ~Holder("behead")' /\ ~Holder("cut")'
  BY <1>4, <1>6 DEF Holder, TLVSound, Uncut
<1>8. \A u \in Threads : /\ Started(u)' <=> Started(u)
                         /\ Holds(u)' <=> u = t
                         /\ tpc'[u] = "unborn" => tpc[u] = "unborn"
  <2>1. \A u \in Threads : ~Holds(u)
    BY <1>2, NativeThreadsAssumption DEF TLVSound, OneHolder
  <2> QED
    BY <1>2, <1>4, <2>1 DEF Started, Holds
<1>9. defaults \in Seq(TLVValues) /\ offset \in Nat /\ Len(defaults) \in Nat /\ Len(defaults) > 0
  BY <1>3 DEF TLVType
<1>10. DefaultsKnown'
  <2>1. t # NoThread
    BY NativeThreadsAssumption
  <2> QED
    BY <1>2, <1>9, <2>1 DEF TLVSound, DefaultsKnown
<1>11. Listed' = Listed /\ Known' = Known
  <2>1. ASSUME NEW v \in 1 .. offset + 1, v <= Len(defaults), defaults[v] = "default"
        PROVE  v \in 1 .. offset
    BY <1>2, <1>9, <2>1 DEF TLVSound, DefaultsKnown
  <2>2. 1 .. offset \subseteq 1 .. offset + 1
    BY <1>9
  <2> QED
    BY <1>2, <2>1, <2>2, SameList DEF Known
<1>12. TLVType'
  BY <1>2, <1>3, <1>4 DEF TLVType
<1>13. OneHolder' /\ Uncut'
  BY <1>2, <1>7, <1>8 DEF OneHolder, Uncut
<1>14. WritersCounted'
  BY <1>2, <1>3, <1>5, <1>6, <1>7 DEF WritersCounted
<1>15. ListComplete'
  BY <1>2, <1>8, <1>11 DEF TLVSound, ListComplete
<1>16. Allocated'
  BY <1>1, <1>2, <1>6, <1>7, <1>9 DEF Allocated
<1>17. LongEnough'
  <2>1. ASSUME NEW u \in Threads, Started(u) PROVE Len(tlvVector[u]) = Len(defaults)
    BY <1>6, <2>1 DEF TLVSound, LongEnough
  <2> QED
    BY <1>2, <1>6, <1>8, <1>9, <2>1 DEF LongEnough
<1>18. Copies'
  <2>1. \A u \in Threads : grown[u] = None
    BY <1>6 DEF TLVSound, Copies
  <2> QED
    BY <1>2, <2>1 DEF Copies
<1>19. Contents'
  BY <1>2, <1>8, <1>11 DEF TLVSound, Contents
<1> QED
  BY <1>10, <1>12, <1>13, <1>14, <1>15, <1>16, <1>17, <1>18, <1>19 DEF TLVSound

\* The growth begins when the counter shows no writer.
LEMMA ExcludeKeeps ==
  ASSUME TLVSound, NEW t \in Threads, ExcludeWriters(t)
  PROVE  TLVSound'
<1>1. /\ tpc[t] = "exclude" /\ counter = 0 /\ counter' = TLV_GROW /\ TGoto(t, "grow")
      /\ defaults' = Grow(defaults, 2 * Len(defaults))
      /\ UNCHANGED <<tlvVector, grown, offset, listLock, head, next, stored>>
  BY DEF ExcludeWriters
<1>2. TLVType /\ "grow" \in TLVPlaces /\ WritersCounted
  BY DEF TLVSound, TLVPlaces
<1>3. /\ tpc' \in [Threads -> TLVPlaces] /\ tpc'[t] = "grow"
      /\ \A u \in Threads : u # t => tpc'[u] = tpc[u]
  BY <1>1, <1>2, TLVMove
<1>4. Cardinality(Writers)' = Cardinality(Writers)
  BY <1>1, <1>2, WritersMove DEF Raised
<1>5. listLock = t /\ \A u \in Threads : u # t => ~Holds(u)
  BY <1>1, Alone DEF Holds
<1>6. ~Holder("grow") /\ Holder("exclude")
  BY <1>1, <1>5 DEF Holder, Holds
<1>7. /\ Holder("grow")' /\ ~Holder("exclude")'
      /\ ~Holder("behead")' /\ ~Holder("cut")'
  BY <1>3, <1>5 DEF Holder, Holds, TLVSound, Uncut
<1>8. \A u \in Threads : /\ Started(u)' <=> Started(u)
                         /\ Holds(u)' <=> Holds(u)
                         /\ tpc'[u] = "unborn" => tpc[u] = "unborn"
  BY <1>1, <1>3 DEF Started, Holds
<1>9. Cardinality(Writers) = 0 /\ TLV_GROW \in Int
  BY <1>1, <1>2, <1>6, RefusedWriters DEF WritersCounted
<1>10. Writers = {}
  <2>1. Writers \in SUBSET Threads
    BY DEF Writers
  <2> QED
    BY <1>9, <2>1, NativeThreadsAssumption, FS_Subset, FS_EmptySet
<1>11. /\ defaults \in Seq(TLVValues) /\ offset = Len(defaults) + 1
       /\ Len(defaults) \in Nat /\ Len(defaults) > 0
  BY <1>2, <1>6 DEF TLVSound, TLVType, Allocated
<1>12. /\ defaults' \in Seq(TLVValues) /\ Len(defaults') = 2 * Len(defaults)
       /\ \A i \in 1 .. 2 * Len(defaults) : i <= Len(defaults) => defaults'[i] = defaults[i]
       /\ \A i \in 1 .. 2 * Len(defaults) : i > Len(defaults) => defaults'[i] = "none"
  <2>1. 2 * Len(defaults) \in Nat
    BY <1>11
  <2> QED
    BY <1>1, <1>11, <2>1, Grown
<1>13. TLVType'
  BY <1>1, <1>2, <1>3, <1>9, <1>11, <1>12 DEF TLVType
<1>14. OneHolder' /\ Uncut'
  BY <1>1, <1>7, <1>8 DEF TLVSound, OneHolder, Uncut
<1>15. WritersCounted'
  <2>1. ~Holder("store")' /\ ~Holder("leave")'
    BY <1>3, <1>10 DEF Writers, Holder
  <2>2. counter' = Cardinality(Writers)' + TLV_GROW
    BY <1>1, <1>4, <1>9
  <2> QED
    BY <1>7, <2>1, <2>2 DEF WritersCounted
<1>16. Allocated'
  BY <1>1, <1>7, <1>11, <1>12 DEF Allocated
<1>17. DefaultsKnown'
  <2>1. listLock # NoThread
    BY <1>5, NativeThreadsAssumption
  <2>2. ASSUME NEW v \in 1 .. Len(defaults')
        PROVE  defaults'[v] = IF v < offset THEN "default" ELSE "none"
    <3>1. CASE v <= Len(defaults)
      <4>1. v \in 1 .. Len(defaults) /\ v < offset /\ defaults'[v] = defaults[v]
        BY <1>11, <1>12, <2>2, <3>1
      <4> QED
        BY <4>1 DEF TLVSound, DefaultsKnown
    <3>2. CASE v > Len(defaults)
      BY <1>11, <1>12, <2>2, <3>2
    <3> QED
      BY <1>11, <1>12, <2>2, <3>1, <3>2
  <2> QED
    BY <1>1, <2>1, <2>2 DEF DefaultsKnown
<1>18. Listed' = Listed /\ Known' = Known
  <2>1. ASSUME NEW v \in 1 .. offset
        PROVE  (v <= Len(defaults') /\ defaults'[v] = "default") <=> (v <= Len(defaults) /\ defaults[v] = "default")
    <3>1. v \in 1 .. 2 * Len(defaults)
      BY <1>11, <2>1
    <3> QED
      BY <1>11, <1>12, <2>1, <3>1
  <2> QED
    BY <1>1, <2>1, SameList DEF Known
<1>19. ListComplete'
  BY <1>1, <1>8, <1>18 DEF TLVSound, ListComplete
<1>20. LongEnough'
  <2>1. ASSUME NEW u \in Threads, Started(u) PROVE Len(tlvVector[u]) = Len(defaults)
    BY <1>6, <2>1 DEF TLVSound, LongEnough
  <2> QED
    BY <1>1, <1>7, <1>8, <1>11, <1>12, <2>1 DEF LongEnough
<1>21. Copies'
  <2>1. \A u \in Threads : grown[u] = None
    BY <1>6 DEF TLVSound, Copies
  <2> QED
    BY <1>1, <2>1 DEF Copies
<1>22. Contents'
  BY <1>1, <1>8, <1>18 DEF TLVSound, Contents
<1> QED
  BY <1>13, <1>14, <1>15, <1>16, <1>17, <1>19, <1>20, <1>21, <1>22 DEF TLVSound

\* One vector is copied.
LEMMA GrowOneKeeps ==
  ASSUME TLVSound, NEW t \in Threads, NEW u \in Threads, GrowOneVector(t, u)
  PROVE  TLVSound'
<1>1. /\ tpc[t] = "grow" /\ u \in Listed /\ Len(tlvVector[u]) < Len(defaults)
      /\ grown' = [grown EXCEPT ![u] = Grow(tlvVector[u], Len(defaults))]
      /\ UNCHANGED <<tpc, tlvVector, defaults, offset, counter, listLock, head, next, stored>>
  BY DEF GrowOneVector
<1>2. TLVType
  BY DEF TLVSound
<1>3. Grow(tlvVector[u], Len(defaults)) \in Seq(TLVValues)
  <2>1. tlvVector[u] \in Seq(TLVValues) /\ Len(defaults) \in Nat
    BY <1>2 DEF TLVType
  <2> QED
    BY <2>1, Grown
<1>4. Listed' = Listed /\ Known' = Known /\ Writers' = Writers
  BY <1>1, SameList DEF Known, Writers
<1>5. TLVType'
  BY <1>1, <1>2, <1>3 DEF TLVType
<1>6. OneHolder' /\ Allocated' /\ DefaultsKnown' /\ Uncut'
  BY <1>1 DEF TLVSound, OneHolder, Allocated, DefaultsKnown, Uncut, Holds, Holder
<1>7. WritersCounted'
  BY <1>1, <1>4 DEF TLVSound, WritersCounted, Holder
<1>8. ListComplete' /\ LongEnough' /\ Contents'
  BY <1>1, <1>4 DEF TLVSound, ListComplete, LongEnough, Contents, Started, Holder
<1>9. Copies'
  <2>1. grown'[u] = Grow(tlvVector[u], Len(defaults)) /\ \A w \in Threads : w # u => grown'[w] = grown[w]
    BY <1>1, <1>2 DEF TLVType
  <2>2. Holder("grow") /\ (Holder("grow")' <=> Holder("grow"))
    BY <1>1 DEF Holder
  <2>3. ASSUME NEW w \in Threads, grown'[w] # None
        PROVE  /\ w \in Listed /\ Len(tlvVector[w]) < Len(defaults)
               /\ grown'[w] = Grow(tlvVector[w], Len(defaults))
    BY <1>1, <2>1, <2>3 DEF TLVSound, Copies
  <2> QED
    BY <1>1, <1>4, <2>2, <2>3 DEF Copies
<1> QED
  BY <1>5, <1>6, <1>7, <1>8, <1>9 DEF TLVSound

\* A copy takes the place of its thread's vector and holds the same variables.
LEMMA PublishKeeps ==
  ASSUME TLVSound, NEW t \in Threads, NEW u \in Threads, PublishVector(t, u)
  PROVE  TLVSound'
<1>1. /\ tpc[t] = "grow" /\ grown[u] # None
      /\ tlvVector' = [tlvVector EXCEPT ![u] = grown[u]] /\ grown' = [grown EXCEPT ![u] = None]
      /\ UNCHANGED <<tpc, defaults, offset, counter, listLock, head, next, stored>>
  BY DEF PublishVector
<1>2. TLVType
  BY DEF TLVSound
<1>3. Len(tlvVector[u]) < Len(defaults) /\ grown[u] = Grow(tlvVector[u], Len(defaults)) /\ Holder("grow")
  BY <1>1 DEF TLVSound, Copies
<1>4. tlvVector[u] \in Seq(TLVValues) /\ Len(tlvVector[u]) \in Nat /\ Len(defaults) \in Nat /\ offset \in Nat
  BY <1>2 DEF TLVType
<1>5. /\ tlvVector'[u] = grown[u] /\ Len(grown[u]) = Len(defaults)
      /\ \A i \in 1 .. Len(defaults) : i <= Len(tlvVector[u]) => grown[u][i] = tlvVector[u][i]
  <2>1. tlvVector'[u] = grown[u]
    BY <1>1, <1>2 DEF TLVType
  <2>2. PICK old : old = tlvVector[u]
    OBVIOUS
  <2>3. PICK new : new = Grow(old, Len(defaults))
    OBVIOUS
  <2>4. Len(new) = Len(defaults) /\ \A i \in 1 .. Len(defaults) : i <= Len(old) => new[i] = old[i]
    BY <1>4, <2>2, <2>3, Grown
  <2> QED
    BY <1>3, <2>1, <2>2, <2>3, <2>4
<1>6. \A w \in Threads : w # u => tlvVector'[w] = tlvVector[w] /\ grown'[w] = grown[w]
  BY <1>1, <1>2 DEF TLVType
<1>7. Listed' = Listed /\ Known' = Known /\ Writers' = Writers
  BY <1>1, SameList DEF Known, Writers
<1>8. TLVType'
  <2>1. None \in Seq(TLVValues)
    BY DEF None
  <2> QED
    BY <1>1, <1>2, <2>1 DEF TLVType
<1>9. OneHolder' /\ Allocated' /\ DefaultsKnown' /\ Uncut'
  BY <1>1 DEF TLVSound, OneHolder, Allocated, DefaultsKnown, Uncut, Holds, Holder
<1>10. WritersCounted'
  BY <1>1, <1>7 DEF TLVSound, WritersCounted, Holder
<1>11. ListComplete'
  BY <1>1, <1>7 DEF TLVSound, ListComplete, Started
<1>12. Holder("grow")'
  BY <1>1 DEF Holder
<1>13. LongEnough'
  <2>1. offset <= Len(defaults) + 1
    BY <1>4 DEF TLVSound, Allocated
  <2>2. ASSUME NEW w \in Threads, Started(w)
        PROVE  Len(tlvVector'[w]) <= Len(defaults) /\ offset <= Len(tlvVector'[w]) + 1
    BY <1>4, <1>5, <1>6, <2>1, <2>2 DEF TLVSound, LongEnough
  <2> QED
    BY <1>1, <1>12, <2>2 DEF LongEnough, Started
<1>14. Copies'
  <2>1. grown'[u] = None
    BY <1>1, <1>2 DEF TLVType
  <2> QED
    BY <1>1, <1>6, <1>7, <1>12, <2>1 DEF TLVSound, Copies
<1>15. Contents'
  <2>1. ASSUME NEW v \in Known, Started(u)
        PROVE  tlvVector'[u][v] = tlvVector[u][v]
    <3>1. listLock # NoThread
      BY <1>1, NativeThreadsAssumption, Alone DEF Holds
    <3>2. v \in 1 .. offset - 1
      BY <2>1, <3>1, KnownVariables
    <3>3. offset <= Len(tlvVector[u]) + 1
      BY <2>1 DEF TLVSound, LongEnough
    <3>4. v \in 1 .. Len(defaults) /\ v <= Len(tlvVector[u])
      BY <1>3, <1>4, <3>2, <3>3
    <3> QED
      BY <1>5, <3>4
  <2>2. \A w \in Threads : Started(w)' <=> Started(w)
    BY <1>1 DEF Started
  <2> QED
    BY <1>1, <1>6, <1>7, <2>1, <2>2 DEF TLVSound, Contents
<1> QED
  BY <1>8, <1>9, <1>10, <1>11, <1>13, <1>14, <1>15 DEF TLVSound

\* The writers are admitted again when every vector has grown and none is refused.
LEMMA AdmitKeeps ==
  ASSUME TLVSound, NEW t \in Threads, AdmitWriters(t)
  PROVE  TLVSound'
<1>1. /\ tpc[t] = "grow" /\ counter = TLV_GROW /\ counter' = 0 /\ TGoto(t, "propagate")
      /\ \A u \in Listed : Len(tlvVector[u]) = Len(defaults)
      /\ UNCHANGED <<tlvVector, grown, defaults, offset, listLock, head, next, stored>>
  BY DEF AdmitWriters
<1>2. TLVType /\ "propagate" \in TLVPlaces /\ WritersCounted
  BY DEF TLVSound, TLVPlaces
<1>3. /\ tpc' \in [Threads -> TLVPlaces] /\ tpc'[t] = "propagate"
      /\ \A u \in Threads : u # t => tpc'[u] = tpc[u]
  BY <1>1, <1>2, TLVMove
<1>4. Cardinality(Writers)' = Cardinality(Writers)
  BY <1>1, <1>2, WritersMove DEF Raised
<1>5. listLock = t /\ \A u \in Threads : u # t => ~Holds(u)
  BY <1>1, Alone DEF Holds
<1>6. Holder("grow") /\ ~Holder("exclude") /\ ~Holder("grow")' /\ ~Holder("exclude")'
  BY <1>1, <1>3, <1>5 DEF Holder, Holds
<1>7. \A u \in Threads : /\ Started(u)' <=> Started(u)
                         /\ Holds(u)' <=> Holds(u)
                         /\ tpc'[u] = "unborn" => tpc[u] = "unborn"
  BY <1>1, <1>3 DEF Started, Holds
<1>8. Cardinality(Writers) = 0
  BY <1>1, <1>2, <1>6, RefusedWriters DEF WritersCounted
<1>9. Listed' = Listed /\ Known' = Known
  BY <1>1, SameList DEF Known
<1>10. TLVType'
  BY <1>1, <1>2, <1>3 DEF TLVType
<1>11. OneHolder' /\ Uncut'
  <2>1. ~Holder("behead")' /\ ~Holder("cut")'
    BY <1>3 DEF Holder, TLVSound, Uncut
  <2> QED
    BY <1>1, <1>7, <2>1 DEF TLVSound, OneHolder, Uncut
<1>12. WritersCounted'
  BY <1>1, <1>4, <1>6, <1>8 DEF WritersCounted
<1>13. ListComplete'
  BY <1>1, <1>7, <1>9 DEF TLVSound, ListComplete
<1>14. Allocated' /\ DefaultsKnown'
  BY <1>1, <1>6 DEF TLVSound, Allocated, DefaultsKnown
<1>15. LongEnough'
  <2>1. ASSUME NEW u \in Threads, Started(u) PROVE Len(tlvVector[u]) = Len(defaults)
    BY <1>1, <2>1 DEF TLVSound, ListComplete
  <2> QED
    BY <1>1, <1>7, <2>1 DEF TLVSound, LongEnough
<1>16. Copies'
  <2>1. Len(defaults) \in Nat
    BY <1>2 DEF TLVType
  <2>2. \A u \in Threads : grown[u] = None
    BY <1>1, <2>1 DEF TLVSound, Copies
  <2> QED
    BY <1>1, <2>2 DEF Copies
<1>17. Contents'
  BY <1>1, <1>7, <1>9 DEF TLVSound, Contents
<1> QED
  BY <1>10, <1>11, <1>12, <1>13, <1>14, <1>15, <1>16, <1>17 DEF TLVSound

\* The new variable gets its default in every vector of the list, and the lock is released.
LEMMA PropagateKeeps ==
  ASSUME TLVSound, NEW t \in Threads, Propagate(t)
  PROVE  TLVSound'
<1>1. /\ tpc[t] = "propagate" /\ listLock' = NoThread /\ TGoto(t, "dylan")
      /\ defaults' = [defaults EXCEPT ![offset] = "default"]
      /\ tlvVector' = [u \in Threads |-> IF u \in Listed /\ offset <= Len(tlvVector[u])
                                         THEN [tlvVector[u] EXCEPT ![offset] = "default"]
                                         ELSE tlvVector[u]]
      /\ UNCHANGED <<grown, offset, counter, head, next, stored>>
  BY DEF Propagate
<1>2. TLVType /\ "dylan" \in TLVPlaces /\ WritersCounted
  BY DEF TLVSound, TLVPlaces
<1>3. /\ tpc' \in [Threads -> TLVPlaces] /\ tpc'[t] = "dylan"
      /\ \A u \in Threads : u # t => tpc'[u] = tpc[u]
  BY <1>1, <1>2, TLVMove
<1>4. Cardinality(Writers)' = Cardinality(Writers)
  BY <1>1, <1>2, WritersMove DEF Raised
<1>5. listLock = t /\ listLock # NoThread /\ \A u \in Threads : u # t => ~Holds(u)
  BY <1>1, Alone, NativeThreadsAssumption DEF Holds
<1>6. ~Holder("grow") /\ ~Holder("exclude") /\ ~Holder("grow")' /\ ~Holder("exclude")'
  BY <1>1, <1>3, <1>5 DEF Holder, Holds
<1>7. \A u \in Threads : /\ Started(u)' <=> Started(u)
                         /\ ~Holds(u)'
                         /\ tpc'[u] = "unborn" => tpc[u] = "unborn"
  BY <1>1, <1>3, <1>5 DEF Started, Holds
<1>8. /\ defaults \in Seq(TLVValues) /\ Len(defaults) \in Nat /\ Len(defaults) > 0
      /\ offset \in Nat /\ offset > 0 /\ offset <= Len(defaults)
  BY <1>2, <1>5, <1>6 DEF TLVSound, TLVType, Allocated
<1>9. offset \in 1 .. Len(defaults)
  BY <1>8
<1>10. /\ defaults' \in Seq(TLVValues) /\ Len(defaults') = Len(defaults)
       /\ \A v \in 1 .. Len(defaults) : defaults'[v] = IF v = offset THEN "default" ELSE defaults[v]
  <2>1. "default" \in TLVValues
    BY DEF TLVValues
  <2> QED
    BY <1>1, <1>8, <1>9, <2>1
<1>11. ASSUME NEW u \in Threads
       PROVE  /\ tlvVector'[u] \in Seq(TLVValues) /\ Len(tlvVector'[u]) = Len(tlvVector[u])
              /\ \A v \in 1 .. Len(tlvVector[u]) : v # offset => tlvVector'[u][v] = tlvVector[u][v]
              /\ u \in Listed /\ offset <= Len(tlvVector[u]) => tlvVector'[u][offset] = "default"
  <2>1. "default" \in TLVValues /\ tlvVector[u] \in Seq(TLVValues) /\ Len(tlvVector[u]) \in Nat
    BY <1>2 DEF TLVType, TLVValues
  <2>2. CASE u \in Listed /\ offset <= Len(tlvVector[u])
    <3>1. tlvVector'[u] = [tlvVector[u] EXCEPT ![offset] = "default"]
      BY <1>1, <2>2
    <3>2. offset \in 1 .. Len(tlvVector[u])
      BY <1>8, <2>1, <2>2
    <3> QED
      BY <2>1, <3>1, <3>2
  <2>3. CASE ~(u \in Listed /\ offset <= Len(tlvVector[u]))
    <3>1. tlvVector'[u] = tlvVector[u]
      BY <1>1, <2>3
    <3> QED
      BY <2>1, <2>3, <3>1
  <2> QED
    BY <2>2, <2>3
<1>12. TLVType'
  <2>1. tlvVector' \in [Threads -> Seq(TLVValues)]
    <3>1. tlvVector' = [u \in Threads |-> tlvVector'[u]]
      BY <1>1
    <3> QED
      BY <1>11, <3>1
  <2> QED
    BY <1>1, <1>2, <1>3, <1>8, <1>10, <2>1 DEF TLVType
<1>13. OneHolder' /\ Uncut'
  <2>1. ~Holder("behead")' /\ ~Holder("cut")'
    BY <1>3 DEF Holder, TLVSound, Uncut
  <2> QED
    BY <1>1, <1>7, <2>1, NativeThreadsAssumption DEF OneHolder, Uncut
<1>14. WritersCounted'
  BY <1>1, <1>2, <1>4, <1>6 DEF WritersCounted
<1>15. ListComplete'
  <2>1. Listed' = Listed
    BY <1>1, SameList
  <2> QED
    BY <1>1, <1>7, <2>1 DEF TLVSound, ListComplete
<1>16. Allocated'
  BY <1>1, <1>6, <1>8, <1>10 DEF Allocated
<1>17. DefaultsKnown'
  <2>1. ASSUME NEW v \in 1 .. Len(defaults)
        PROVE  defaults'[v] = IF v < offset \/ v = offset THEN "default" ELSE "none"
    BY <1>5, <1>10, <2>1 DEF TLVSound, DefaultsKnown
  <2> QED
    BY <1>1, <1>10, <2>1 DEF DefaultsKnown
<1>18. \A u \in Threads : Started(u) => Len(tlvVector[u]) = Len(defaults) /\ u \in Listed
  BY <1>6 DEF TLVSound, LongEnough, ListComplete
<1>19. LongEnough'
  BY <1>1, <1>7, <1>8, <1>10, <1>11, <1>18 DEF LongEnough
<1>20. Copies'
  <2>1. \A u \in Threads : grown[u] = None
    BY <1>6 DEF TLVSound, Copies
  <2> QED
    BY <1>1, <2>1 DEF Copies
<1>21. Known = 1 .. offset - 1
  BY <1>5, KnownVariables
<1>22. Known' \subseteq Known \cup {offset} /\ Known \subseteq Known'
  <2>1. Known' \subseteq 1 .. offset
    BY <1>1 DEF Known
  <2>2. 1 .. offset \subseteq (1 .. offset - 1) \cup {offset}
    BY <1>8
  <2>3. ASSUME NEW v \in Known PROVE v \in Known'
    <3>1. v \in 1 .. offset /\ v <= Len(defaults) /\ defaults[v] = "default"
      BY <2>3 DEF Known
    <3>2. v \in 1 .. Len(defaults)
      BY <1>8, <3>1
    <3>3. defaults'[v] = "default"
      BY <1>10, <3>1, <3>2
    <3> QED
      BY <1>1, <1>10, <3>1, <3>3 DEF Known
  <2> QED
    BY <1>21, <2>1, <2>2, <2>3
<1>23. Contents'
  <2>1. ASSUME NEW u \in Threads PROVE stored[u] \subseteq Known /\ offset \notin stored[u]
    <3>1. stored[u] \subseteq Known
      BY DEF TLVSound, Contents
    <3>2. offset \notin 1 .. offset - 1
      BY <1>8
    <3> QED
      BY <1>21, <3>1, <3>2
  <2>2. ASSUME NEW u \in Threads, Started(u), NEW v \in Known
        PROVE  tlvVector'[u][v] = IF v \in stored[u] THEN "stored" ELSE "default"
    <3>1. v \in 1 .. Len(tlvVector[u]) /\ v # offset
      BY <1>8, <1>18, <1>21, <2>2
    <3> QED
      BY <1>11, <2>2, <3>1 DEF TLVSound, Contents
  <2>3. ASSUME NEW u \in Threads, Started(u) PROVE tlvVector'[u][offset] = "default"
    BY <1>8, <1>11, <1>18, <2>3
  <2>4. ASSUME NEW u \in Threads, Started(u), NEW v \in Known'
        PROVE  tlvVector'[u][v] = IF v \in stored[u] THEN "stored" ELSE "default"
    BY <1>22, <2>1, <2>2, <2>3, <2>4
  <2> QED
    BY <1>1, <1>7, <1>22, <2>1, <2>4 DEF Contents
<1> QED
  BY <1>12, <1>13, <1>14, <1>15, <1>16, <1>17, <1>19, <1>20, <1>23 DEF TLVSound

\* The invariant holds at the start and every step keeps it.
LEMMA TLVInvariance == Spec => []TLVInv
<1>1. Init => TLVInv
  <2> SUFFICES ASSUME InitTLV PROVE TLVSound
    BY DEF Init, TLVInv
  <2>1. /\ tpc = [t \in Threads |-> "unborn"] /\ tlvVector = [t \in Threads |-> None]
        /\ grown = [t \in Threads |-> None] /\ defaults = Blank /\ offset = 0 /\ counter = 0
        /\ listLock = NoThread /\ head = NoThread /\ next = [t \in Threads |-> NoThread]
        /\ stored = [t \in Threads |-> {}]
    BY DEF InitTLV
  <2>2. None \in Seq(TLVValues)
    BY DEF None
  <2>3. defaults \in [1 .. InitialSize -> {"none"}] /\ InitialSize \in Nat \ {0}
    BY <2>1, TLVAssumption DEF Blank
  <2>4. defaults \in Seq(TLVValues) /\ Len(defaults) = InitialSize
    BY <2>3 DEF TLVValues
  <2>5. TLVType
    BY <2>1, <2>2, <2>3, <2>4 DEF TLVType, TLVPlaces
  <2>6. \A l \in TLVPlaces \ {"unborn"} : ~Holder(l)
    BY <2>1 DEF Holder
  <2>7. /\ ~Holder("exclude") /\ ~Holder("grow") /\ ~Holder("store") /\ ~Holder("leave")
        /\ ~Holder("behead") /\ ~Holder("cut")
    BY <2>6 DEF TLVPlaces
  <2>8. \A t \in Threads : ~Holds(t) /\ ~Started(t)
    BY <2>1 DEF Holds, Started
  <2>9. Writers = {} /\ Cardinality(Writers) = 0
    BY <2>1, FS_EmptySet DEF Writers
  <2>10. OneHolder /\ WritersCounted /\ ListComplete /\ Uncut
    BY <2>1, <2>7, <2>8, <2>9, NativeThreadsAssumption
       DEF OneHolder, WritersCounted, ListComplete, Uncut
  <2>11. Allocated /\ DefaultsKnown
    <3>1. \A v \in 1 .. Len(defaults) : ~(v < 0) /\ v # 0 /\ defaults[v] = "none"
      BY <2>3, <2>4
    <3> QED
      BY <2>1, <2>3, <2>4, <2>7, <3>1 DEF Allocated, DefaultsKnown
  <2>12. LongEnough /\ Copies /\ Contents
    BY <2>1, <2>8 DEF LongEnough, Copies, Contents
  <2> QED
    BY <2>5, <2>10, <2>11, <2>12 DEF TLVSound
<1>2. TLVInv /\ [Next]_vars => TLVInv'
  <2> SUFFICES ASSUME TLVInv, [Next]_vars, ~cut' PROVE TLVSound'
    BY DEF TLVInv
  <2>1. UNCHANGED runtime /\ (NextTLV \/ UNCHANGED tlvVars)
    BY TLVFrame
  <2>2. CASE UNCHANGED tlvVars
    <3>1. TLVSound
      BY <2>2 DEF TLVInv, tlvVars
    <3>2. /\ UNCHANGED <<tpc, tlvVector, grown, defaults, offset, counter, listLock, head, next, stored>>
          /\ Listed' = Listed /\ Known' = Known /\ Writers' = Writers
      BY <2>2, SameList DEF tlvVars, Known, Writers
    <3>3. TLVType' /\ OneHolder' /\ WritersCounted' /\ ListComplete'
      BY <3>1, <3>2 DEF TLVSound, TLVType, OneHolder, WritersCounted, ListComplete, Holds, Holder, Started
    <3>4. Allocated' /\ DefaultsKnown' /\ LongEnough' /\ Copies' /\ Contents' /\ Uncut'
      BY <3>1, <3>2 DEF TLVSound, Allocated, DefaultsKnown, LongEnough, Copies, Contents, Uncut, Holder, Started
    <3> QED
      BY <3>3, <3>4 DEF TLVSound
  <2>3. CASE NextTLV
    <3>1. PICK t \in Threads, u \in Threads :
            \/ SetupTLV(t) \/ RemoveTLV(t) \/ FindElement(t) \/ CutElement(t)
            \/ AllocateVariable(t) \/ GrowOneVector(t, u) \/ PublishVector(t, u)
            \/ ExcludeWriters(t) \/ AdmitWriters(t) \/ Propagate(t)
            \/ WaitOutGrowth(t) \/ BeginWrite(t) \/ StoreVariable(t) \/ EndWrite(t)
      BY <2>3 DEF NextTLV, PosixSetupTLVVector, UnixInitializeCurrentThread, WindowsSetupTLVVector,
         UnixRemoveTLVVector, WindowsRemoveTLVVector, PosixRemoveTLVVector,
         PosixAllocateThreadVariable, UnixAllocateThreadVariable, WindowsAllocateThreadVariable,
         PosixGrowTLVVector, UnixGrowTLVVector, WindowsGrowTLVVector,
         PosixGrowAll, UnixGrowAll, WindowsGrowAll,
         PosixUpdateTLVVectors, UnixUpdateTLVVectors, WindowsUpdateTLVVectors,
         PosixWriteBlocked, UnixWriteInternal, WindowsWriteInternal,
         PosixWriteThreadVariable, UnixWriteThreadVariable, WindowsWriteThreadVariable
    <3>2. ~cut
      BY <3>1 DEF SetupTLV, RemoveTLV, FindElement, CutElement, AllocateVariable, GrowOneVector,
         PublishVector, ExcludeWriters, AdmitWriters, Propagate, WaitOutGrowth, BeginWrite,
         Raise, StoreVariable, EndWrite
    <3>3. TLVSound
      BY <3>2 DEF TLVInv
    <3>4. ~FindElement(t) /\ ~CutElement(t)
      BY <3>3 DEF FindElement, CutElement, TLVSound, Uncut, Holder
    <3>5. CASE WaitOutGrowth(t)
      <4>1. CASE tpc[t] = "raise" /\ Raise(t)
        BY <3>3, <4>1, RaiseKeeps
      <4>2. CASE /\ tpc[t] = "lower" /\ counter' = counter - 1
                 /\ TGoto(t, IF counter - 1 < 0 THEN "synchronize" ELSE "raise")
                 /\ UNCHANGED <<tlvVector, grown, defaults, offset, listLock, head, next, stored>>
        <5>1. PICK l \in {"synchronize", "raise"} : TGoto(t, l)
          BY <4>2
        <5> QED
          BY <3>3, <4>2, <5>1, LowerKeeps
      <4>3. CASE /\ tpc[t] = "synchronize" /\ TGoto(t, "raise") /\ counter' = counter
                 /\ UNCHANGED <<tlvVector, grown, defaults, offset, listLock, head, next, stored>>
        BY <3>3, <4>3, SynchronizeKeeps
      <4> QED
        BY <3>5, <4>1, <4>2, <4>3 DEF WaitOutGrowth
    <3>6. CASE BeginWrite(t)
      BY <3>3, <3>6, RaiseKeeps DEF BeginWrite
    <3>7. CASE EndWrite(t)
      BY <3>3, <3>7, LowerKeeps DEF EndWrite
    <3> QED
      BY <3>1, <3>3, <3>4, <3>5, <3>6, <3>7, SetupKeeps, RemoveKeeps, AllocateKeeps, GrowOneKeeps,
         PublishKeeps, ExcludeKeeps, AdmitKeeps, PropagateKeeps, StoreKeeps
  <2> QED
    BY <2>1, <2>2, <2>3
<1> QED
  BY <1>1, <1>2, PTL DEF Spec

(* primitive_read_thread_variable returns what the thread stored last, or  *)
(* the default, whatever number of threads start, end, define variables    *)
(* and store in them, however often the vectors grow: the counter keeps    *)
(* the writers out while they are copied.                                  *)
THEOREM ThreadsReadWhatTheyStored == Spec => []ThreadReadsWhatItStored
<1>1. TLVInv => ThreadReadsWhatItStored
  <2> SUFFICES ASSUME TLVSound, NEW t \in Threads, Started(t), NEW v \in Known
               PROVE  /\ v \in DOMAIN tlvVector[t]
                      /\ tlvVector[t][v] = IF v \in stored[t] THEN "stored" ELSE "default"
    BY DEF TLVInv, ThreadReadsWhatItStored, ReadThreadVariable, Started
  <2>1. tlvVector[t] \in Seq(TLVValues) /\ Len(tlvVector[t]) \in Nat /\ offset \in Nat
    BY DEF TLVSound, TLVType
  <2>2. offset <= Len(tlvVector[t]) + 1 /\ (~Holder("grow") => Len(tlvVector[t]) = Len(defaults))
    BY DEF TLVSound, LongEnough
  <2>3. v \in 1 .. Len(tlvVector[t])
    <3>1. CASE Holder("grow")
      <4>1. listLock # NoThread
        BY <3>1, Alone
      <4>2. v \in 1 .. offset - 1
        BY <4>1, KnownVariables
      <4> QED
        BY <2>1, <2>2, <4>2
    <3>2. CASE ~Holder("grow")
      BY <2>2, <3>2, KnownVariables
    <3> QED
      BY <3>1, <3>2
  <2>4. tlvVector[t][v] = IF v \in stored[t] THEN "stored" ELSE "default"
    BY DEF TLVSound, Contents
  <2> QED
    BY <2>1, <2>3, <2>4
<1> QED
  BY <1>1, TLVInvariance, PTL
=============================================================================
