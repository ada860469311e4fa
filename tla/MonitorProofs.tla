---------------------------- MODULE MonitorProofs ----------------------------
(***************************************************************************)
(* Monitor is correct for any set of threads, whichever primitives are     *)
(* called with a timeout.                                                  *)
(*                                                                         *)
(* The argument is about places: which thread holds the notification's     *)
(* mutex, which one owns the lock and which primitive a thread is in are   *)
(* each tied to where the thread stands (Tied), and a thread that a        *)
(* release-all has addressed is on its way back to the lock without the    *)
(* mutex (OwedReturn).                                                     *)
(***************************************************************************)
EXTENDS Monitor, TLAPS

InWait == {"released", "waiting", "notified", "expired", "relock"}

\* Inside the wait loop of the simple lock, or about to enter it to take the lock back.
Relocking == {"relock", "asleep", "awake"}

\* The primitive that thread t is in, and what it holds there.
Tied(t) ==
  /\ pc[t] \in {"program", "callRelease", "callReleaseAll"} => call[t] \in Result
  /\ pc[t] \in {"asleep", "awake"} => call[t] \in {"lock", "lockTimed", "wait", "waitTimed"}
  /\ pc[t] \in InWait \cup {"callWait", "releasing", "unlocking"} =>
       call[t] \in {"wait", "waitTimed"}
  /\ pc[t] \in {"expired", "unlocking"} => call[t] = "waitTimed"
  /\ nmutex = t /\ pc[t] \in Relocking => call[t] = "waitTimed"
  /\ pc[t] = "unlocking" => locked /\ owner = t
  /\ pc[t] \in InWait => ~(locked /\ owner = t)
  /\ pc[t] \in {"asleep", "awake"} /\ call[t] # "lockTimed" => ~(locked /\ owner = t)

OwedReturn == \A t \in owed : /\ pc[t] \in {"notified", "relock", "asleep", "awake"}
                              /\ call[t] \in {"wait", "waitTimed"}
                              /\ nmutex # t

IInv == TypeOK /\ (\A t \in Thread : Tied(t)) /\ OwedReturn /\ NoLostSignal

\* A free lock is taken: by a new caller, or at the end of a wait.
LEMMA ClaimKeeps ==
  ASSUME IInv, NEW t \in Thread, Claim(t), ~locked, UNCHANGED nmutex,
         pc[t] \in {"program", "relock", "awake"}
  PROVE  IInv'
<1> USE MonitorAssumption
<1>1. TypeOK'
  BY DEF IInv, TypeOK, Place, Call, Result, Claim, Goto, Results
<1>2. ASSUME NEW u \in Thread PROVE Tied(u)'
  BY DEF IInv, TypeOK, Tied, InWait, Relocking, Result, Call, Claim, Goto, Results
<1>3. OwedReturn'
  BY DEF IInv, TypeOK, Tied, OwedReturn, Claim, Goto, Results
<1>4. NoLostSignal'
  BY DEF IInv, TypeOK, NoLostSignal, In, Claim, Goto, Results
<1> QED
  BY <1>1, <1>2, <1>3, <1>4 DEF IInv

\* A thread goes to sleep on the lock, having found it locked.
LEMMA SleepKeeps ==
  ASSUME IInv, NEW t \in Thread, pc[t] \in {"program", "relock", "awake"}, NEW how \in {"lock", "lockTimed", "wait", "waitTimed"},
         locked, owner # t \/ how = "lockTimed", pc[t] # "program" => how = call[t],
         pc[t] = "program" => how \in {"lock", "lockTimed"}, Goto(t, "asleep"),
         call' = [call EXCEPT ![t] = how], UNCHANGED <<locked, owner, owed, nmutex>>
  PROVE  IInv'
<1> USE MonitorAssumption
<1>1. TypeOK'
  BY DEF IInv, TypeOK, Place, Call, Result, Goto
<1>2. ASSUME NEW u \in Thread PROVE Tied(u)'
  BY DEF IInv, TypeOK, Tied, InWait, Relocking, Result, Call, Goto
<1>3. OwedReturn'
  BY DEF IInv, TypeOK, Tied, OwedReturn, Goto
<1>4. NoLostSignal'
  BY DEF IInv, TypeOK, NoLostSignal, In, Goto
<1> QED
  BY <1>1, <1>2, <1>3, <1>4 DEF IInv

\* The lock is released to a sleeper, if there is one, or the caller does not own it.
LEMMA ReleaseKeeps ==
  ASSUME IInv, NEW t \in Thread, ReleaseLock(t)
  PROVE  IInv'
<1> USE MonitorAssumption
<1>1. TypeOK'
  BY ZenonT(90) DEF IInv, TypeOK, Place, Call, Result, ReleaseLock, ReleaseOwned, SignalOne, In, At, Results, Goto
<1>2. ASSUME NEW u \in Thread PROVE Tied(u)'
  BY DEF IInv, TypeOK, Tied, InWait, Relocking, Result, Call, ReleaseLock, ReleaseOwned, SignalOne, In, At, Results, Goto
<1>3. OwedReturn'
  BY DEF IInv, TypeOK, Tied, OwedReturn, ReleaseLock, ReleaseOwned, SignalOne, In, At, Results, Goto
<1>4. NoLostSignal'
  BY DEF IInv, TypeOK, NoLostSignal, In, ReleaseLock, ReleaseOwned, SignalOne, In, At, Results, Goto
<1> QED
  BY <1>1, <1>2, <1>3, <1>4 DEF IInv

\* The same at the head of a wait, with the notification's mutex held.
LEMMA ReleaseForWaitKeeps ==
  ASSUME IInv, NEW t \in Thread, ReleaseForWait(t)
  PROVE  IInv'
<1> USE MonitorAssumption
<1>1. TypeOK'
  BY ZenonT(90) DEF IInv, TypeOK, Place, Call, Result, ReleaseForWait, ReleaseOwned, SignalOne, In, At, Results, Goto
<1>2. ASSUME NEW u \in Thread PROVE Tied(u)'
  BY DEF IInv, TypeOK, Tied, InWait, Relocking, Result, Call, ReleaseForWait, ReleaseOwned, SignalOne, In, At, Results, Goto
<1>3. OwedReturn'
  BY DEF IInv, TypeOK, Tied, OwedReturn, ReleaseForWait, ReleaseOwned, SignalOne, In, At, Results, Goto
<1>4. NoLostSignal'
  BY DEF IInv, TypeOK, NoLostSignal, In, ReleaseForWait, ReleaseOwned, SignalOne, In, At, Results, Goto
<1> QED
  BY <1>1, <1>2, <1>3, <1>4 DEF IInv

\* The mutex of the notification is taken and given up around a wait.
LEMMA MutexKeeps ==
  ASSUME IInv, NEW t \in Thread, LockMutex(t) \/ Sleep(t) \/ UnlockMutex(t)
  PROVE  IInv'
<1> USE MonitorAssumption
<1>1. TypeOK'
  BY DEF IInv, TypeOK, Place, Call, Result, LockMutex, Sleep, UnlockMutex, At, Goto, Results
<1>2. ASSUME NEW u \in Thread PROVE Tied(u)'
  BY DEF IInv, TypeOK, Tied, InWait, Relocking, Result, Call, LockMutex, Sleep, UnlockMutex, At, Goto, Results
<1>3. OwedReturn'
  BY DEF IInv, TypeOK, Tied, OwedReturn, LockMutex, Sleep, UnlockMutex, At, Goto, Results
<1>4. NoLostSignal'
  BY DEF IInv, TypeOK, NoLostSignal, In, LockMutex, Sleep, UnlockMutex, At, Goto, Results
<1> QED
  BY <1>1, <1>2, <1>3, <1>4 DEF IInv

\* A wait for the notification ends: notified, or at its deadline.
LEMMA ReturnKeeps ==
  ASSUME IInv, NEW t \in Thread, NotifiedReturn(t) \/ ExpiredReturn(t) \/ Expire(t)
  PROVE  IInv'
<1> USE MonitorAssumption
<1>1. TypeOK'
  BY DEF IInv, TypeOK, Place, Call, Result, NotifiedReturn, ExpiredReturn, Expire, At, Goto
<1>2. ASSUME NEW u \in Thread PROVE Tied(u)'
  BY DEF IInv, TypeOK, Tied, InWait, Relocking, Result, Call, NotifiedReturn, ExpiredReturn, Expire, At, Goto
<1>3. OwedReturn'
  BY DEF IInv, TypeOK, Tied, OwedReturn, NotifiedReturn, ExpiredReturn, Expire, At, Goto
<1>4. NoLostSignal'
  BY DEF IInv, TypeOK, NoLostSignal, In, NotifiedReturn, ExpiredReturn, Expire, At, Goto
<1> QED
  BY <1>1, <1>2, <1>3, <1>4 DEF IInv

\* The program calls a primitive, or is refused the lock it owns.
LEMMA CallKeeps ==
  ASSUME IInv, NEW t \in Thread, CallWait(t) \/ CallRelease(t) \/ WaitForOwnLock(t)
  PROVE  IInv'
<1> USE MonitorAssumption
<1>1. TypeOK'
  BY DEF IInv, TypeOK, Place, Call, Result, CallWait, CallRelease, WaitForOwnLock, At, Goto, Results
<1>2. ASSUME NEW u \in Thread PROVE Tied(u)'
  BY DEF IInv, TypeOK, Tied, InWait, Relocking, Result, Call, CallWait, CallRelease, WaitForOwnLock, At, Goto, Results
<1>3. OwedReturn'
  BY DEF IInv, TypeOK, Tied, OwedReturn, CallWait, CallRelease, WaitForOwnLock, At, Goto, Results
<1>4. NoLostSignal'
  BY DEF IInv, TypeOK, NoLostSignal, In, CallWait, CallRelease, WaitForOwnLock, At, Goto, Results
<1> QED
  BY <1>1, <1>2, <1>3, <1>4 DEF IInv

\* A thread wakes up by itself, or gives up waiting for the lock.
LEMMA WakeupKeeps ==
  ASSUME IInv, NEW t \in Thread, SpuriousWakeup(t) \/ LockTimeout(t)
  PROVE  IInv'
<1> USE MonitorAssumption
<1>1. TypeOK'
  <2>1. CASE SpuriousWakeup(t)
    BY <2>1 DEF IInv, TypeOK, Place, SpuriousWakeup, At, Goto
  <2>2. CASE LockTimeout(t)
    <3>1. nmutex # t
      BY <2>2 DEF IInv, TypeOK, Tied, Relocking, LockTimeout, At
    <3> QED
      BY <2>2, <3>1 DEF IInv, TypeOK, Place, Call, Result, LockTimeout, At, Goto, Results
  <2> QED
    BY <2>1, <2>2
<1>2. ASSUME NEW u \in Thread PROVE Tied(u)'
  BY DEF IInv, TypeOK, Tied, InWait, Relocking, Result, Call, SpuriousWakeup, LockTimeout, At, Goto, Results
<1>3. OwedReturn'
  BY DEF IInv, TypeOK, Tied, OwedReturn, SpuriousWakeup, LockTimeout, At, Goto, Results
<1>4. NoLostSignal'
  BY DEF IInv, TypeOK, NoLostSignal, In, SpuriousWakeup, LockTimeout, At, Goto, Results
<1> QED
  BY <1>1, <1>2, <1>3, <1>4 DEF IInv

\* One waiter is notified.
LEMMA NotifyOneKeeps ==
  ASSUME IInv, NEW t \in Thread, Release(t)
  PROVE  IInv'
<1> USE MonitorAssumption
<1>1. TypeOK'
  BY DEF IInv, TypeOK, Place, Call, Result, Release, SignalOne, In, At, Goto, Results
<1>2. ASSUME NEW u \in Thread PROVE Tied(u)'
  BY DEF IInv, TypeOK, Tied, InWait, Relocking, Result, Call, Release, SignalOne, In, At, Goto, Results
<1>3. OwedReturn'
  BY DEF IInv, TypeOK, Tied, OwedReturn, Release, SignalOne, In, At, Goto, Results
<1>4. NoLostSignal'
  BY DEF IInv, TypeOK, NoLostSignal, In, Release, SignalOne, In, At, Goto, Results
<1> QED
  BY <1>1, <1>2, <1>3, <1>4 DEF IInv

\* Every waiter is notified; none is between its release and its sleep, for the
\* mutex is free.
LEMMA NotifyAllKeeps ==
  ASSUME IInv, NEW t \in Thread, ReleaseAll(t)
  PROVE  IInv'
<1> USE MonitorAssumption
<1>1. TypeOK'
  BY DEF IInv, TypeOK, Place, Call, Result, ReleaseAll, In, At, Results
<1>2. ASSUME NEW u \in Thread PROVE Tied(u)'
  BY DEF IInv, TypeOK, Tied, InWait, Relocking, Result, Call, ReleaseAll, In, At, Results
<1>3. OwedReturn'
  <2>1. In("released") = {}
    BY DEF IInv, TypeOK, In, ReleaseAll
  <2>2. \A u \in In("waiting") : u # t /\ pc'[u] = "notified" /\ call'[u] \in {"wait", "waitTimed"}
    BY DEF IInv, TypeOK, Tied, InWait, In, ReleaseAll, At, Results
  <2>3. \A u \in owed : u # t /\ u \in Thread /\ pc'[u] = pc[u] /\ call'[u] = call[u]
    BY DEF IInv, TypeOK, OwedReturn, ReleaseAll, At, Results
  <2>4. nmutex' = NoThread /\ owed' = owed \cup In("waiting")
    BY <2>1 DEF ReleaseAll
  <2> QED
    BY <2>2, <2>3, <2>4 DEF IInv, OwedReturn, In
<1>4. NoLostSignal'
  BY DEF IInv, TypeOK, NoLostSignal, In, ReleaseAll, In, At, Results
<1> QED
  BY <1>1, <1>2, <1>3, <1>4 DEF IInv

LEMMA InitIInv == Init => IInv
  BY MonitorAssumption DEF Init, IInv, TypeOK, Place, Call, Result, Tied, InWait, Relocking,
                           OwedReturn, NoLostSignal, In

LEMMA NextIInv == IInv /\ [Next]_vars => IInv'
<1> SUFFICES ASSUME IInv, [Next]_vars PROVE IInv'
  OBVIOUS
<1>1. CASE UNCHANGED vars
  BY <1>1 DEF vars, IInv, TypeOK, Tied, OwedReturn, NoLostSignal, In
<1>2. ASSUME NEW t \in Thread, NEW how \in {"lock", "lockTimed", "wait", "waitTimed"},
             pc[t] \in {"program", "relock", "awake"}, LockLoop(t, how),
             pc[t] # "program" => how = call[t], pc[t] = "program" => how \in {"lock", "lockTimed"}
      PROVE  IInv'
  BY <1>2, ClaimKeeps, SleepKeeps DEF LockLoop
<1>3. ASSUME NEW t \in Thread, WaitForLock(t)
      PROVE  IInv'
  BY <1>2, <1>3 DEF WaitForLock, At
<1>4. ASSUME NEW t \in Thread, Retry(t) \/ Relock(t)
      PROVE  IInv'
  <2>1. call[t] \in {"lock", "lockTimed", "wait", "waitTimed"}
    BY <1>4 DEF IInv, Tied, InWait, Retry, Relock, At
  <2> QED
    BY <1>2, <1>4, <2>1 DEF Retry, Relock, At
<1>5. ASSUME NEW t \in Thread, Step(t)
      PROVE  IInv'
  BY <1>4, <1>5, MutexKeeps, ReleaseForWaitKeeps, ReturnKeeps, NotifyOneKeeps, NotifyAllKeeps
     DEF Step
<1> QED
  BY <1>1, <1>3, <1>5, ReleaseKeeps, CallKeeps, WakeupKeeps, ReturnKeeps DEF Next

LEMMA AlwaysIInv == Spec => []IInv
  BY InitIInv, NextIInv, PTL DEF Spec

\* The type invariant: the notification's mutex is held exactly in the places where
\* the primitives hold it.
THEOREM TypeCorrect == Spec => []TypeOK
<1>1. IInv => TypeOK
  BY DEF IInv
<1> QED
  BY <1>1, AlwaysIInv, PTL

\* release-all reaches every thread that has given up the lock in a wait-for: none of
\* those it addressed is asleep on the notification afterwards.
THEOREM NoNotificationIsMissed == Spec => []NoMissedNotification
<1>1. IInv => NoMissedNotification
  BY DEF IInv, OwedReturn, NoMissedNotification, At
<1> QED
  BY <1>1, AlwaysIInv, PTL

\* A free lock is never left with sleepers only.
THEOREM NoSignalIsLost == Spec => []NoLostSignal
<1>1. IInv => NoLostSignal
  BY DEF IInv
<1> QED
  BY <1>1, AlwaysIInv, PTL

\* The only thread that can hold the notification's mutex while it waits for the lock,
\* and so hold up a release by the owner of the lock, is in a timed wait that expired.
THEOREM OnlyTimeoutsBlockRelease == Spec => []ReleaseBlockedByTimeoutOnly
<1>1. IInv => ReleaseBlockedByTimeoutOnly
  BY MonitorAssumption DEF IInv, TypeOK, Tied, Relocking, ReleaseBlockedByTimeoutOnly
<1> QED
  BY <1>1, AlwaysIInv, PTL

\* The primitive_wait_for_simple_lock that ends a wait never answers ALREADY_LOCKED,
\* which its caller would ignore.
THEOREM RelockIsNeverRefused == Spec => []RelockNeverRefused
<1>1. IInv => RelockNeverRefused
  BY DEF IInv, Tied, InWait, RelockNeverRefused
<1> QED
  BY <1>1, AlwaysIInv, PTL

\* wait-for gives its caller the lock back, however it ends.
THEOREM WaitReturnsTheLock == Spec => WaitReturnsOwning
<1> DEFINE Returns == \A t \in Thread :
             (call[t] \in {"wait", "waitTimed"} /\ call'[t] \in {"OK", "TIMEOUT"})
               => locked' /\ owner' = t
<1>1. IInv /\ [Next]_vars => [Returns]_vars
  <2> SUFFICES ASSUME IInv, Next, NEW t \in Thread,
                      call[t] \in {"wait", "waitTimed"}, call'[t] \in {"OK", "TIMEOUT"}
               PROVE  locked' /\ owner' = t
    BY Zenon
  <2>1. pc[t] \notin {"program", "callRelease", "callReleaseAll"}
    BY DEF IInv, Tied, Result
  <2>2. PICK u \in Thread :
          \/ Step(u)
          \/ WaitForLock(u) \/ WaitForOwnLock(u) \/ ReleaseLock(u) \/ CallWait(u) \/ CallRelease(u)
          \/ SpuriousWakeup(u) \/ LockTimeout(u) \/ Expire(u)
    BY DEF Next
  <2>3. u = t /\ (Step(t) \/ LockTimeout(t))
    BY <2>1, <2>2 DEF IInv, TypeOK, Step, Retry, LockMutex, ReleaseForWait, Sleep, NotifiedReturn,
          ExpiredReturn, Relock, UnlockMutex, Release, ReleaseAll, LockLoop, Claim, Results, Goto,
          At, WaitForLock, WaitForOwnLock, ReleaseLock, CallWait, CallRelease, SpuriousWakeup,
          LockTimeout, Expire
  <2>4. ~LockTimeout(t)
    BY DEF LockTimeout
  <2>5. CASE UnlockMutex(t)
    BY <2>5 DEF IInv, Tied, UnlockMutex, At
  <2>6. CASE Retry(t) \/ Relock(t)
    BY <2>6 DEF IInv, TypeOK, Retry, Relock, LockLoop, Claim
  <2>7. CASE ReleaseForWait(t)
    BY <2>7 DEF IInv, TypeOK, ReleaseForWait, Results
  <2> QED
    BY <2>1, <2>3, <2>4, <2>5, <2>6, <2>7
       DEF Step, LockMutex, Sleep, NotifiedReturn, ExpiredReturn, Release, ReleaseAll, At
<1> QED
  BY <1>1, AlwaysIInv, PTL DEF Spec, WaitReturnsOwning

\* Nobody takes the lock from its owner, and the step that frees it is the owner's own
\* release or the head of the owner's own wait.
THEOREM OwnershipIsRespected == Spec => OwnershipRespected
<1> DEFINE Kept == locked => /\ owner' = owner
                             /\ ~locked' => ReleaseLock(owner) \/ ReleaseForWait(owner)
<1>1. IInv /\ [Next]_vars => [Kept]_vars
  <2> SUFFICES ASSUME IInv, Next, locked PROVE Kept
    BY Zenon
  <2>1. PICK t \in Thread :
          \/ Step(t)
          \/ WaitForLock(t) \/ WaitForOwnLock(t) \/ ReleaseLock(t) \/ CallWait(t) \/ CallRelease(t)
          \/ SpuriousWakeup(t) \/ LockTimeout(t) \/ Expire(t)
    BY DEF Next
  <2>2. CASE ReleaseLock(t) \/ ReleaseForWait(t)
    <3>1. owner' = owner /\ (~locked' => owner = t)
      BY <2>2 DEF ReleaseLock, ReleaseForWait, ReleaseOwned
    <3> QED
      BY <2>2, <3>1
  <2>3. CASE WaitForLock(t) \/ Retry(t) \/ Relock(t)
    BY <2>3 DEF WaitForLock, Retry, Relock, LockLoop
  <2> QED
    BY <2>1, <2>2, <2>3 DEF Step, LockMutex, Sleep, NotifiedReturn, ExpiredReturn, UnlockMutex,
       Release, ReleaseAll, WaitForOwnLock, CallWait, CallRelease, SpuriousWakeup, LockTimeout, Expire
<1> QED
  BY <1>1, AlwaysIInv, PTL DEF Spec, OwnershipRespected

=============================================================================
