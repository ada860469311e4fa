---------------------------- MODULE RWLockMonitor ----------------------------
(***************************************************************************)
(* <read-write-lock> running on the LLVM runtime: the methods of           *)
(* dylan/locks.dylan, statement by statement, over the simple lock and the *)
(* notification of Monitor.  A step of a thread is a step of the Dylan     *)
(* code, which may call one primitive, or a step inside a primitive.       *)
(***************************************************************************)
EXTENDS Integers, FiniteSets

CONSTANTS Thread, NoThread, MaxClaims,
          Timed   \* {"wait"} if the program passes timeouts, {} if it does not

ASSUME RWMonitorAssumption == /\ NoThread \notin Thread /\ Thread \cap Int = {}
                              /\ MaxClaims \in Nat \ {0} /\ Timed \subseteq {"wait"}

VARIABLES locked, owner, nmutex, pc, call, owed,  \* the monitor
          state,                                  \* rw-lock-state
          at,                                     \* where each thread is in the methods
          mode, timed,                            \* the arguments of its wait-for
          claims                                  \* history: the claims granted and not released

monitorVars == <<locked, owner, nmutex, pc, call, owed>>
methodVars == <<state, at, mode, timed, claims>>
vars == <<locked, owner, nmutex, pc, call, owed, state, at, mode, timed, claims>>

M == INSTANCE Monitor

Init == /\ M!Init
        /\ state = 0
        /\ at = [t \in Thread |-> "program"]
        /\ mode = [t \in Thread |-> "read"]
        /\ timed = [t \in Thread |-> FALSE]
        /\ claims = {}

GoTo(t, p) == at' = [at EXCEPT ![t] = p]

\* The primitive t called has returned, and t has the inner lock.
Returned(t, p) == at[t] = p /\ pc[t] = "program"

-----------------------------------------------------------------------------
(* wait-for.                                                               *)

CallWaitFor(t) ==
  /\ at[t] = "program"
  /\ GoTo(t, "entering")
  /\ \E m \in {"read", "write"} :
        /\ mode' = [mode EXCEPT ![t] = m]
        /\ m = "read" => \E n \in 1 .. MaxClaims : <<t, n>> \notin claims
  /\ \E b \in (IF Timed = {} THEN {FALSE} ELSE BOOLEAN) : timed' = [timed EXCEPT ![t] = b]
  /\ M!WaitForLock(t)
  /\ UNCHANGED <<state, claims>>

FreeFor_any(t) == state \in Nat
FreeFor(t) == IF mode[t] = "write" THEN state = 0 ELSE state \in Nat

\* The loop ends, the lock is claimed and the end of with-lock releases the
\* inner lock.
Enter(t) == /\ FreeFor(t)
            /\ IF mode[t] = "write"
               THEN state' = t /\ claims' = claims \cup {<<t, 0>>}
               ELSE /\ state' = state + 1
                    /\ \E n \in 1 .. MaxClaims : /\ <<t, n>> \notin claims
                                                 /\ claims' = claims \cup {<<t, n>>}
            /\ GoTo(t, "program")
            /\ M!ReleaseLock(t)
            /\ UNCHANGED <<mode, timed>>

\* wait-for (monitor, timeout: timeout).
Await(t) == /\ ~FreeFor(t)
            /\ GoTo(t, "waiting")
            /\ M!CallWait(t)
            /\ call'[t] = IF timed[t] THEN "waitTimed" ELSE "wait"
            /\ UNCHANGED <<state, mode, timed, claims>>

Test(t) == /\ Returned(t, "entering") \/ (Returned(t, "waiting") /\ call[t] # "TIMEOUT")
           /\ Enter(t) \/ Await(t)

Exit(t) == /\ Returned(t, "waiting") /\ call[t] = "TIMEOUT"
           /\ GoTo(t, "program")
           /\ M!ReleaseLock(t)
           /\ UNCHANGED <<state, mode, timed, claims>>

-----------------------------------------------------------------------------
(* release.                                                                *)

CallRelease(t) == /\ at[t] = "program"
                  /\ GoTo(t, "releasing")
                  /\ M!WaitForLock(t)
                  /\ UNCHANGED <<state, mode, timed, claims>>

\* Neither locked by t for writing nor locked for reading: an error.
Refused(t) == /\ Returned(t, "releasing") /\ state # t
              /\ state \in Nat => state = 0
              /\ GoTo(t, "program")
              /\ M!ReleaseLock(t)
              /\ UNCHANGED <<state, mode, timed, claims>>

\* The lock becomes free: the state is reset and release-all is called with
\* the inner lock held.
Free(t) == /\ Returned(t, "releasing")
           /\ \/ state = t /\ GoTo(t, "freeing")
              \/ state = 1 /\ GoTo(t, "freeingRead")
           /\ state' = 0
           /\ M!CallRelease(t) /\ pc'[t] = "callReleaseAll"
           /\ UNCHANGED <<mode, timed, claims>>

\* Other readers remain: only the count changes.
Decrement(t) == /\ Returned(t, "releasing") /\ state \in Nat /\ state > 1
                /\ state' = state - 1
                /\ \E c \in claims : claims' = claims \ {c}
                /\ GoTo(t, "program")
                /\ M!ReleaseLock(t)
                /\ UNCHANGED <<mode, timed>>

\* release-all itself; the claim of the writer or the last read claim ends with it.
Notify(t) == /\ at[t] \in {"freeing", "freeingRead"}
             /\ M!ReleaseAll(t)
             /\ claims' = IF at[t] = "freeing" THEN claims \ {<<t, 0>>} ELSE {}
             /\ UNCHANGED <<state, at, mode, timed>>

Freed(t) == /\ Returned(t, "freeing") \/ Returned(t, "freeingRead")
            /\ GoTo(t, "program")
            /\ M!ReleaseLock(t)
            /\ UNCHANGED <<state, mode, timed, claims>>

-----------------------------------------------------------------------------
\* A step inside a primitive, release-all excepted.
Primitive(t) == /\ M!Step(t) /\ pc[t] # "callReleaseAll"
                /\ UNCHANGED methodVars

Step(t) == Primitive(t) \/ Test(t) \/ Exit(t) \/ Refused(t) \/ Free(t) \/ Decrement(t) \/ Notify(t) \/ Freed(t)

Environment(t) == /\ M!SpuriousWakeup(t) \/ M!Expire(t)
                  /\ UNCHANGED methodVars

Next == \E t \in Thread : CallWaitFor(t) \/ CallRelease(t) \/ Step(t) \/ Environment(t)

Spec == Init /\ [][Next]_vars

-----------------------------------------------------------------------------
\* The monitor's own invariants survive its use by the read-write lock, and the
\* inner lock is held wherever the methods read or write the state.
MonitorUsedCorrectly ==
  /\ M!TypeOK
  /\ M!NoMissedNotification
  /\ M!RelockNeverRefused
  /\ \A t \in Thread : (Returned(t, at[t]) /\ at[t] # "program") => locked /\ owner = t

\* The release of t has yet to take effect.
Freeing(t, p) == at[t] = p /\ pc[t] = "callReleaseAll"

\* The release-all inside a release of a read-write lock, made with the inner lock
\* held, is held up only by a thread that is giving up the monitor to sleep, which
\* needs nothing more, or by one that has timed out in its wait.
NotifyBlockedByTimeoutOnly ==
  \A t \in Thread : (pc[t] = "callReleaseAll" /\ nmutex # NoThread) =>
    \/ pc[nmutex] = "released"
    \/ timed[nmutex] /\ pc[nmutex] \in {"relock", "asleep", "awake"}

\* The thread t has run out of time inside wait-for (monitor).
Expired(t) == \/ pc[t] = "expired"
              \/ nmutex = t /\ pc[t] \in {"relock", "asleep", "awake", "unlocking"}
              \/ pc[t] = "program" /\ call[t] = "TIMEOUT"

\* Of the read-write lock as its users see it, where every stretch under the
\* inner lock is one step: a release takes effect when release-all does, and
\* until then the lock belongs to the thread that releases it.
AbstractState == IF \E t \in Thread : Freeing(t, "freeing") THEN owner
                 ELSE IF \E t \in Thread : Freeing(t, "freeingRead") THEN 1 ELSE state

AbstractPlace(t) ==
  CASE at[t] = "entering" -> "awake"
    [] at[t] = "waiting" /\ Expired(t) -> "expired"
    [] at[t] = "waiting" /\ ~Expired(t) ->
         IF pc[t] \in {"callWait", "releasing", "released", "waiting"} THEN "asleep" ELSE "awake"
    [] OTHER -> "program"
AbstractPc == [t \in Thread |-> AbstractPlace(t)]

Abstract == INSTANCE ReadWriteLock WITH state <- AbstractState, pc <- AbstractPc

\* The methods, over the runtime's monitor, implement ReadWriteLock.
ImplementsReadWriteLock == Abstract!Spec
=============================================================================
