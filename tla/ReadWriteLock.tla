---------------------------- MODULE ReadWriteLock ----------------------------
(***************************************************************************)
(* <read-write-lock> of the Dylan library (dylan/locks.dylan): a monitored *)
(* data structure whose state is the thread that owns it for writing or    *)
(* the number of times it is claimed for reading.                          *)
(*                                                                         *)
(* The body of with-lock (inner-lock), up to its end or to the next        *)
(* wait-for (monitor), is one action.  A thread in wait-for (monitor) is   *)
(* "asleep"; "awake" is a thread that has been notified and will test the  *)
(* state again once it has the inner lock.                                 *)
(***************************************************************************)
EXTENDS Integers, FiniteSets

CONSTANTS Thread,
          MaxClaims   \* bound on the read claims one thread holds at a time

ASSUME RWAssumption == Thread \cap Int = {} /\ MaxClaims \in Nat \ {0}

VARIABLES state,   \* rw-lock-state
          pc,      \* where each thread stands
          mode,    \* mode[t]: the mode of t's wait-for
          timed,   \* timed[t]: whether that wait-for has a timeout
          claims   \* history: the claims granted and not released, as pairs
                   \*   <<thread, number>>; the number of a write claim is 0

vars == <<state, pc, mode, timed, claims>>

Claim == Thread \X (0 .. MaxClaims)

Init == /\ state = 0
        /\ pc = [t \in Thread |-> "program"]
        /\ mode = [t \in Thread |-> "read"]
        /\ timed = [t \in Thread |-> FALSE]
        /\ claims = {}

-----------------------------------------------------------------------------
\* locked-for-writing?, locked-for-reading?
LockedForWriting(t) == state = t
LockedForReading == state \in Nat /\ state > 0

\* lock-is-free? and lock-is-free-for-reading?, the tests of the two loops.
FreeFor(t) == IF mode[t] = "write" THEN state = 0 ELSE state \in Nat

\* The end of wait-for: the lock is claimed in the mode asked for.
Enter(t) ==
  /\ IF mode[t] = "write"
     THEN state' = t /\ claims' = claims \cup {<<t, 0>>}
     ELSE /\ state' = state + 1
          /\ \E n \in 1 .. MaxClaims : /\ <<t, n>> \notin claims
                                       /\ claims' = claims \cup {<<t, n>>}
  /\ pc' = [pc EXCEPT ![t] = "program"]
  /\ UNCHANGED <<mode, timed>>

Sleep(t) == /\ pc' = [pc EXCEPT ![t] = "asleep"]
            /\ UNCHANGED <<state, mode, timed, claims>>

\* The bound on nested read claims.
CanClaim(t) == \E n \in 1 .. MaxClaims : <<t, n>> \notin claims

\* wait-for is called: the mode and the timeout are the program's choice.
CallWaitFor(t) == /\ pc[t] = "program"
                  /\ pc' = [pc EXCEPT ![t] = "awake"]
                  /\ \E m \in {"read", "write"} : /\ mode' = [mode EXCEPT ![t] = m]
                                                  /\ m = "read" => CanClaim(t)
                  /\ \E b \in BOOLEAN : timed' = [timed EXCEPT ![t] = b]
                  /\ UNCHANGED <<state, claims>>

\* One turn of the until loop, with the inner lock held.
WaitFor(t) == /\ pc[t] = "awake"
              /\ \/ FreeFor(t) /\ Enter(t)
                 \/ ~FreeFor(t) /\ Sleep(t)

\* The timeout passes; wait-for (monitor) will return #f, whatever happens to
\* the lock until the inner lock is taken back ...
TimedOut(t) == /\ pc[t] = "asleep" /\ timed[t]
               /\ pc' = [pc EXCEPT ![t] = "expired"]
               /\ UNCHANGED <<state, mode, timed, claims>>

\* ... and then wait-for exits with #f.
GiveUp(t) == /\ pc[t] = "expired"
             /\ pc' = [pc EXCEPT ![t] = "program"]
             /\ UNCHANGED <<state, mode, timed, claims>>

SpuriousWakeup(t) == /\ pc[t] = "asleep"
                     /\ pc' = [pc EXCEPT ![t] = "awake"]
                     /\ UNCHANGED <<state, mode, timed, claims>>

\* release-all (monitor), which wakes every thread in wait-for (monitor).
ReleaseAll_one == IF \E t \in Thread : pc[t] = "asleep"
                  THEN \E t \in Thread : /\ pc[t] = "asleep"
                                         /\ pc' = [pc EXCEPT ![t] = "awake"]
                  ELSE UNCHANGED pc
ReleaseAll == pc' = [t \in Thread |-> IF pc[t] = "asleep" THEN "awake" ELSE pc[t]]

\* release by the writer.
ReleaseWrite_any(t) == /\ pc[t] = "program"
                       /\ state \in Thread
                       /\ state' = 0
                       /\ claims' = claims \ {<<t, 0>>}
                       /\ ReleaseAll
                       /\ UNCHANGED <<mode, timed>>
ReleaseWrite(t) == /\ pc[t] = "program"
                   /\ LockedForWriting(t)
                   /\ state' = 0
                   /\ claims' = claims \ {<<t, 0>>}
                   /\ ReleaseAll
                   /\ UNCHANGED <<mode, timed>>

\* release in read mode gives up one read claim; the code does not ask whose.
ReleaseRead_twice(t, c) == /\ pc[t] = "program"
                           /\ LockedForReading
                           /\ claims' = claims \ {c}
                           /\ state' = state - 2
                           /\ IF state' = 0 THEN ReleaseAll ELSE UNCHANGED pc
                           /\ UNCHANGED <<mode, timed>>
ReleaseRead(t, c) == /\ pc[t] = "program"
                     /\ LockedForReading
                     /\ claims' = claims \ {c}
                     /\ state' = state - 1
                     /\ IF state' = 0 THEN ReleaseAll ELSE UNCHANGED pc
                     /\ UNCHANGED <<mode, timed>>

Next == \E t \in Thread : \/ CallWaitFor(t) \/ WaitFor(t)
                          \/ TimedOut(t) \/ GiveUp(t) \/ SpuriousWakeup(t)
                          \/ ReleaseWrite(t)
                          \/ \E c \in claims : ReleaseRead(t, c)

Spec == Init /\ [][Next]_vars

-----------------------------------------------------------------------------
\* Type correctness of the lock state and of the threads.
TypeOK == /\ state \in Nat \cup Thread
          /\ pc \in [Thread -> {"program", "awake", "asleep", "expired"}]
          /\ mode \in [Thread -> {"read", "write"}]
          /\ timed \in [Thread -> BOOLEAN]
          /\ claims \subseteq Claim

\* The lock state counts exactly the claims its users have been granted and have
\* not released, all of them to read, or names the one thread that has been
\* granted the lock to write and has not released it itself: readers and the
\* writer exclude each other, and a write claim lasts until its own thread gives
\* it up, although release looks only at the state and a thread may release a
\* read claim it does not have.
ReadersExcludeWriter == \/ /\ state = Cardinality(claims)
                           /\ \A c \in claims : c[2] # 0
                        \/ state \in Thread /\ claims = {<<state, 0>>}

\* No lost wakeup: a thread asleep in wait-for could not enter if it woke up now,
\* although release-all is called only when the lock becomes free.
NoLostWakeup == \A t \in Thread : pc[t] = "asleep" => ~FreeFor(t)
=============================================================================
