---------------------------- MODULE SemaphoreProofs ----------------------------
(***************************************************************************)
(* The counter and the wakeups of Semaphore, for any finite set of         *)
(* threads, any clock and any timeouts.                                    *)
(*                                                                         *)
(* EnoughWakeups is inductive with the type invariant: every step that     *)
(* raises the counter with somebody asleep also wakes one, and a thread    *)
(* leaves the set of the woken only with a unit or when there is none.     *)
(* That the counter stays within the bound of the instance counts the      *)
(* releases under way.                                                     *)
(***************************************************************************)
EXTENDS Semaphore, FiniteSetTheorems, TLAPS

\* The calls of release that have still to count are within the bound.
ReleasesBounded == count + Cardinality(In("callRelease")) <= CountBound

IInv == TypeOK /\ ReleasesBounded /\ EnoughWakeups

-----------------------------------------------------------------------------
(* Counting the threads in a place.                                        *)

LEMMA InFinite ==
  ASSUME NEW p
  PROVE  /\ IsFiniteSet(In(p)) /\ Cardinality(In(p)) \in Nat
         /\ Cardinality(In(p)) = 0 <=> In(p) = {}
<1>1. In(p) \subseteq Thread
  BY DEF In
<1>2. IsFiniteSet(In(p))
  BY <1>1, ThreadAssumption, FS_Subset
<1> QED
  BY <1>2, FS_CardinalityType, FS_EmptySet

\* A thread that moves from q to p changes the number of threads there by one, and
\* nothing elsewhere.
LEMMA MoveCounts ==
  ASSUME TypeOK, NEW t \in Thread, NEW CONSTANT q, NEW CONSTANT p, q # p,
         pc[t] = q, pc' = [pc EXCEPT ![t] = p]
  PROVE  /\ \A r : r # q /\ r # p => {u \in Thread : pc'[u] = r} = In(r)
         /\ In(p)' = In(p) \cup {t} /\ Cardinality(In(p)') = Cardinality(In(p)) + 1
         /\ In(q)' = In(q) \ {t} /\ Cardinality(In(q)') = Cardinality(In(q)) - 1
<1>1. \A u \in Thread : pc'[u] = IF u = t THEN p ELSE pc[u]
  BY DEF TypeOK
<1>2. t \in In(q) /\ t \notin In(p)
  BY DEF In
<1>3. In(p)' = In(p) \cup {t}
  BY <1>1 DEF In
<1>4. In(q)' = In(q) \ {t}
  BY <1>1 DEF In
<1>5. \A r : r # q /\ r # p => {u \in Thread : pc'[u] = r} = In(r)
  BY <1>1 DEF In
<1>6. IsFiniteSet(In(p)) /\ IsFiniteSet(In(q))
  BY InFinite
<1>7. Cardinality(In(p) \cup {t}) = Cardinality(In(p)) + 1
  BY <1>2, <1>6, FS_AddElement
<1>8. Cardinality(In(q) \ {t}) = Cardinality(In(q)) - 1
  BY <1>2, <1>6, FS_RemoveElement
<1> QED
  BY <1>3, <1>4, <1>5, <1>7, <1>8

-----------------------------------------------------------------------------
(* The steps.                                                              *)

LEMMA TypeStep == TypeOK /\ ReleasesBounded /\ [Next]_vars => TypeOK'
<1> SUFFICES ASSUME TypeOK, ReleasesBounded, [Next]_vars PROVE TypeOK'
  OBVIOUS
<1>1. count \in Nat /\ CountBound \in Nat /\ count <= CountBound
  BY CounterAssumption DEF TypeOK
<1>2. CASE UNCHANGED vars
  BY <1>2 DEF TypeOK, vars
<1>3. ASSUME NEW t \in Thread, CallRelease(t) \/ CallWait(t) \/ SpuriousWakeup(t) \/ TimedOut(t)
      PROVE  TypeOK'
  <2>1. /\ pc' \in [Thread -> {"program", "callRelease", "callWait", "asleep", "awake"}]
        /\ wait' \in [Thread -> {"none", "forever", "timed", "invalid"}]
        /\ UNCHANGED <<count, mutex>>
    BY <1>3 DEF TypeOK, CallRelease, CallWait, SpuriousWakeup, TimedOut, Return
  <2> QED
    BY <2>1 DEF TypeOK
<1>4. ASSUME NEW t \in Thread, Release(t)
      PROVE  TypeOK'
  <2>1. In("callRelease") # {} /\ Cardinality(In("callRelease")) \in Nat \ {0}
    BY <1>4, InFinite DEF Release, In, At
  <2>2. count' \in 0 .. CountBound
    BY <1>1, <1>4, <2>1 DEF ReleasesBounded, Release
  <2> QED
    BY <1>4, <2>2 DEF TypeOK, Release, In
<1>5. ASSUME NEW t \in Thread, Wait(t)
      PROVE  TypeOK'
  BY <1>1, <1>5 DEF TypeOK, Wait, Return
<1> QED
  BY <1>2, <1>3, <1>4, <1>5 DEF Next, Step

\* Only a call of release adds to the releases under way.
LEMMA BoundStep == TypeOK /\ ReleasesBounded /\ [Next]_vars => ReleasesBounded'
<1> SUFFICES ASSUME TypeOK, ReleasesBounded, [Next]_vars PROVE ReleasesBounded'
  OBVIOUS
<1>1. /\ count \in Nat /\ count' \in Nat /\ CountBound \in Nat
      /\ Cardinality(In("callRelease")) \in Nat
  BY CounterAssumption, TypeStep, InFinite DEF TypeOK
<1>2. CASE count' <= count /\ In("callRelease")' = In("callRelease")
  BY <1>1, <1>2 DEF ReleasesBounded
<1>3. CASE UNCHANGED vars
  <2>1. count' = count /\ In("callRelease")' = In("callRelease")
    BY <1>3 DEF vars, In
  <2> QED
    BY <1>1, <1>2, <2>1
<1>4. ASSUME NEW t \in Thread, CallRelease(t)
      PROVE  ReleasesBounded'
  <2>1. Cardinality(In("callRelease")') = Cardinality(In("callRelease")) + 1
    BY <1>4, MoveCounts DEF CallRelease, At
  <2> QED
    BY <1>1, <1>4, <2>1 DEF ReleasesBounded, CallRelease
<1>5. ASSUME NEW t \in Thread, CallWait(t) \/ SpuriousWakeup(t) \/ TimedOut(t) \/ Wait(t)
      PROVE  ReleasesBounded'
  <2>1. count' <= count
    BY <1>1, <1>5 DEF CallWait, SpuriousWakeup, TimedOut, Wait
  <2>2. PICK p \in {"program", "callWait", "asleep", "awake"} : pc' = [pc EXCEPT ![t] = p]
    BY <1>5 DEF CallWait, SpuriousWakeup, TimedOut, Wait, Return
  <2>3. pc[t] # "callRelease"
    BY <1>5 DEF CallWait, SpuriousWakeup, TimedOut, Wait, At
  <2>4. In("callRelease")' = In("callRelease")
    BY <2>2, <2>3 DEF TypeOK, In
  <2> QED
    BY <1>2, <2>1, <2>4
<1>6. ASSUME NEW t \in Thread, Release(t)
      PROVE  ReleasesBounded'
  <2>1. In("callRelease")' = In("callRelease") \ {t} /\ t \in In("callRelease")
    BY <1>6 DEF TypeOK, Release, In, At
  <2>2. Cardinality(In("callRelease") \ {t}) = Cardinality(In("callRelease")) - 1
    BY <2>1, InFinite, FS_RemoveElement
  <2> QED
    BY <1>1, <1>6, <2>1, <2>2 DEF ReleasesBounded, Release
<1> QED
  BY <1>3, <1>4, <1>5, <1>6 DEF Next, Step

LEMMA WakeupStep == TypeOK /\ EnoughWakeups /\ [Next]_vars => EnoughWakeups'
<1> SUFFICES ASSUME TypeOK, EnoughWakeups, [Next]_vars, In("asleep")' # {}
             PROVE  Cardinality(In("awake")') >= count'
  BY DEF EnoughWakeups
<1>1. /\ count \in Nat /\ Cardinality(In("awake")) \in Nat
  BY CounterAssumption, InFinite DEF TypeOK
<1>2. CASE UNCHANGED vars
  <2>1. count' = count /\ In("awake")' = In("awake") /\ In("asleep")' = In("asleep")
    BY <1>2 DEF vars, In
  <2> QED
    BY <2>1 DEF EnoughWakeups
<1>3. ASSUME NEW t \in Thread, CallRelease(t) \/ CallWait(t) \/ TimedOut(t)
      PROVE  Cardinality(In("awake")') >= count'
  <2>1. count' = count /\ In("awake")' = In("awake") /\ In("asleep")' \subseteq In("asleep")
    BY <1>3 DEF CallRelease, CallWait, TimedOut, Return, TypeOK, In, At
  <2> QED
    BY <2>1 DEF EnoughWakeups
<1>4. ASSUME NEW t \in Thread, SpuriousWakeup(t)
      PROVE  Cardinality(In("awake")') >= count'
  <2>1. Cardinality(In("awake")') = Cardinality(In("awake")) + 1 /\ count' = count
    BY <1>4, MoveCounts DEF SpuriousWakeup, At
  <2>2. In("asleep") # {}
    BY <1>4 DEF SpuriousWakeup, In, At
  <2> QED
    BY <1>1, <2>1, <2>2 DEF EnoughWakeups
\* The one that is woken makes up for the unit that is added.
<1>5. ASSUME NEW t \in Thread, Release(t)
      PROVE  Cardinality(In("awake")') >= count'
  <2>1. In("asleep") # {}
    BY <1>5 DEF Release, TypeOK, In, At
  <2>2. PICK u \in In("asleep") : pc' = [pc EXCEPT ![t] = "program", ![u] = "awake"]
    BY <1>5, <2>1 DEF Release
  <2>3. In("awake")' = In("awake") \cup {u} /\ u \notin In("awake")
    BY <1>5, <2>2 DEF Release, TypeOK, In, At
  <2>4. Cardinality(In("awake") \cup {u}) = Cardinality(In("awake")) + 1
    BY <2>3, InFinite, FS_AddElement
  <2> QED
    BY <1>1, <1>5, <2>1, <2>3, <2>4 DEF EnoughWakeups, Release
\* A woken thread leaves with a unit, or back to sleep when there is none.
<1>6. ASSUME NEW t \in Thread, Wait(t)
      PROVE  Cardinality(In("awake")') >= count'
  <2>1. CASE count > 0
    <3>1. count' = count - 1 /\ pc' = [pc EXCEPT ![t] = "program"]
      BY <1>1, <1>6, <2>1 DEF Wait, Return
    <3>2. In("asleep") # {}
      BY <3>1 DEF TypeOK, In
    <3>3. CASE pc[t] = "awake"
      <4>1. Cardinality(In("awake")') = Cardinality(In("awake")) - 1
        BY <3>1, <3>3, MoveCounts
      <4> QED
        BY <1>1, <3>1, <3>2, <4>1 DEF EnoughWakeups
    <3>4. CASE pc[t] = "callWait"
      <4>1. In("awake")' = In("awake")
        BY <3>1, <3>4 DEF TypeOK, In
      <4> QED
        BY <1>1, <3>1, <3>2, <4>1 DEF EnoughWakeups
    <3> QED
      BY <1>6, <3>3, <3>4 DEF Wait
  <2>2. CASE ~(count > 0)
    <3>1. count' = 0
      BY <1>1, <1>6, <2>2 DEF Wait
    <3>2. In("awake")' \subseteq Thread
      BY DEF In
    <3>3. Cardinality(In("awake")') \in Nat
      BY <3>2, ThreadAssumption, FS_Subset, FS_CardinalityType
    <3> QED
      BY <3>1, <3>3
  <2> QED
    BY <2>1, <2>2
<1> QED
  BY <1>2, <1>3, <1>4, <1>5, <1>6 DEF Next, Step

LEMMA InitIInv == Init => IInv
<1> SUFFICES ASSUME Init PROVE IInv
  OBVIOUS
<1>1. In("callRelease") = {} /\ In("asleep") = {}
  BY DEF Init, In
<1>2. InitialCount \in Nat /\ CountBound \in Nat /\ InitialCount <= CountBound
  BY CounterAssumption
<1> QED
  BY <1>1, <1>2, FS_EmptySet DEF Init, IInv, TypeOK, ReleasesBounded, EnoughWakeups

LEMMA NextIInv == IInv /\ [Next]_vars => IInv'
  BY TypeStep, BoundStep, WakeupStep DEF IInv

\* The type invariant: the counter is never negative, though every waiter tests it
\* and takes from it after a wakeup that others may have overtaken.
THEOREM TypeCorrect == Spec => []TypeOK
<1>1. IInv => TypeOK
  BY DEF IInv
<1> QED
  BY <1>1, InitIInv, NextIInv, PTL DEF Spec

\* One signal for each release is enough: the units that sleepers could take never
\* outnumber the threads that have been woken.
THEOREM WakeupsAreEnough == Spec => []EnoughWakeups
<1>1. IInv => EnoughWakeups
  BY DEF IInv
<1> QED
  BY <1>1, InitIInv, NextIInv, PTL DEF Spec
================================================================================
