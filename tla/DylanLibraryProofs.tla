------------------------- MODULE DylanLibraryProofs -------------------------
(***************************************************************************)
(* Two parts of the Dylan library, one after the other: finalization.dylan *)
(* (Finalization) and the read-write locks of locks.dylan (ReadWriteLock). *)
(***************************************************************************)
EXTENDS Finalization, ReadWriteLock, FiniteSetTheorems, TLAPS

(***************************************************************************)
(* Finalization starts one draining thread at a time and finalizes an      *)
(* object once, for any clients, draining threads and objects.             *)
(*                                                                         *)
(* The two cardinalities of the properties are stated element by element   *)
(* in the inductive invariant.  The flag is right because the lock is held *)
(* from the test of the flag to the start of the thread: while a client is *)
(* making one there is none, and no draining thread can be on its way out. *)
(***************************************************************************)

\* There is at most one draining thread, and the flag says whether there is one.
OneThread == /\ \A d, e \in Drainer : doing[d] # "absent" /\ doing[e] # "absent" => d = e
             /\ active <=> \E d \in Drainer : doing[d] # "absent"
             /\ \A c \in Client : doing[c] = "making" => ~active
             /\ AutoHasThread

\* Draining threads and clients keep to their own places.
PlacesInv == /\ \A d \in Drainer : doing[d] \in {"absent", "checking", "draining"}
             /\ \A c \in Client : doing[c] \in {"program", "making", "draining"}

\* An object is in the hands of one thread while it is taken, and else of none.
OneHolder == /\ \A x, y \in Actor : finalizing[x] = finalizing[y] /\ finalizing[x] # None => x = y
             /\ \A o \in Object : obj[o] = "taken" <=> \E x \in Actor : finalizing[x] = o

IInv == TypeFinalization /\ PlacesInv /\ OneThread /\ OneHolder

\* An object goes on the queue, or into the hands of a thread and out of them.
LEMMA ObjectKeeps ==
  ASSUME IInv, NEW o \in Object, NEW x \in Actor,
         Unreachable(o) \/ TakeFirst(x, o) \/ Finalized(x)
  PROVE  IInv'
<1> USE FinalizationAssumption DEF IInv, TypeFinalization, Actor, Unreachable, TakeFirst, Finalized
<1>1. TypeFinalization'
  OBVIOUS
<1>2. PlacesInv'
  BY DEF PlacesInv
<1>3. OneThread'
  BY DEF PlacesInv, OneThread, AutoHasThread
<1>4. OneHolder'
  BY DEF OneHolder
<1> QED
  BY <1>1, <1>2, <1>3, <1>4

\* A client sets the switch, starts to make a thread, or starts to drain.
LEMMA ClientKeeps ==
  ASSUME IInv, NEW c \in Client, NEW new \in BOOLEAN,
         Set(c, new) \/ StartThread(c) \/ Drain(c)
  PROVE  IInv'
<1> USE FinalizationAssumption DEF IInv, TypeFinalization, Actor, Set, StartThread, Drain
<1>1. TypeFinalization'
  OBVIOUS
<1>2. PlacesInv'
  BY DEF PlacesInv
<1>3. OneThread'
  BY DEF PlacesInv, OneThread, AutoHasThread
<1>4. OneHolder'
  BY DEF OneHolder
<1> QED
  BY <1>1, <1>2, <1>3, <1>4

\* A finalizer, or the creation of the thread, fails under a client.
LEMMA AbortedKeeps ==
  ASSUME IInv, NEW c \in Client, Aborted(c)
  PROVE  IInv'
<1> USE FinalizationAssumption DEF IInv, TypeFinalization, Actor, Aborted
<1>1. TypeFinalization'
  OBVIOUS
<1>2. PlacesInv'
  BY DEF PlacesInv
<1>3. OneThread'
  BY DEF PlacesInv, OneThread, AutoHasThread
<1>4. OneHolder'
  BY DEF OneHolder
<1> QED
  BY <1>1, <1>2, <1>3, <1>4

\* The first draining thread: the lock has kept the flag false since the test.
LEMMA ThreadMadeKeeps ==
  ASSUME IInv, NEW c \in Client, NEW d \in Drainer, ThreadMade(c, d)
  PROVE  IInv'
<1> USE FinalizationAssumption DEF IInv, TypeFinalization, Actor, ThreadMade
<1>1. TypeFinalization'
  OBVIOUS
<1>2. PlacesInv'
  BY DEF PlacesInv
<1>3. OneThread'
  BY DEF PlacesInv, OneThread, AutoHasThread
<1>4. OneHolder'
  BY DEF OneHolder
<1> QED
  BY <1>1, <1>2, <1>3, <1>4

\* The end of a drain.
LEMMA QueueEmptyKeeps ==
  ASSUME IInv, NEW x \in Actor, QueueEmpty(x)
  PROVE  IInv'
<1> USE FinalizationAssumption DEF IInv, TypeFinalization, Actor, QueueEmpty
<1>1. TypeFinalization'
  OBVIOUS
<1>2. PlacesInv'
  BY DEF PlacesInv
<1>3. OneThread'
  BY DEF PlacesInv, OneThread, AutoHasThread
<1>4. OneHolder'
  BY DEF OneHolder
<1> QED
  BY <1>1, <1>2, <1>3, <1>4

\* The draining thread goes on, or takes the flag down and exits in one section.
LEMMA ContinueKeeps ==
  ASSUME IInv, NEW d \in Drainer, Continue(d)
  PROVE  IInv'
<1> USE FinalizationAssumption DEF IInv, TypeFinalization, Actor, Continue
<1>1. TypeFinalization'
  OBVIOUS
<1>2. PlacesInv'
  BY DEF PlacesInv
<1>3. OneThread'
  BY DEF PlacesInv, OneThread, AutoHasThread
<1>4. OneHolder'
  BY DEF OneHolder
<1> QED
  BY <1>1, <1>2, <1>3, <1>4

LEMMA InitIInv == InitFinalization => IInv
  BY FinalizationAssumption DEF InitFinalization, IInv, TypeFinalization, PlacesInv, OneThread, AutoHasThread,
                                OneHolder, Actor

LEMMA NextIInv == IInv /\ [NextFinalization]_finalizationVars => IInv'
<1> SUFFICES ASSUME IInv, [NextFinalization]_finalizationVars PROVE IInv'
  OBVIOUS
<1>1. CASE UNCHANGED finalizationVars
  BY <1>1 DEF finalizationVars, IInv, TypeFinalization, PlacesInv, OneThread, AutoHasThread, OneHolder
<1>2. ASSUME NEW o \in Object, Unreachable(o)
      PROVE  IInv'
  BY <1>2 DEF IInv, TypeFinalization, PlacesInv, OneThread, AutoHasThread, OneHolder, Unreachable
<1>3. ASSUME NEW c \in Client, \/ \E new \in BOOLEAN : Set(c, new)
                               \/ StartThread(c) \/ Aborted(c) \/ Drain(c)
      PROVE  IInv'
  BY <1>3, ClientKeeps, AbortedKeeps
<1>4. ASSUME NEW x \in Actor, Finalized(x)
      PROVE  IInv'
  <2>1. finalizing[x] \in Object
    BY <1>4 DEF IInv, TypeFinalization, Finalized
  <2> QED
    BY <1>4, <2>1, ObjectKeeps
<1>5. ASSUME NEW x \in Actor, Step(x)
      PROVE  IInv'
  BY <1>4, <1>5, ObjectKeeps, QueueEmptyKeeps, ContinueKeeps, ThreadMadeKeeps DEF Step
<1> QED
  BY <1>1, <1>2, <1>3, <1>5 DEF NextFinalization

LEMMA AlwaysIInv == SpecFinalization => []IInv
  BY InitIInv, NextIInv, PTL DEF SpecFinalization

\* The type invariant: *automatic-finalization-lock* is held exactly by the client that
\* is inside make (<thread>).
THEOREM TypeCorrect == SpecFinalization => []TypeFinalization
<1>1. IInv => TypeFinalization
  BY DEF IInv
<1> QED
  BY <1>1, AlwaysIInv, PTL

\* *draining-thread-active?* counts the draining threads: there is none or one, and the
\* setter never starts a second while the first is on its way out.
THEOREM FlagIsRight == SpecFinalization => []FlagMatchesThread
<1>1. ASSUME IInv PROVE FlagMatchesThread
  <2>1. CASE active
    <3>1. PICK d \in Drainer : doing[d] # "absent"
      BY <1>1, <2>1 DEF IInv, OneThread
    <3>2. Draining = {d}
      BY <1>1, <3>1 DEF IInv, OneThread, Draining
    <3> QED
      BY <2>1, <3>2, FS_Singleton DEF FlagMatchesThread
  <2>2. CASE ~active
    <3>1. Draining = {}
      BY <1>1, <2>2 DEF IInv, OneThread, Draining
    <3> QED
      BY <2>2, <3>1, FS_EmptySet DEF FlagMatchesThread
  <2> QED
    BY <2>1, <2>2
<1> QED
  BY <1>1, AlwaysIInv, PTL

\* While automatic finalization is on there is a thread that drains.
THEOREM AutoHasItsThread == SpecFinalization => []AutoHasThread
<1>1. IInv => AutoHasThread
  BY DEF IInv, OneThread
<1> QED
  BY <1>1, AlwaysIInv, PTL

\* An object taken off the finalization queue is in the hands of exactly one thread until
\* its finalizer returns or exits, whoever drains at the same time.
THEOREM ObjectsAreFinalizedOnce == SpecFinalization => []FinalizedOnce
<1>1. ASSUME IInv, NEW o \in Object
      PROVE  Cardinality({x \in Actor : finalizing[x] = o}) = IF obj[o] = "taken" THEN 1 ELSE 0
  <2> DEFINE H == {x \in Actor : finalizing[x] = o}
  <2>1. CASE obj[o] = "taken"
    <3>1. PICK x \in Actor : finalizing[x] = o
      BY <1>1, <2>1 DEF IInv, OneHolder
    <3>2. H = {x}
      BY <1>1, <3>1, FinalizationAssumption DEF IInv, OneHolder
    <3> QED
      BY <2>1, <3>2, FS_Singleton
  <2>2. CASE obj[o] # "taken"
    <3>1. H = {}
      BY <1>1, <2>2 DEF IInv, OneHolder
    <3> QED
      BY <2>2, <3>1, FS_EmptySet
  <2> QED
    BY <2>1, <2>2
<1>2. IInv => FinalizedOnce
  BY <1>1 DEF FinalizedOnce
<1> QED
  BY <1>2, AlwaysIInv, PTL

\* An object whose finalizer has run, or exited, is never finalized again: its state only
\* moves on, from live through queued and taken to done.
THEOREM ObjectsMoveOn ==
  SpecFinalization => [][\A o \in Object : <<obj[o], obj'[o]>> \in
               {<<"live", "queued">>, <<"queued", "taken">>, <<"taken", "done">>}
               \cup {<<s, s>> : s \in {"live", "queued", "taken", "done"}}]_finalizationVars
<1> DEFINE Moves == \A o \in Object : <<obj[o], obj'[o]>> \in
                      {<<"live", "queued">>, <<"queued", "taken">>, <<"taken", "done">>}
                      \cup {<<s, s>> : s \in {"live", "queued", "taken", "done"}}
<1>1. IInv /\ [NextFinalization]_finalizationVars => [Moves]_finalizationVars
  <2> SUFFICES ASSUME IInv, NextFinalization, NEW o \in Object
               PROVE  \/ obj'[o] = obj[o]
                      \/ <<obj[o], obj'[o]>> \in
                           {<<"live", "queued">>, <<"queued", "taken">>, <<"taken", "done">>}
    BY DEF IInv, TypeFinalization
  <2>1. ASSUME NEW c \in Actor, finalizing[c] = o
        PROVE  obj[o] = "taken"
    BY <2>1 DEF IInv, OneHolder
  <2> QED
    BY <2>1 DEF IInv, TypeFinalization, Actor, NextFinalization, Step, Unreachable, Set, StartThread, Aborted, Drain,
                Finalized, QueueEmpty, TakeFirst, Continue, ThreadMade
<1> QED
  BY <1>1, AlwaysIInv, PTL DEF SpecFinalization

(***************************************************************************)
(* ReadWriteLock is correct for any set of threads and any number of read  *)
(* claims.  The state of the lock is compared with the cardinality of the  *)
(* set of claims, so the invariant adds that this set is finite.           *)
(***************************************************************************)
USE RWAssumption

RWIInv == TypeOK /\ IsFiniteSet(claims) /\ ReadersExcludeWriter /\ NoLostWakeup

\* While the state is a number, it is the number of claims, all of them to read.
LEMMA RWStateCounts ==
  ASSUME RWIInv, state \in Nat
  PROVE  state = Cardinality(claims) /\ \A c \in claims : c[2] # 0
BY DEF RWIInv, ReadersExcludeWriter

LEMMA RWInitIInv ==
  Init => RWIInv
<1> SUFFICES ASSUME Init PROVE RWIInv
  OBVIOUS
<1>1. IsFiniteSet(claims) /\ Cardinality(claims) = 0
  BY FS_EmptySet DEF Init
<1> QED
  BY <1>1 DEF Init, RWIInv, TypeOK, ReadersExcludeWriter, NoLostWakeup

\* Entering the lock.
LEMMA RWEnterKeeps ==
  ASSUME RWIInv, NEW t \in Thread, pc[t] = "awake", FreeFor(t), Enter(t)
  PROVE  RWIInv'
<1>1. state \in Nat /\ state = Cardinality(claims) /\ \A c \in claims : c[2] # 0
  BY RWStateCounts DEF FreeFor, RWIInv, TypeOK
<1>2. pc' \in [Thread -> {"program", "awake", "asleep", "expired"}] /\ mode' = mode
  BY DEF Enter, RWIInv, TypeOK
<1>3. \A u \in Thread : pc'[u] = "asleep" => pc[u] = "asleep" /\ state # 0 /\ mode[u] = "write"
  BY <1>1 DEF Enter, RWIInv, TypeOK, NoLostWakeup, FreeFor
<1>4. CASE mode[t] = "write"
  <2>1. state = 0 /\ state' = t /\ claims' = {<<t, 0>>}
    BY <1>1, <1>4, FS_EmptySet DEF FreeFor, Enter, RWIInv
  <2>2. IsFiniteSet(claims')
    BY <2>1, FS_Singleton
  <2>3. claims' \subseteq Claim
    BY <2>1, RWAssumption DEF Claim
  <2> QED
    BY <1>2, <1>3, <2>1, <2>2, <2>3
    DEF Enter, RWIInv, TypeOK, ReadersExcludeWriter, NoLostWakeup, FreeFor
<1>5. CASE mode[t] # "write"
  <2>1. PICK n \in 1 .. MaxClaims : <<t, n>> \notin claims /\ claims' = claims \cup {<<t, n>>}
    BY <1>5 DEF Enter
  <2>2. IsFiniteSet(claims') /\ Cardinality(claims') = Cardinality(claims) + 1
    BY <2>1, FS_AddElement DEF RWIInv
  <2>3. state' = state + 1
    BY <1>5 DEF Enter
  <2>4. claims' \subseteq Claim
    BY <2>1 DEF RWIInv, TypeOK, Claim
  <2>5. TypeOK'
    BY <1>1, <1>2, <2>3, <2>4 DEF RWIInv, TypeOK, Enter
  <2>6. NoLostWakeup'
    BY <1>1, <1>2, <1>3, <2>3 DEF NoLostWakeup, FreeFor
  <2> QED
    BY <1>1, <2>1, <2>2, <2>3, <2>5, <2>6 DEF RWIInv, ReadersExcludeWriter
<1> QED
  BY <1>4, <1>5

\* A step that leaves the lock alone and puts to sleep only a thread that could
\* not enter, in the mode it waits for.
LEMMA RWMoveKeeps ==
  ASSUME RWIInv, NEW t \in Thread,
         NEW p \in {"program", "awake", "asleep", "expired"},
         pc' = [pc EXCEPT ![t] = p], UNCHANGED <<state, claims>>,
         NEW m \in {"read", "write"}, mode' = [mode EXCEPT ![t] = m],
         timed' \in [Thread -> BOOLEAN],
         p = "asleep" => m = mode[t] /\ ~FreeFor(t)
  PROVE  RWIInv'
<1>1. TypeOK'
  BY DEF RWIInv, TypeOK
<1>2. NoLostWakeup'
  <2> SUFFICES ASSUME NEW u \in Thread, pc'[u] = "asleep"
               PROVE  ~FreeFor(u)'
    BY DEF NoLostWakeup
  <2>1. CASE u = t
    BY <2>1 DEF RWIInv, TypeOK, FreeFor
  <2>2. CASE u # t
    BY <2>2 DEF RWIInv, TypeOK, NoLostWakeup, FreeFor
  <2> QED
    BY <2>1, <2>2
<1> QED
  BY <1>1, <1>2 DEF RWIInv, ReadersExcludeWriter

LEMMA RWReleaseWriteKeeps ==
  ASSUME RWIInv, NEW t \in Thread, ReleaseWrite(t)
  PROVE  RWIInv'
<1>1. state = t /\ state' = 0 /\ claims' = claims \ {<<t, 0>>}
  BY DEF ReleaseWrite, LockedForWriting
<1>2. claims = {<<t, 0>>}
  BY <1>1, FS_CardinalityType DEF RWIInv, ReadersExcludeWriter
<1>3. claims' = {} /\ IsFiniteSet(claims') /\ Cardinality(claims') = 0
  BY <1>1, <1>2, FS_EmptySet
<1> QED
  BY <1>1, <1>3
  DEF ReleaseWrite, ReleaseAll, RWIInv, TypeOK, ReadersExcludeWriter, NoLostWakeup

LEMMA RWReleaseReadKeeps ==
  ASSUME RWIInv, NEW t \in Thread, NEW c \in claims, ReleaseRead(t, c)
  PROVE  RWIInv'
<1>1. /\ state \in Nat /\ state > 0 /\ state' = state - 1 /\ state' \in Nat
      /\ claims' = claims \ {c}
  BY DEF ReleaseRead, LockedForReading
<1>2. IsFiniteSet(claims') /\ Cardinality(claims') = Cardinality(claims) - 1
  BY <1>1, FS_RemoveElement DEF RWIInv
<1>3. ReadersExcludeWriter'
  BY <1>1, <1>2, RWStateCounts DEF ReadersExcludeWriter
<1>4. /\ pc' \in [Thread -> {"program", "awake", "asleep", "expired"}] /\ mode' = mode
      /\ timed' = timed
      /\ \A u \in Thread : pc'[u] = "asleep" => pc[u] = "asleep" /\ state' # 0
  BY <1>1 DEF ReleaseRead, ReleaseAll, RWIInv, TypeOK
<1>5. TypeOK'
  BY <1>1, <1>4 DEF RWIInv, TypeOK
<1>6. NoLostWakeup'
  BY <1>1, <1>4 DEF RWIInv, TypeOK, NoLostWakeup, FreeFor
<1> QED
  BY <1>2, <1>3, <1>5, <1>6 DEF RWIInv

LEMMA RWNextIInv ==
  RWIInv /\ [Next]_vars => RWIInv'
<1> SUFFICES ASSUME RWIInv, [Next]_vars
             PROVE  RWIInv'
  OBVIOUS
<1>1. CASE UNCHANGED vars
  BY <1>1 DEF vars, RWIInv, TypeOK, ReadersExcludeWriter, NoLostWakeup, FreeFor
<1>2. ASSUME NEW t \in Thread, CallWaitFor(t)
      PROVE  RWIInv'
  <2>1. PICK m \in {"read", "write"} : mode' = [mode EXCEPT ![t] = m]
    BY <1>2 DEF CallWaitFor
  <2>2. timed' \in [Thread -> BOOLEAN]
    BY <1>2 DEF CallWaitFor, RWIInv, TypeOK
  <2>3. pc' = [pc EXCEPT ![t] = "awake"] /\ UNCHANGED <<state, claims>>
    BY <1>2 DEF CallWaitFor
  <2> QED
    BY <2>1, <2>2, <2>3, RWMoveKeeps
<1>3. ASSUME NEW t \in Thread, WaitFor(t)
      PROVE  RWIInv'
  <2>1. CASE FreeFor(t) /\ Enter(t)
    BY <1>3, <2>1, RWEnterKeeps DEF WaitFor
  <2>2. CASE ~FreeFor(t) /\ Sleep(t)
    <3>1. mode' = [mode EXCEPT ![t] = mode[t]] /\ mode[t] \in {"read", "write"}
      BY <2>2 DEF Sleep, RWIInv, TypeOK
    <3> QED
      BY <2>2, <3>1, RWMoveKeeps DEF Sleep, RWIInv, TypeOK
  <2> QED
    BY <1>3, <2>1, <2>2 DEF WaitFor
<1>4. ASSUME NEW t \in Thread, TimedOut(t) \/ GiveUp(t) \/ SpuriousWakeup(t)
      PROVE  RWIInv'
  <2>1. mode' = [mode EXCEPT ![t] = mode[t]] /\ mode[t] \in {"read", "write"}
    BY <1>4 DEF TimedOut, GiveUp, SpuriousWakeup, RWIInv, TypeOK
  <2>2. PICK p \in {"program", "awake", "expired"} : pc' = [pc EXCEPT ![t] = p]
    BY <1>4 DEF TimedOut, GiveUp, SpuriousWakeup
  <2>3. UNCHANGED <<state, claims>> /\ timed' \in [Thread -> BOOLEAN]
    BY <1>4 DEF TimedOut, GiveUp, SpuriousWakeup, RWIInv, TypeOK
  <2> QED
    BY <2>1, <2>2, <2>3, RWMoveKeeps
<1>5. ASSUME NEW t \in Thread, ReleaseWrite(t)
      PROVE  RWIInv'
  BY <1>5, RWReleaseWriteKeeps
<1>6. ASSUME NEW t \in Thread, NEW c \in claims, ReleaseRead(t, c)
      PROVE  RWIInv'
  BY <1>6, RWReleaseReadKeeps
<1> QED
  BY <1>1, <1>2, <1>3, <1>4, <1>5, <1>6 DEF Next

\* The invariants of the lock hold together.
THEOREM RWInvariance ==
  Spec => []RWIInv
  BY RWInitIInv, RWNextIInv, PTL DEF Spec

\* The lock state is a thread or a count that never becomes negative.
THEOREM RWTypeCorrect ==
  Spec => []TypeOK
  BY RWInvariance, PTL DEF RWIInv

\* Readers and writers exclude each other, for any number of threads and claims, and
\* only its own thread ends a write claim.
THEOREM RWExclusion ==
  Spec => []ReadersExcludeWriter
  BY RWInvariance, PTL DEF RWIInv

\* release-all, called only when the lock becomes free, wakes everyone it should.
THEOREM RWWakeupsNotLost ==
  Spec => []NoLostWakeup
  BY RWInvariance, PTL DEF RWIInv
=============================================================================
