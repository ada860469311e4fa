------------------------- MODULE RWLockMonitorProofs -------------------------
(***************************************************************************)
(* The methods of <read-write-lock> over the runtime's monitor implement   *)
(* ReadWriteLock, for any set of threads and any number of claims: what    *)
(* locks.dylan does under the inner lock happens as if in one step, and    *)
(* a release at the moment of its release-all.                             *)
(***************************************************************************)
EXTENDS RWLockMonitor, FiniteSetTheorems, TLAPS

Methods == {"program", "entering", "waiting", "releasing", "freeing", "freeingRead"}

MethodsType ==
  /\ locked \in BOOLEAN /\ owner \in Thread \cup {NoThread} /\ nmutex \in Thread \cup {NoThread}
  /\ pc \in [Thread -> M!Place] /\ call \in [Thread -> M!Call] /\ owed \in SUBSET Thread
  /\ state \in Nat \cup Thread /\ at \in [Thread -> Methods]
  /\ mode \in [Thread -> {"read", "write"}] /\ timed \in [Thread -> BOOLEAN]
  /\ claims \in SUBSET (Thread \X (0 .. MaxClaims)) /\ IsFiniteSet(claims)

Owns(t) == locked /\ owner = t

\* Where a thread is in the methods and where in a primitive, whether it has
\* the inner lock, and whether it has the mutex of the notification.
Relocking == {"relock", "asleep", "awake"}
Tied(t) ==
  /\ Owns(t) <=> \/ at[t] # "program" /\ pc[t] \in {"program", "callReleaseAll"}
                 \/ pc[t] \in {"callWait", "releasing", "unlocking"}
  /\ pc[t] \in {"releasing", "released", "unlocking"} => nmutex = t
  /\ nmutex = t => at[t] = "waiting" /\ pc[t] \in {"releasing", "released", "unlocking"} \cup Relocking
  /\ at[t] = "program" => pc[t] = "program"
  /\ at[t] \in {"entering", "releasing"} => pc[t] \in {"program", "asleep", "awake"}
  /\ at[t] = "waiting" => pc[t] \notin {"callRelease", "callReleaseAll"}
  /\ at[t] \in {"freeing", "freeingRead"} => pc[t] \in {"program", "callReleaseAll"}
  /\ at[t] = "waiting" /\ call[t] = "waitTimed" => timed[t]
  /\ pc[t] = "expired" \/ (nmutex = t /\ pc[t] \in Relocking) => timed[t]
  /\ t \in owed => at[t] = "waiting" /\ pc[t] \in {"notified", "unlocking"} \cup Relocking

\* A lock whose release is under way is free already, and as its users see it
\* the claims are counted or there is one writer.
Counted == /\ (\E t \in Thread : pc[t] = "callReleaseAll") => state = 0
           /\ \/ AbstractState = Cardinality(claims) /\ \A c \in claims : c[2] # 0
              \/ AbstractState \in Thread /\ claims = {<<AbstractState, 0>>}

MethodsInv == MethodsType /\ (\A t \in Thread : Tied(t)) /\ Counted

\* The step of t takes it to p and wakes at most sleepers of the inner lock.
Moves(t, p) ==
  /\ pc' \in [Thread -> M!Place] /\ pc'[t] = p
  /\ \A u \in Thread \ {t} : pc'[u] = pc[u] \/ (pc[u] = "asleep" /\ pc'[u] = "awake")

\* It leaves the rest of what belongs to the other threads alone.
Stays(t) ==
  \A u \in Thread \ {t} : /\ at'[u] = at[u] /\ call'[u] = call[u] /\ timed'[u] = timed[u]
                          /\ u \in owed' <=> u \in owed
                          /\ Owns(u)' <=> Owns(u)
                          /\ nmutex' = u <=> nmutex = u

\* A step of the read-write lock as its users see it, or none.
AbstractStep == Abstract!Next \/ UNCHANGED <<AbstractState, AbstractPc, mode, timed, claims>>

LEMMA GotoMoves ==
  ASSUME MethodsType, NEW t \in Thread, NEW p \in M!Place, M!Goto(t, p)
  PROVE  Moves(t, p)
  BY DEF MethodsType, M!Goto, Moves

\* The inner lock is released by its owner.
LEMMA Unlocking ==
  ASSUME MethodsType, NEW t \in Thread, Owns(t), NEW p \in M!Place, M!ReleaseOwned(t, p), pc[t] # "asleep"
  PROVE  Moves(t, p) /\ locked' = FALSE /\ owner' = owner
<1>1. locked' = FALSE /\ owner' = owner /\ M!SignalOne("asleep", "awake", t, p)
  BY DEF M!ReleaseOwned
<1>2. "awake" \in M!Place
  BY DEF M!Place
<1>3. CASE M!Goto(t, p)
  BY <1>1, <1>3, GotoMoves
<1>4. CASE \E u \in M!In("asleep") : pc' = [pc EXCEPT ![u] = "awake", ![t] = p]
  <2>1. PICK u \in Thread : pc[u] = "asleep" /\ pc' = [pc EXCEPT ![u] = "awake", ![t] = p]
    BY <1>4 DEF M!In
  <2>2. u # t /\ pc' \in [Thread -> M!Place] /\ pc'[t] = p
    BY <1>2, <2>1 DEF MethodsType
  <2>3. \A w \in Thread \ {t} : pc'[w] = pc[w] \/ (pc[w] = "asleep" /\ pc'[w] = "awake")
    BY <2>1 DEF MethodsType
  <2> QED
    BY <1>1, <2>2, <2>3 DEF Moves
<1> QED
  BY <1>1, <1>3, <1>4 DEF M!SignalOne

LEMMA ReleaseLockMoves ==
  ASSUME MethodsType, NEW t \in Thread, Owns(t), M!ReleaseLock(t)
  PROVE  /\ Moves(t, "program") /\ locked' = FALSE /\ owner' = owner
         /\ call' = [call EXCEPT ![t] = "OK"] /\ UNCHANGED <<nmutex, owed>>
<1>1. pc[t] = "program" /\ M!ReleaseOwned(t, "program") /\ call' = [call EXCEPT ![t] = "OK"]
  BY DEF M!ReleaseLock, M!At, M!Results, Owns
<1>2. "program" \in M!Place
  BY DEF M!Place
<1> QED
  BY <1>1, <1>2, Unlocking DEF M!ReleaseLock

\* Taking the inner lock, or going to sleep on it.
Taken(t) ==
  /\ ~locked /\ locked' = TRUE /\ owner' = t /\ nmutex' = nmutex
  /\ nmutex = t => Moves(t, "unlocking") /\ UNCHANGED <<call, owed>>
  /\ nmutex # t => Moves(t, "program") /\ call' = [call EXCEPT ![t] = "OK"] /\ owed' = owed \ {t}
NotTaken(t, how) ==
  /\ locked /\ Moves(t, "asleep") /\ call' = [call EXCEPT ![t] = how]
  /\ UNCHANGED <<locked, owner, nmutex, owed>>

LEMMA Locking ==
  ASSUME MethodsType, NEW t \in Thread, NEW how, M!LockLoop(t, how)
  PROVE  Taken(t) \/ NotTaken(t, how)
<1>1. "unlocking" \in M!Place /\ "program" \in M!Place /\ "asleep" \in M!Place
  BY DEF M!Place
<1>2. CASE ~locked /\ M!Claim(t)
  <2>1. /\ locked' = TRUE /\ owner' = t /\ nmutex' = nmutex
        /\ nmutex = t => M!Goto(t, "unlocking") /\ UNCHANGED <<call, owed>>
        /\ nmutex # t => M!Goto(t, "program") /\ call' = [call EXCEPT ![t] = "OK"] /\ owed' = owed \ {t}
    BY <1>2 DEF M!Claim, M!LockLoop, M!Results
  <2> QED
    BY <1>1, <1>2, <2>1, GotoMoves DEF Taken
<1>3. CASE /\ locked /\ M!Goto(t, "asleep") /\ call' = [call EXCEPT ![t] = how]
           /\ UNCHANGED <<locked, owner, owed>>
  BY <1>1, <1>3, GotoMoves DEF NotTaken, M!LockLoop
<1> QED
  BY <1>2, <1>3 DEF M!LockLoop

\* The threads that do not step.
LEMMA OthersTied ==
  ASSUME MethodsInv, NEW t \in Thread, NEW p, Moves(t, p), Stays(t), NEW u \in Thread \ {t}
  PROVE  Tied(u)' /\ AbstractPlace(u)' = AbstractPlace(u)
<1>1. pc'[u] = pc[u] \/ (pc[u] = "asleep" /\ pc'[u] = "awake")
  BY DEF Moves
<1>2. /\ at'[u] = at[u] /\ call'[u] = call[u] /\ timed'[u] = timed[u]
      /\ u \in owed' <=> u \in owed
      /\ Owns(u)' <=> Owns(u)
      /\ nmutex' = u <=> nmutex = u
  BY DEF Stays
<1>3. Tied(u)
  BY DEF MethodsInv
<1>4. Tied(u)'
  BY <1>1, <1>2, <1>3 DEF Tied, Relocking
<1>5. Expired(u)' <=> Expired(u)
  BY <1>1, <1>2 DEF Expired
<1>6. AbstractPlace(u)' = AbstractPlace(u)
  BY <1>1, <1>2, <1>5 DEF AbstractPlace
<1> QED
  BY <1>4, <1>6

\* Nobody is in release-all while another thread has the inner lock.
LEMMA HolderAlone ==
  ASSUME \A u \in Thread : Tied(u)
  PROVE  /\ \A t, u \in Thread : Owns(t) /\ pc[u] = "callReleaseAll" => u = t
         /\ \A u \in Thread : pc[u] = "callReleaseAll" => at[u] \in {"freeing", "freeingRead"} \/ at[u] \notin Methods
  BY DEF Tied, Owns, Methods

LEMMA NobodyFreeing ==
  ASSUME \A u \in Thread : pc[u] # "callReleaseAll"
  PROVE  AbstractState = state
  BY DEF AbstractState, Freeing

\* A step outside release-all that leaves the state alone.
LEMMA Quiet ==
  ASSUME MethodsInv, NEW t \in Thread, NEW p, Moves(t, p), Stays(t),
         p # "callReleaseAll", pc[t] # "callReleaseAll",
         UNCHANGED <<state, claims>>, locked => owner' = owner
  PROVE  AbstractState' = AbstractState /\ Counted'
<1>1. \A u \in Thread : pc'[u] = "callReleaseAll" <=> pc[u] = "callReleaseAll"
  BY DEF Moves
<1>2. \A u \in Thread : at'[u] = at[u] \/ u = t
  BY DEF Stays
<1>3. /\ (\E u \in Thread : Freeing(u, "freeing"))' <=> \E u \in Thread : Freeing(u, "freeing")
      /\ (\E u \in Thread : Freeing(u, "freeingRead"))' <=> \E u \in Thread : Freeing(u, "freeingRead")
  BY <1>1, <1>2 DEF Freeing
<1>4. ASSUME NEW u \in Thread, Freeing(u, "freeing") PROVE owner' = owner
  BY <1>4 DEF MethodsInv, Tied, Owns, Freeing
<1>5. AbstractState' = AbstractState
  BY <1>3, <1>4 DEF AbstractState
<1> QED
  BY <1>1, <1>5 DEF MethodsInv, Counted

\* What the steps below have in common: t goes to x and the rest is as it was.
LEMMA PlaceMoves ==
  ASSUME NEW t \in Thread, NEW x, AbstractPlace(t)' = x,
         \A u \in Thread \ {t} : AbstractPlace(u)' = AbstractPlace(u)
  PROVE  /\ AbstractPc' = [AbstractPc EXCEPT ![t] = x] /\ AbstractPc[t] = AbstractPlace(t)
         /\ x = AbstractPlace(t) => AbstractPc' = AbstractPc
  BY DEF AbstractPc

LEMMA QuietStep ==
  ASSUME MethodsInv, NEW t \in Thread, NEW p, Moves(t, p), Stays(t),
         p # "callReleaseAll", pc[t] # "callReleaseAll",
         UNCHANGED <<state, claims>>, locked => owner' = owner, MethodsType', Tied(t)'
  PROVE  /\ MethodsInv' /\ AbstractState' = AbstractState
         /\ AbstractPc' = [AbstractPc EXCEPT ![t] = AbstractPlace(t)'] /\ AbstractPc[t] = AbstractPlace(t)
         /\ AbstractPlace(t)' = AbstractPlace(t) => AbstractPc' = AbstractPc
<1>1. \A u \in Thread \ {t} : Tied(u)' /\ AbstractPlace(u)' = AbstractPlace(u)
  BY OthersTied
<1>2. AbstractState' = AbstractState /\ Counted'
  BY Quiet
<1>3. MethodsInv'
  BY <1>1, <1>2 DEF MethodsInv
<1>4. PICK x : x = AbstractPlace(t)'
  OBVIOUS
<1> QED
  BY <1>1, <1>2, <1>3, <1>4, PlaceMoves

\* A method is called and waits for the inner lock.
LEMMA CallKeeps ==
  ASSUME MethodsInv, NEW t \in Thread, at[t] = "program", NEW l \in {"entering", "releasing"}, GoTo(t, l),
         M!WaitForLock(t), UNCHANGED <<state, claims>>,
         mode' \in [Thread -> {"read", "write"}], timed' \in [Thread -> BOOLEAN],
         \A u \in Thread \ {t} : timed'[u] = timed[u]
  PROVE  /\ MethodsInv' /\ AbstractState' = AbstractState /\ AbstractPc[t] = "program"
         /\ AbstractPc' = [AbstractPc EXCEPT ![t] = IF l = "entering" THEN "awake" ELSE "program"]
         /\ l = "releasing" => AbstractPc' = AbstractPc
<1>1. MethodsType /\ Tied(t) /\ Counted /\ l \in Methods
  BY DEF MethodsInv, Methods
<1>2. pc[t] = "program" /\ ~Owns(t) /\ nmutex # t /\ t \notin owed
  BY <1>1 DEF Tied
<1>3. Taken(t) \/ NotTaken(t, "lock")
  BY <1>1, Locking, RWMonitorAssumption DEF M!WaitForLock
<1>4. at' \in [Thread -> Methods] /\ at'[t] = l /\ \A u \in Thread \ {t} : at'[u] = at[u]
  BY <1>1 DEF MethodsType, GoTo
<1>5. PICK p \in {"program", "asleep"} :
        /\ Moves(t, p)
        /\ p = "program" => ~locked /\ locked' = TRUE /\ owner' = t /\ owed' = owed \ {t}
        /\ p = "asleep" => locked /\ UNCHANGED <<locked, owner, owed>>
  BY <1>2, <1>3 DEF Taken, NotTaken
<1>6. nmutex' = nmutex /\ \E how \in {"OK", "lock"} : call' = [call EXCEPT ![t] = how]
  BY <1>2, <1>3 DEF Taken, NotTaken
<1>7. call' \in [Thread -> M!Call] /\ \A u \in Thread \ {t} : call'[u] = call[u]
  BY <1>1, <1>6 DEF MethodsType, M!Call, M!Result
<1>8. Stays(t)
  BY <1>4, <1>5, <1>6, <1>7 DEF Stays, Owns
<1>9. MethodsType'
  <2>1. locked' \in BOOLEAN /\ owner' \in Thread \cup {NoThread} /\ owed' \in SUBSET Thread
    BY <1>1, <1>5 DEF MethodsType
  <2> QED
    BY <1>1, <1>4, <1>5, <1>6, <1>7, <2>1 DEF MethodsType, Moves
<1>10. pc'[t] = p /\ t \notin owed' /\ nmutex' # t /\ (Owns(t)' <=> p = "program")
  BY <1>2, <1>5, <1>6 DEF Moves, Owns
<1>11. Tied(t)'
  BY <1>4, <1>10 DEF Tied, Relocking
<1>12. AbstractPlace(t) = "program" /\ AbstractPlace(t)' = IF l = "entering" THEN "awake" ELSE "program"
  BY <1>4 DEF AbstractPlace
<1>13. locked => owner' = owner
  BY <1>5
<1>14. UNCHANGED <<state, claims>> /\ pc[t] # "callReleaseAll" /\ p # "callReleaseAll"
  BY <1>2
<1> QED
  BY <1>5, <1>8, <1>9, <1>11, <1>12, <1>13, <1>14, QuietStep

LEMMA CallWaitForKeeps ==
  ASSUME MethodsInv, NEW t \in Thread, CallWaitFor(t)
  PROVE  MethodsInv' /\ AbstractStep
<1>1. PICK m \in {"read", "write"} : /\ mode' = [mode EXCEPT ![t] = m]
                                     /\ m = "read" => \E n \in 1 .. MaxClaims : <<t, n>> \notin claims
  BY DEF CallWaitFor
<1>2. PICK b \in BOOLEAN : timed' = [timed EXCEPT ![t] = b]
  BY DEF CallWaitFor
<1>3. at[t] = "program" /\ GoTo(t, "entering") /\ M!WaitForLock(t) /\ UNCHANGED <<state, claims>>
  BY DEF CallWaitFor
<1>4. /\ mode' \in [Thread -> {"read", "write"}] /\ timed' \in [Thread -> BOOLEAN]
      /\ \A u \in Thread \ {t} : timed'[u] = timed[u]
  BY <1>1, <1>2 DEF MethodsInv, MethodsType
<1>5. MethodsInv' /\ AbstractState' = AbstractState /\ AbstractPc[t] = "program"
      /\ AbstractPc' = [AbstractPc EXCEPT ![t] = "awake"]
  BY <1>3, <1>4, CallKeeps
<1>6. Abstract!CallWaitFor(t)
  BY <1>1, <1>2, <1>3, <1>5 DEF Abstract!CallWaitFor, Abstract!CanClaim
<1> QED
  BY <1>5, <1>6 DEF AbstractStep, Abstract!Next

LEMMA CallReleaseKeeps ==
  ASSUME MethodsInv, NEW t \in Thread, CallRelease(t)
  PROVE  MethodsInv' /\ AbstractStep
<1>1. /\ at[t] = "program" /\ GoTo(t, "releasing") /\ M!WaitForLock(t)
      /\ UNCHANGED <<state, mode, timed, claims>>
  BY DEF CallRelease
<1>2. mode' \in [Thread -> {"read", "write"}] /\ timed' \in [Thread -> BOOLEAN]
  BY <1>1 DEF MethodsInv, MethodsType
<1>3. MethodsInv' /\ AbstractState' = AbstractState /\ AbstractPc' = AbstractPc
  BY <1>1, <1>2, CallKeeps
<1> QED
  BY <1>1, <1>3 DEF AbstractStep

\* A method ends: the inner lock is released.
LEMMA ReturnMoves ==
  ASSUME MethodsInv, NEW t \in Thread, at[t] # "program", pc[t] = "program", GoTo(t, "program"),
         M!ReleaseLock(t), UNCHANGED <<mode, timed>>,
         state' \in Nat \cup Thread, claims' \in SUBSET (Thread \X (0 .. MaxClaims)), IsFiniteSet(claims')
  PROVE  /\ MethodsType' /\ (\A u \in Thread : Tied(u)')
         /\ Moves(t, "program") /\ Stays(t) /\ owner' = owner
         /\ AbstractState = state /\ AbstractState' = state' /\ (\A u \in Thread : pc'[u] # "callReleaseAll")
         /\ AbstractPc' = [AbstractPc EXCEPT ![t] = "program"] /\ AbstractPc[t] = AbstractPlace(t)
         /\ AbstractPlace(t) = "program" => AbstractPc' = AbstractPc
<1>1. MethodsType /\ Tied(t) /\ Owns(t)
  BY DEF MethodsInv, Tied
<1>2. /\ Moves(t, "program") /\ locked' = FALSE /\ owner' = owner
      /\ call' = [call EXCEPT ![t] = "OK"] /\ UNCHANGED <<nmutex, owed>>
  BY <1>1, ReleaseLockMoves
<1>3. at' \in [Thread -> Methods] /\ at'[t] = "program" /\ \A u \in Thread \ {t} : at'[u] = at[u]
  BY <1>1 DEF MethodsType, GoTo, Methods
<1>4. call' \in [Thread -> M!Call] /\ call'[t] = "OK" /\ \A u \in Thread \ {t} : call'[u] = call[u]
  BY <1>1, <1>2 DEF MethodsType, M!Call, M!Result
<1>5. Stays(t)
  BY <1>1, <1>2, <1>3, <1>4 DEF Stays, Owns
<1>6. MethodsType'
  BY <1>1, <1>2, <1>3, <1>4 DEF MethodsType, Moves
<1>7. Tied(t)'
  <2>1. nmutex # t /\ t \notin owed
    BY <1>1 DEF Tied, Relocking
  <2> QED
    BY <1>2, <1>3, <1>4, <2>1 DEF Tied, Moves, Owns, Relocking
<1>8. \A u \in Thread \ {t} : Tied(u)' /\ AbstractPlace(u)' = AbstractPlace(u)
  BY <1>2, <1>5, OthersTied
<1>9. \A u \in Thread : pc[u] # "callReleaseAll"
  BY <1>1, HolderAlone DEF MethodsInv
<1>10. \A u \in Thread : pc'[u] # "callReleaseAll"
  BY <1>2, <1>9 DEF Moves
<1>11. AbstractState = state /\ AbstractState' = state'
  <2>1. (\A u \in Thread : pc[u] # "callReleaseAll")'
    BY <1>10
  <2>2. (AbstractState = state)'
    BY <2>1, NobodyFreeing, PTL
  <2> QED
    BY <1>9, <2>2, NobodyFreeing
<1>12. AbstractPlace(t)' = "program"
  BY <1>3 DEF AbstractPlace
<1>13. /\ AbstractPc' = [AbstractPc EXCEPT ![t] = "program"] /\ AbstractPc[t] = AbstractPlace(t)
       /\ "program" = AbstractPlace(t) => AbstractPc' = AbstractPc
  BY <1>8, <1>12, PlaceMoves
<1> QED
  BY <1>2, <1>5, <1>6, <1>7, <1>8, <1>10, <1>11, <1>13

\* A method that ends with the state as it was.
LEMMA ReturnKeeps ==
  ASSUME MethodsInv, NEW t \in Thread, at[t] # "program", pc[t] = "program", GoTo(t, "program"),
         M!ReleaseLock(t), UNCHANGED <<state, mode, timed, claims>>
  PROVE  /\ MethodsInv' /\ AbstractState' = AbstractState
         /\ AbstractPc' = [AbstractPc EXCEPT ![t] = "program"] /\ AbstractPc[t] = AbstractPlace(t)
         /\ AbstractPlace(t) = "program" => AbstractPc' = AbstractPc
<1>1. MethodsType /\ Counted
  BY DEF MethodsInv
<1>2. state' \in Nat \cup Thread /\ claims' \in SUBSET (Thread \X (0 .. MaxClaims)) /\ IsFiniteSet(claims')
  BY <1>1 DEF MethodsType
<1>3. /\ MethodsType' /\ (\A u \in Thread : Tied(u)')
      /\ AbstractState = state /\ AbstractState' = state' /\ (\A u \in Thread : pc'[u] # "callReleaseAll")
      /\ AbstractPc' = [AbstractPc EXCEPT ![t] = "program"] /\ AbstractPc[t] = AbstractPlace(t)
      /\ AbstractPlace(t) = "program" => AbstractPc' = AbstractPc
  BY <1>2, ReturnMoves
<1>4. Counted'
  BY <1>1, <1>3 DEF Counted
<1> QED
  BY <1>3, <1>4 DEF MethodsInv

\* wait-for runs out of time.
LEMMA ExitKeeps ==
  ASSUME MethodsInv, NEW t \in Thread, Exit(t)
  PROVE  MethodsInv' /\ AbstractStep
<1>1. /\ at[t] = "waiting" /\ pc[t] = "program" /\ call[t] = "TIMEOUT" /\ GoTo(t, "program")
      /\ M!ReleaseLock(t) /\ UNCHANGED <<state, mode, timed, claims>>
  BY DEF Exit, Returned
<1>2. AbstractPlace(t) = "expired"
  BY <1>1 DEF AbstractPlace, Expired
<1>3. /\ MethodsInv' /\ AbstractState' = AbstractState
      /\ AbstractPc' = [AbstractPc EXCEPT ![t] = "program"] /\ AbstractPc[t] = "expired"
  BY <1>1, <1>2, ReturnKeeps
<1>4. Abstract!GiveUp(t)
  BY <1>1, <1>3 DEF Abstract!GiveUp
<1> QED
  BY <1>3, <1>4 DEF AbstractStep, Abstract!Next

\* release is refused, or has done its work.
LEMMA RefusedKeeps ==
  ASSUME MethodsInv, NEW t \in Thread, Refused(t) \/ Freed(t)
  PROVE  MethodsInv' /\ AbstractStep
<1>1. /\ at[t] \in {"releasing", "freeing", "freeingRead"} /\ pc[t] = "program" /\ GoTo(t, "program")
      /\ M!ReleaseLock(t) /\ UNCHANGED <<state, mode, timed, claims>>
  BY DEF Refused, Freed, Returned
<1>2. AbstractPlace(t) = "program"
  BY <1>1 DEF AbstractPlace
<1>3. MethodsInv' /\ AbstractState' = AbstractState /\ AbstractPc' = AbstractPc
  BY <1>1, <1>2, ReturnKeeps
<1> QED
  BY <1>1, <1>3 DEF AbstractStep

\* Where the loop of wait-for tests the state.
LEMMA TestPlace ==
  ASSUME NEW t \in Thread, pc[t] = "program", at[t] = "entering" \/ (at[t] = "waiting" /\ call[t] # "TIMEOUT")
  PROVE  AbstractPlace(t) = "awake"
  BY DEF AbstractPlace, Expired

\* The loop ends and the lock is claimed.
LEMMA EnterKeeps ==
  ASSUME MethodsInv, NEW t \in Thread, pc[t] = "program",
         at[t] = "entering" \/ (at[t] = "waiting" /\ call[t] # "TIMEOUT"), Enter(t)
  PROVE  MethodsInv' /\ AbstractStep
<1>1. MethodsType /\ Counted /\ AbstractPlace(t) = "awake"
  BY TestPlace DEF MethodsInv
<1>2. GoTo(t, "program") /\ M!ReleaseLock(t) /\ UNCHANGED <<mode, timed>> /\ FreeFor(t)
  BY DEF Enter
<1>3. CASE mode[t] = "write"
  <2>1. state = 0 /\ state' = t /\ claims' = claims \cup {<<t, 0>>}
    BY <1>2, <1>3 DEF Enter, FreeFor
  <2>2. state' \in Nat \cup Thread /\ claims' \in SUBSET (Thread \X (0 .. MaxClaims)) /\ IsFiniteSet(claims')
    <3>1. IsFiniteSet(claims')
      BY <1>1, <2>1, FS_AddElement DEF MethodsType
    <3> QED
      BY <1>1, <2>1, <3>1, RWMonitorAssumption DEF MethodsType
  <2>3. /\ MethodsType' /\ (\A u \in Thread : Tied(u)')
        /\ AbstractState = state /\ AbstractState' = state' /\ (\A u \in Thread : pc'[u] # "callReleaseAll")
        /\ AbstractPc' = [AbstractPc EXCEPT ![t] = "program"] /\ AbstractPc[t] = "awake"
    BY <1>1, <1>2, <2>2, ReturnMoves
  <2>4. claims = {}
    <3>1. state \notin Thread
      BY <2>1, RWMonitorAssumption
    <3>2. Cardinality(claims) = 0 /\ IsFiniteSet(claims)
      BY <1>1, <2>1, <2>3, <3>1 DEF Counted, MethodsType
    <3> QED
      BY <3>2, FS_EmptySet
  <2>5. Counted'
    <3>1. claims' = {<<t, 0>>}
      BY <2>1, <2>4
    <3> QED
      BY <2>1, <2>3, <3>1 DEF Counted
  <2>6. Abstract!WaitFor(t)
    BY <1>2, <1>3, <2>1, <2>3 DEF Abstract!WaitFor, Abstract!FreeFor, Abstract!Enter
  <2> QED
    BY <2>3, <2>5, <2>6 DEF MethodsInv, AbstractStep, Abstract!Next
<1>4. CASE mode[t] # "write"
  <2>1. state \in Nat /\ state' = state + 1
    BY <1>2, <1>4 DEF Enter, FreeFor
  <2>2. PICK n \in 1 .. MaxClaims : <<t, n>> \notin claims /\ claims' = claims \cup {<<t, n>>}
    BY <1>2, <1>4 DEF Enter
  <2>3. IsFiniteSet(claims') /\ Cardinality(claims') = Cardinality(claims) + 1
    BY <1>1, <2>2, FS_AddElement DEF MethodsType
  <2>4. state' \in Nat \cup Thread /\ claims' \in SUBSET (Thread \X (0 .. MaxClaims))
    BY <1>1, <2>1, <2>2 DEF MethodsType
  <2>5. /\ MethodsType' /\ (\A u \in Thread : Tied(u)')
        /\ AbstractState = state /\ AbstractState' = state' /\ (\A u \in Thread : pc'[u] # "callReleaseAll")
        /\ AbstractPc' = [AbstractPc EXCEPT ![t] = "program"] /\ AbstractPc[t] = "awake"
    BY <1>1, <1>2, <2>3, <2>4, ReturnMoves
  <2>6. Counted'
    <3>1. state = Cardinality(claims) /\ \A c \in claims : c[2] # 0
      BY <1>1, <2>1, <2>5, RWMonitorAssumption DEF Counted
    <3>2. \A c \in claims' : c[2] # 0
      BY <2>2, <3>1
    <3> QED
      BY <2>1, <2>3, <2>5, <3>1, <3>2 DEF Counted
  <2>7. Abstract!WaitFor(t)
    BY <1>2, <1>4, <2>1, <2>2, <2>5 DEF Abstract!WaitFor, Abstract!FreeFor, Abstract!Enter
  <2> QED
    BY <2>5, <2>6, <2>7 DEF MethodsInv, AbstractStep, Abstract!Next
<1> QED
  BY <1>3, <1>4

\* The loop goes on: the monitor is waited for.
LEMMA AwaitKeeps ==
  ASSUME MethodsInv, NEW t \in Thread, pc[t] = "program",
         at[t] = "entering" \/ (at[t] = "waiting" /\ call[t] # "TIMEOUT"), Await(t)
  PROVE  MethodsInv' /\ AbstractStep
<1>1. MethodsType /\ Tied(t) /\ Owns(t) /\ AbstractPlace(t) = "awake"
  BY TestPlace DEF MethodsInv, Tied
<1>2. /\ ~FreeFor(t) /\ GoTo(t, "waiting") /\ M!Goto(t, "callWait")
      /\ call'[t] = IF timed[t] THEN "waitTimed" ELSE "wait"
      /\ UNCHANGED <<state, mode, timed, claims, locked, owner, nmutex, owed>>
  BY DEF Await, M!CallWait
<1>3. PICK how \in {"wait", "waitTimed"} : call' = [call EXCEPT ![t] = how]
  BY DEF Await, M!CallWait
<1>4. Moves(t, "callWait")
  BY <1>1, <1>2, GotoMoves DEF M!Place
<1>5. at' \in [Thread -> Methods] /\ at'[t] = "waiting" /\ \A u \in Thread \ {t} : at'[u] = at[u]
  BY <1>1, <1>2 DEF MethodsType, GoTo, Methods
<1>6. call' \in [Thread -> M!Call] /\ \A u \in Thread \ {t} : call'[u] = call[u]
  BY <1>1, <1>3 DEF MethodsType, M!Call, M!Result
<1>7. Stays(t)
  BY <1>2, <1>5, <1>6 DEF Stays, Owns
<1>8. MethodsType'
  BY <1>1, <1>2, <1>4, <1>5, <1>6 DEF MethodsType, Moves
<1>9. Tied(t)'
  <2>1. nmutex # t /\ t \notin owed
    BY <1>1 DEF Tied, Relocking
  <2>2. Owns(t)' /\ pc'[t] = "callWait"
    BY <1>1, <1>2, <1>4 DEF Owns, Moves
  <2> QED
    BY <1>2, <1>5, <2>1, <2>2 DEF Tied, Relocking
<1>10. AbstractPlace(t)' = "asleep"
  BY <1>4, <1>5 DEF AbstractPlace, Expired, Moves
<1>11. /\ MethodsInv' /\ AbstractState' = AbstractState
       /\ AbstractPc' = [AbstractPc EXCEPT ![t] = "asleep"] /\ AbstractPc[t] = "awake"
  BY <1>1, <1>2, <1>4, <1>7, <1>8, <1>9, <1>10, QuietStep
<1>12. AbstractState = state
  BY <1>1, HolderAlone, NobodyFreeing DEF MethodsInv
<1>13. Abstract!WaitFor(t)
  BY <1>2, <1>11, <1>12 DEF Abstract!WaitFor, Abstract!FreeFor, Abstract!Sleep, FreeFor
<1> QED
  BY <1>11, <1>13 DEF AbstractStep, Abstract!Next

\* One of several readers leaves.
LEMMA DecrementKeeps ==
  ASSUME MethodsInv, NEW t \in Thread, Decrement(t)
  PROVE  MethodsInv' /\ AbstractStep
<1>1. MethodsType /\ Counted
  BY DEF MethodsInv
<1>2. /\ at[t] = "releasing" /\ pc[t] = "program" /\ GoTo(t, "program") /\ M!ReleaseLock(t)
      /\ state \in Nat /\ state > 1 /\ state' = state - 1 /\ UNCHANGED <<mode, timed>>
  BY DEF Decrement, Returned
<1>3. PICK c \in claims : claims' = claims \ {c}
  BY DEF Decrement
<1>4. IsFiniteSet(claims') /\ Cardinality(claims') = Cardinality(claims) - 1
  BY <1>1, <1>3, FS_RemoveElement DEF MethodsType
<1>5. state' \in Nat \cup Thread /\ claims' \in SUBSET (Thread \X (0 .. MaxClaims))
  BY <1>1, <1>2, <1>3 DEF MethodsType
<1>6. AbstractPlace(t) = "program"
  BY <1>2 DEF AbstractPlace
<1>7. /\ MethodsType' /\ (\A u \in Thread : Tied(u)')
      /\ AbstractState = state /\ AbstractState' = state' /\ (\A u \in Thread : pc'[u] # "callReleaseAll")
      /\ AbstractPc' = AbstractPc /\ AbstractPc[t] = "program"
  BY <1>2, <1>4, <1>5, <1>6, ReturnMoves
<1>8. Counted'
  <2>1. state = Cardinality(claims) /\ \A d \in claims : d[2] # 0
    BY <1>1, <1>2, <1>7, RWMonitorAssumption DEF Counted
  <2>2. \A d \in claims' : d[2] # 0
    BY <1>3, <2>1
  <2> QED
    BY <1>2, <1>4, <1>7, <2>1, <2>2 DEF Counted
<1>9. state' # 0
  BY <1>2
<1>10. Abstract!ReleaseRead(t, c)
  BY <1>2, <1>3, <1>7, <1>9 DEF Abstract!ReleaseRead, Abstract!LockedForReading
<1> QED
  BY <1>3, <1>7, <1>8, <1>10 DEF MethodsInv, AbstractStep, Abstract!Next

\* The last claim goes: the state is free, but release-all has yet to be called.
LEMMA FreeKeeps ==
  ASSUME MethodsInv, NEW t \in Thread, Free(t)
  PROVE  MethodsInv' /\ AbstractStep
<1>1. MethodsType /\ Tied(t) /\ Counted
  BY DEF MethodsInv
<1>2. /\ at[t] = "releasing" /\ pc[t] = "program" /\ state' = 0 /\ M!Goto(t, "callReleaseAll")
      /\ UNCHANGED <<mode, timed, claims, locked, owner, nmutex, call, owed>>
  <2>1. M!Goto(t, "callRelease") => pc'[t] = "callRelease"
    BY <1>1 DEF M!Goto, MethodsType
  <2> QED
    BY <2>1 DEF Free, Returned, M!CallRelease
<1>3. PICK l \in {"freeing", "freeingRead"} :
        GoTo(t, l) /\ (l = "freeing" => state = t) /\ (l = "freeingRead" => state = 1)
  BY DEF Free
<1>4. Owns(t) /\ nmutex # t /\ t \notin owed
  BY <1>1, <1>2 DEF Tied
<1>5. Moves(t, "callReleaseAll")
  BY <1>1, <1>2, GotoMoves DEF M!Place
<1>6. at' \in [Thread -> Methods] /\ at'[t] = l /\ \A u \in Thread \ {t} : at'[u] = at[u]
  BY <1>1, <1>3 DEF MethodsType, GoTo, Methods
<1>7. Stays(t)
  BY <1>2, <1>6 DEF Stays, Owns
<1>8. \A u \in Thread \ {t} : Tied(u)' /\ AbstractPlace(u)' = AbstractPlace(u)
  BY <1>5, <1>7, OthersTied
<1>9. Tied(t)'
  BY <1>2, <1>4, <1>5, <1>6 DEF Tied, Moves, Owns, Relocking
<1>10. AbstractPc' = AbstractPc
  <2>1. AbstractPlace(t) = "program" /\ AbstractPlace(t)' = "program"
    BY <1>2, <1>6 DEF AbstractPlace
  <2> QED
    BY <1>8, <2>1, PlaceMoves
<1>11. \A u \in Thread : pc[u] # "callReleaseAll"
  BY <1>2, <1>4, HolderAlone DEF MethodsInv
<1>12. AbstractState = state
  BY <1>11, NobodyFreeing
<1>13. \A u \in Thread : pc'[u] = "callReleaseAll" <=> u = t
  BY <1>5, <1>11 DEF Moves
<1>14. AbstractState' = state
  <2>1. (\E u \in Thread : Freeing(u, "freeing"))' <=> l = "freeing"
    BY <1>6, <1>13 DEF Freeing
  <2>2. (\E u \in Thread : Freeing(u, "freeingRead"))' <=> l = "freeingRead"
    BY <1>6, <1>13 DEF Freeing
  <2>3. owner' = t
    BY <1>2, <1>4 DEF Owns
  <2> QED
    BY <1>3, <2>1, <2>2, <2>3 DEF AbstractState
<1>15. MethodsType'
  BY <1>1, <1>2, <1>5, <1>6 DEF MethodsType, Moves
<1>16. Counted'
  BY <1>1, <1>2, <1>12, <1>14 DEF Counted
<1> QED
  BY <1>2, <1>8, <1>9, <1>10, <1>12, <1>14, <1>15, <1>16 DEF MethodsInv, AbstractStep

\* release-all: every thread that waits for the monitor is notified.
LEMMA NotifyKeeps ==
  ASSUME MethodsInv, NEW t \in Thread, Notify(t)
  PROVE  MethodsInv' /\ AbstractStep
<1>1. MethodsType /\ (\A u \in Thread : Tied(u)) /\ Counted
  BY DEF MethodsInv
<1>2. /\ at[t] \in {"freeing", "freeingRead"} /\ pc[t] = "callReleaseAll" /\ nmutex = NoThread
      /\ pc' = [u \in Thread |-> IF u = t THEN "program" ELSE IF pc[u] = "waiting" THEN "notified" ELSE pc[u]]
      /\ owed' = owed \cup M!In("waiting") \cup M!In("released")
      /\ call' = [call EXCEPT ![t] = "OK"]
      /\ UNCHANGED <<state, at, mode, timed, locked, owner, nmutex>>
  BY DEF Notify, M!ReleaseAll, M!At, M!Results
<1>3. claims' = IF at[t] = "freeing" THEN claims \ {<<t, 0>>} ELSE {}
  BY DEF Notify
<1>4. Owns(t) /\ \A u \in Thread \ {t} : ~Owns(u)
  BY <1>1, <1>2 DEF Tied, Owns
<1>5. t \notin owed /\ \A u \in Thread : nmutex # u
  BY <1>1, <1>2, RWMonitorAssumption DEF Tied
<1>6. \A u \in Thread \ {t} : pc[u] \notin {"callWait", "releasing", "unlocking", "released", "callReleaseAll"}
  BY <1>1, <1>4, <1>5, HolderAlone DEF Tied
<1>7. owed' \in SUBSET Thread /\ \A u \in Thread : u \in owed' <=> u \in owed \/ pc[u] = "waiting"
  BY <1>1, <1>2, <1>6 DEF M!In, MethodsType
<1>8. call' \in [Thread -> M!Call] /\ \A u \in Thread \ {t} : call'[u] = call[u]
  BY <1>1, <1>2 DEF MethodsType, M!Call, M!Result
<1>9. MethodsType'
  <2>1. pc' \in [Thread -> M!Place]
    BY <1>1, <1>2 DEF MethodsType, M!Place
  <2>2. claims' \in SUBSET (Thread \X (0 .. MaxClaims)) /\ IsFiniteSet(claims')
    <3>1. claims' \subseteq claims
      BY <1>3
    <3> QED
      BY <1>1, <3>1, FS_Subset DEF MethodsType
  <2> QED
    BY <1>1, <1>2, <1>7, <1>8, <2>1, <2>2 DEF MethodsType
<1>10. ASSUME NEW u \in Thread \ {t}
       PROVE  /\ Tied(u)'
              /\ AbstractPlace(u)' = IF AbstractPlace(u) = "asleep" THEN "awake" ELSE AbstractPlace(u)
  <2>1. /\ Tied(u) /\ at'[u] = at[u] /\ call'[u] = call[u] /\ timed'[u] = timed[u]
        /\ Owns(u)' <=> Owns(u)
        /\ nmutex # u /\ nmutex' # u
    BY <1>1, <1>2, <1>5, <1>8 DEF Owns
  <2>2. CASE pc[u] = "waiting"
    <3>1. pc'[u] = "notified" /\ at[u] = "waiting"
      BY <1>1, <1>2, <2>1, <2>2 DEF Tied, MethodsType, Methods
    <3>2. Tied(u)'
      BY <2>1, <2>2, <3>1 DEF Tied, Relocking
    <3>3. ~Expired(u) /\ ~Expired(u)'
      BY <2>1, <2>2, <3>1 DEF Expired
    <3> QED
      BY <2>1, <2>2, <3>1, <3>2, <3>3 DEF AbstractPlace
  <2>3. CASE pc[u] # "waiting"
    <3>1. pc'[u] = pc[u] /\ (u \in owed' <=> u \in owed)
      BY <1>2, <1>7, <2>3
    <3>2. Tied(u)'
      BY <2>1, <3>1 DEF Tied
    <3>3. Expired(u)' <=> Expired(u)
      BY <2>1, <3>1 DEF Expired
    <3>4. AbstractPlace(u)' = AbstractPlace(u) /\ AbstractPlace(u) # "asleep"
      BY <1>6, <2>1, <2>3, <3>1, <3>3 DEF AbstractPlace
    <3> QED
      BY <3>2, <3>4
  <2> QED
    BY <2>2, <2>3
<1>11. Tied(t)'
  <2>1. Owns(t)' /\ t \notin owed' /\ pc'[t] = "program" /\ at'[t] = at[t] /\ nmutex' # t
    BY <1>2, <1>4, <1>5, <1>7 DEF Owns
  <2> QED
    BY <1>2, <2>1 DEF Tied, Relocking
<1>12. AbstractPlace(t) = "program" /\ AbstractPlace(t)' = "program"
  BY <1>2 DEF AbstractPlace
<1>13. AbstractPc[t] = "program" /\ Abstract!ReleaseAll
  <2>1. \A u \in Thread : AbstractPlace(u)' = IF AbstractPlace(u) = "asleep" THEN "awake" ELSE AbstractPlace(u)
    BY <1>10, <1>12
  <2> QED
    BY <1>12, <2>1 DEF AbstractPc, Abstract!ReleaseAll
<1>14. state = 0 /\ AbstractState' = 0
  <2>1. \A u \in Thread : pc'[u] # "callReleaseAll"
    BY <1>2, <1>6
  <2>2. AbstractState' = state'
    BY <2>1 DEF AbstractState, Freeing
  <2> QED
    BY <1>1, <1>2, <2>2 DEF Counted
<1>15. CASE at[t] = "freeing"
  <2>1. AbstractState = t
    BY <1>2, <1>4, <1>15 DEF AbstractState, Freeing, Owns
  <2>2. claims' = claims \ {<<t, 0>>} /\ claims' = {}
    <3>1. t # Cardinality(claims)
      BY <1>1, FS_CardinalityType, RWMonitorAssumption DEF MethodsType
    <3> QED
      BY <1>1, <1>3, <1>15, <2>1, <3>1 DEF Counted
  <2>3. Counted'
    BY <1>2, <1>14, <2>2, FS_EmptySet DEF Counted
  <2>4. Abstract!ReleaseWrite(t)
    BY <1>2, <1>13, <1>14, <2>1, <2>2 DEF Abstract!ReleaseWrite, Abstract!LockedForWriting
  <2> QED
    BY <1>9, <1>10, <1>11, <2>3, <2>4 DEF MethodsInv, AbstractStep, Abstract!Next
<1>16. CASE at[t] = "freeingRead"
  <2>1. AbstractState = 1
    <3>1. ~\E u \in Thread : Freeing(u, "freeing")
      BY <1>6, <1>16 DEF Freeing
    <3>2. Freeing(t, "freeingRead")
      BY <1>2, <1>16 DEF Freeing
    <3> QED
      BY <3>1, <3>2 DEF AbstractState
  <2>2. 1 = Cardinality(claims) /\ IsFiniteSet(claims)
    BY <1>1, <2>1, RWMonitorAssumption DEF Counted, MethodsType
  <2>3. PICK c : claims = {c}
    BY <2>2, FS_Singleton
  <2>4. claims' = {} /\ claims' = claims \ {c} /\ c \in claims
    BY <1>3, <1>16, <2>3
  <2>5. Counted'
    BY <1>2, <1>14, <2>4, FS_EmptySet DEF Counted
  <2>6. Abstract!ReleaseRead(t, c)
    BY <1>2, <1>13, <1>14, <2>1, <2>4 DEF Abstract!ReleaseRead, Abstract!LockedForReading
  <2> QED
    BY <1>9, <1>10, <1>11, <2>4, <2>5, <2>6 DEF MethodsInv, AbstractStep, Abstract!Next
<1> QED
  BY <1>2, <1>15, <1>16

\* A step inside a primitive, where the inner lock stays with whom it is.
LEMMA InsideKeeps ==
  ASSUME MethodsInv, NEW t \in Thread, NEW p, Moves(t, p),
         p # "callReleaseAll", pc[t] # "callReleaseAll",
         locked' \in BOOLEAN, owner' \in Thread \cup {NoThread}, locked => owner' = owner,
         \A u \in Thread \ {t} : Owns(u)' <=> Owns(u),
         nmutex' \in Thread \cup {NoThread}, \A u \in Thread \ {t} : nmutex' = u <=> nmutex = u,
         owed' \in {owed, owed \ {t}}, call' \in [Thread -> M!Call], \A u \in Thread \ {t} : call'[u] = call[u],
         UNCHANGED methodVars, Tied(t)'
  PROVE  /\ MethodsInv' /\ AbstractState' = AbstractState
         /\ AbstractPc' = [AbstractPc EXCEPT ![t] = AbstractPlace(t)'] /\ AbstractPc[t] = AbstractPlace(t)
         /\ AbstractPlace(t)' = AbstractPlace(t) => AbstractPc' = AbstractPc /\ AbstractStep
<1>1. UNCHANGED <<state, at, mode, timed, claims>>
  BY DEF methodVars
<1>2. MethodsType'
  BY <1>1 DEF MethodsInv, MethodsType, Moves
<1>3. Stays(t)
  BY <1>1 DEF Stays
<1>4. /\ MethodsInv' /\ AbstractState' = AbstractState
      /\ AbstractPc' = [AbstractPc EXCEPT ![t] = AbstractPlace(t)'] /\ AbstractPc[t] = AbstractPlace(t)
      /\ AbstractPlace(t)' = AbstractPlace(t) => AbstractPc' = AbstractPc
  BY <1>1, <1>2, <1>3, QuietStep
<1> QED
  BY <1>1, <1>4 DEF AbstractStep

\* The inner lock is asked for again.
LEMMA RelockKeeps ==
  ASSUME MethodsInv, NEW t \in Thread, pc[t] \in {"awake", "relock"}, M!LockLoop(t, call[t]),
         UNCHANGED methodVars
  PROVE  MethodsInv' /\ AbstractStep
<1>1. MethodsType /\ Tied(t)
  BY DEF MethodsInv
<1>2. UNCHANGED <<at, timed>> /\ ~Owns(t)
  BY <1>1 DEF methodVars, Tied
<1>3. at[t] \in {"entering", "releasing", "waiting"}
  BY <1>1 DEF Tied, MethodsType, Methods
<1>4. Taken(t) \/ NotTaken(t, call[t])
  BY <1>1, Locking
<1>5. CASE NotTaken(t, call[t])
  <2>1. /\ Moves(t, "asleep") /\ pc'[t] = "asleep" /\ UNCHANGED <<locked, owner, nmutex, owed, call>>
    BY <1>1, <1>5 DEF NotTaken, MethodsType, Moves
  <2>2. Tied(t)'
    BY <1>1, <1>2, <1>3, <2>1 DEF Tied, Owns, Relocking
  <2>3. Expired(t)' <=> Expired(t)
    BY <2>1 DEF Expired
  <2>4. AbstractPlace(t)' = AbstractPlace(t)
    BY <1>2, <2>1, <2>3 DEF AbstractPlace
  <2> QED
    BY <1>1, <2>1, <2>2, <2>4, InsideKeeps DEF MethodsType, Owns
<1>6. CASE Taken(t) /\ nmutex = t
  <2>1. /\ Moves(t, "unlocking") /\ pc'[t] = "unlocking" /\ UNCHANGED <<nmutex, owed, call>>
        /\ ~locked /\ locked' = TRUE /\ owner' = t
    BY <1>6 DEF Taken, Moves
  <2>2. at[t] = "waiting"
    BY <1>1, <1>6 DEF Tied
  <2>3. Tied(t)'
    BY <1>1, <1>2, <1>6, <2>1, <2>2 DEF Tied, Owns, Relocking
  <2>4. Expired(t)' /\ Expired(t)
    BY <1>6, <2>1 DEF Expired
  <2>5. AbstractPlace(t)' = AbstractPlace(t)
    BY <1>2, <2>2, <2>4 DEF AbstractPlace
  <2>6. \A u \in Thread \ {t} : Owns(u)' <=> Owns(u)
    BY <2>1 DEF Owns
  <2> QED
    BY <1>1, <2>1, <2>3, <2>5, <2>6, InsideKeeps DEF MethodsType
<1>7. CASE Taken(t) /\ nmutex # t
  <2>1. /\ Moves(t, "program") /\ pc'[t] = "program" /\ nmutex' = nmutex
        /\ call' = [call EXCEPT ![t] = "OK"] /\ owed' = owed \ {t}
        /\ ~locked /\ locked' = TRUE /\ owner' = t
    BY <1>7 DEF Taken, Moves
  <2>2. call' \in [Thread -> M!Call] /\ call'[t] = "OK" /\ \A u \in Thread \ {t} : call'[u] = call[u]
    BY <1>1, <2>1 DEF MethodsType, M!Call, M!Result
  <2>3. Tied(t)'
    BY <1>1, <1>2, <1>3, <1>7, <2>1, <2>2 DEF Tied, Owns, Relocking
  <2>4. ~Expired(t)' /\ ~Expired(t)
    BY <1>7, <2>1, <2>2 DEF Expired
  <2>5. AbstractPlace(t)' = AbstractPlace(t)
    BY <1>2, <2>1, <2>4 DEF AbstractPlace
  <2>6. \A u \in Thread \ {t} : Owns(u)' <=> Owns(u)
    BY <2>1 DEF Owns
  <2> QED
    BY <1>1, <2>1, <2>2, <2>3, <2>5, <2>6, InsideKeeps DEF MethodsType
<1> QED
  BY <1>4, <1>5, <1>6, <1>7

\* A step that touches neither the inner lock nor the calls.
LEMMA MutexStepKeeps ==
  ASSUME MethodsInv, NEW t \in Thread, NEW p \in M!Place, M!Goto(t, p),
         p # "callReleaseAll", pc[t] # "callReleaseAll",
         nmutex' \in Thread \cup {NoThread}, \A u \in Thread \ {t} : nmutex' = u <=> nmutex = u,
         UNCHANGED <<locked, owner, call, owed>>, UNCHANGED methodVars, Tied(t)'
  PROVE  /\ MethodsInv' /\ AbstractState' = AbstractState
         /\ AbstractPc' = [AbstractPc EXCEPT ![t] = AbstractPlace(t)'] /\ AbstractPc[t] = AbstractPlace(t)
         /\ AbstractPlace(t)' = AbstractPlace(t) => AbstractStep
<1>1. MethodsType
  BY DEF MethodsInv
<1>2. Moves(t, p)
  BY <1>1, GotoMoves
<1> QED
  BY <1>1, <1>2, InsideKeeps DEF MethodsType, Owns

\* The steps of wait-for (monitor) around the mutex of the notification.
LEMMA MutexKeeps ==
  ASSUME MethodsInv, NEW t \in Thread, UNCHANGED methodVars,
         M!LockMutex(t) \/ M!Sleep(t) \/ M!NotifiedReturn(t) \/ M!ExpiredReturn(t)
  PROVE  MethodsInv' /\ AbstractStep
<1>1. MethodsType /\ Tied(t) /\ UNCHANGED <<at, timed>>
  BY DEF MethodsInv, methodVars
<1>2. at[t] = "waiting"
  BY <1>1 DEF Tied, MethodsType, Methods, M!LockMutex, M!Sleep, M!NotifiedReturn, M!ExpiredReturn, M!At
<1>3. PICK p \in {"releasing", "waiting", "relock"} :
        /\ M!Goto(t, p) /\ UNCHANGED <<locked, owner, call, owed>>
        /\ p = "releasing" => pc[t] = "callWait" /\ nmutex = NoThread /\ nmutex' = t
        /\ p = "waiting" => pc[t] = "released" /\ nmutex' = NoThread
        /\ p = "relock" => \/ pc[t] = "notified" /\ nmutex = NoThread /\ nmutex' = nmutex
                           \/ pc[t] = "expired" /\ nmutex = NoThread /\ nmutex' = t
  BY DEF M!LockMutex, M!Sleep, M!NotifiedReturn, M!ExpiredReturn, M!At
<1>4. p \in M!Place /\ pc'[t] = p
  BY <1>1, <1>3 DEF MethodsType, M!Goto, M!Place
<1>5. p = "waiting" => nmutex = t
  BY <1>1, <1>3 DEF Tied
<1>6. nmutex' \in Thread \cup {NoThread} /\ \A u \in Thread \ {t} : nmutex' = u <=> nmutex = u
  BY <1>1, <1>3, <1>5, RWMonitorAssumption DEF MethodsType
<1>7. Owns(t)' <=> Owns(t)
  BY <1>3 DEF Owns
<1>8. Tied(t)'
  BY <1>1, <1>2, <1>3, <1>4, <1>7, RWMonitorAssumption DEF Tied, Relocking
<1>9. Expired(t)' <=> Expired(t)
  BY <1>1, <1>3, <1>4, RWMonitorAssumption DEF Expired
<1>10. AbstractPlace(t)' = AbstractPlace(t)
  BY <1>1, <1>3, <1>4, <1>9 DEF AbstractPlace
<1> QED
  BY <1>3, <1>4, <1>6, <1>8, <1>10, MutexStepKeeps

\* A wait that has timed out returns.
LEMMA UnlockMutexKeeps ==
  ASSUME MethodsInv, NEW t \in Thread, UNCHANGED methodVars, M!UnlockMutex(t)
  PROVE  MethodsInv' /\ AbstractStep
<1>1. MethodsType /\ Tied(t) /\ UNCHANGED <<at, timed>>
  BY DEF MethodsInv, methodVars
<1>2. /\ pc[t] = "unlocking" /\ nmutex' = NoThread /\ M!Goto(t, "program")
      /\ call' = [call EXCEPT ![t] = "TIMEOUT"] /\ owed' = owed \ {t} /\ UNCHANGED <<locked, owner>>
  BY DEF M!UnlockMutex, M!At, M!Results
<1>3. nmutex = t /\ at[t] = "waiting" /\ Owns(t)
  BY <1>1, <1>2 DEF Tied
<1>4. Moves(t, "program") /\ pc'[t] = "program"
  BY <1>1, <1>2, GotoMoves DEF M!Place, Moves
<1>5. call' \in [Thread -> M!Call] /\ call'[t] = "TIMEOUT" /\ \A u \in Thread \ {t} : call'[u] = call[u]
  BY <1>1, <1>2 DEF MethodsType, M!Call, M!Result
<1>6. Tied(t)'
  BY <1>1, <1>2, <1>3, <1>4, <1>5, RWMonitorAssumption DEF Tied, Owns, Relocking
<1>7. Expired(t)' /\ Expired(t)
  BY <1>2, <1>3, <1>4, <1>5 DEF Expired
<1>8. AbstractPlace(t)' = AbstractPlace(t)
  BY <1>1, <1>3, <1>7 DEF AbstractPlace
<1>9. nmutex' \in Thread \cup {NoThread} /\ \A u \in Thread \ {t} : nmutex' = u <=> nmutex = u
  BY <1>2, <1>3, RWMonitorAssumption
<1> QED
  BY <1>1, <1>2, <1>4, <1>5, <1>6, <1>8, <1>9, InsideKeeps DEF MethodsType, Owns

\* The inner lock is given up for the wait.
LEMMA ReleaseForWaitKeeps ==
  ASSUME MethodsInv, NEW t \in Thread, UNCHANGED methodVars, M!ReleaseForWait(t)
  PROVE  MethodsInv' /\ AbstractStep
<1>1. MethodsType /\ Tied(t) /\ UNCHANGED <<at, timed>>
  BY DEF MethodsInv, methodVars
<1>2. pc[t] = "releasing" /\ Owns(t) /\ nmutex = t /\ at[t] = "waiting"
  BY <1>1 DEF M!ReleaseForWait, M!At, Tied
<1>3. M!ReleaseOwned(t, "released") /\ UNCHANGED <<nmutex, call, owed>>
  BY <1>2 DEF M!ReleaseForWait, Owns
<1>4. Moves(t, "released") /\ pc'[t] = "released" /\ locked' = FALSE /\ owner' = owner
  BY <1>1, <1>2, <1>3, Unlocking DEF M!Place, Moves
<1>5. Tied(t)'
  BY <1>1, <1>2, <1>3, <1>4 DEF Tied, Owns, Relocking
<1>6. ~Expired(t)' /\ ~Expired(t)
  BY <1>2, <1>4 DEF Expired
<1>7. AbstractPlace(t)' = AbstractPlace(t)
  BY <1>1, <1>2, <1>4, <1>6 DEF AbstractPlace
<1>8. \A u \in Thread \ {t} : Owns(u)' <=> Owns(u)
  BY <1>2, <1>4 DEF Owns
<1> QED
  <2>1. /\ locked' \in BOOLEAN /\ owner' \in Thread \cup {NoThread} /\ nmutex' \in Thread \cup {NoThread}
        /\ call' \in [Thread -> M!Call] /\ owed' \in {owed, owed \ {t}}
    BY <1>1, <1>3, <1>4 DEF MethodsType
  <2>2. pc[t] # "callReleaseAll" /\ "released" # "callReleaseAll"
    BY <1>2
  <2> QED
    BY <1>3, <1>4, <1>5, <1>7, <1>8, <2>1, <2>2, InsideKeeps

\* A thread wakes for no reason, or its time is up.
LEMMA EnvironmentKeeps ==
  ASSUME MethodsInv, NEW t \in Thread, Environment(t)
  PROVE  MethodsInv' /\ AbstractStep
<1>1. MethodsType /\ Tied(t) /\ UNCHANGED methodVars /\ UNCHANGED <<at, timed, mode, claims>>
  BY DEF MethodsInv, methodVars, Environment
<1>2. PICK p \in {"awake", "notified", "expired"} :
        /\ M!Goto(t, p) /\ UNCHANGED <<locked, owner, nmutex, call, owed>>
        /\ p = "awake" => pc[t] = "asleep"
        /\ p # "awake" => pc[t] = "waiting"
        /\ p = "expired" => call[t] = "waitTimed"
  BY DEF Environment, M!SpuriousWakeup, M!Expire, M!At
<1>3. p \in M!Place /\ pc'[t] = p
  BY <1>1, <1>2 DEF MethodsType, M!Goto, M!Place
<1>4. pc[t] = "waiting" => at[t] = "waiting" /\ nmutex # t
  BY <1>1 DEF Tied, MethodsType, Methods, Relocking
<1>5. Owns(t)' <=> Owns(t)
  BY <1>2 DEF Owns
<1>6. Tied(t)'
  BY <1>1, <1>2, <1>3, <1>4, <1>5 DEF Tied, Relocking
<1>7. nmutex' \in Thread \cup {NoThread}
  BY <1>1, <1>2 DEF MethodsType
<1>8. /\ MethodsInv' /\ AbstractState' = AbstractState
      /\ AbstractPc' = [AbstractPc EXCEPT ![t] = AbstractPlace(t)'] /\ AbstractPc[t] = AbstractPlace(t)
      /\ AbstractPlace(t)' = AbstractPlace(t) => AbstractStep
  BY <1>1, <1>2, <1>3, <1>6, <1>7, MutexStepKeeps
<1>9. CASE p = "awake"
  <2>1. Expired(t)' <=> Expired(t)
    BY <1>2, <1>3, <1>9 DEF Expired
  <2>2. AbstractPlace(t)' = AbstractPlace(t)
    BY <1>1, <1>2, <1>3, <1>9, <2>1 DEF AbstractPlace
  <2> QED
    BY <1>8, <2>2
<1>10. CASE p = "notified"
  <2>1. ~Expired(t)' /\ ~Expired(t)
    BY <1>2, <1>3, <1>10 DEF Expired
  <2>2. AbstractPlace(t)' = "awake" /\ AbstractPlace(t) = "asleep"
    BY <1>1, <1>2, <1>3, <1>4, <1>10, <2>1 DEF AbstractPlace
  <2>3. Abstract!SpuriousWakeup(t)
    BY <1>1, <1>8, <2>2 DEF Abstract!SpuriousWakeup
  <2> QED
    BY <1>8, <2>3 DEF AbstractStep, Abstract!Next
<1>11. CASE p = "expired"
  <2>1. Expired(t)' /\ ~Expired(t)
    BY <1>2, <1>3, <1>11 DEF Expired
  <2>2. AbstractPlace(t)' = "expired" /\ AbstractPlace(t) = "asleep"
    BY <1>1, <1>2, <1>3, <1>4, <1>11, <2>1 DEF AbstractPlace
  <2>3. timed[t]
    BY <1>1, <1>2, <1>4, <1>11 DEF Tied
  <2>4. Abstract!TimedOut(t)
    BY <1>1, <1>8, <2>2, <2>3 DEF Abstract!TimedOut
  <2> QED
    BY <1>8, <2>4 DEF AbstractStep, Abstract!Next
<1> QED
  BY <1>9, <1>10, <1>11

LEMMA MethodsInit == Init => MethodsInv /\ Abstract!Init
<1> SUFFICES ASSUME Init PROVE MethodsInv /\ Abstract!Init
  OBVIOUS
<1>1. /\ locked = FALSE /\ owner = NoThread /\ nmutex = NoThread /\ owed = {}
      /\ pc = [t \in Thread |-> "program"] /\ call = [t \in Thread |-> "OK"]
      /\ state = 0 /\ at = [t \in Thread |-> "program"] /\ claims = {}
      /\ mode = [t \in Thread |-> "read"] /\ timed = [t \in Thread |-> FALSE]
  BY DEF Init, M!Init
<1>2. MethodsType
  BY <1>1, FS_EmptySet DEF MethodsType, Methods, M!Place, M!Call, M!Result
<1>3. \A t \in Thread : Tied(t)
  BY <1>1, RWMonitorAssumption DEF Tied, Owns, Relocking
<1>4. AbstractState = 0
  BY <1>1, NobodyFreeing
<1>5. Counted
  BY <1>1, <1>4, FS_EmptySet DEF Counted
<1>6. AbstractPc = [t \in Thread |-> "program"]
  BY <1>1 DEF AbstractPc, AbstractPlace
<1>7. Abstract!Init
  BY <1>1, <1>4, <1>6 DEF Abstract!Init
<1> QED
  BY <1>2, <1>3, <1>5, <1>7 DEF MethodsInv

\* Every step of the methods or of the monitor is a step of the read-write lock or none.
LEMMA MethodsNext == MethodsInv /\ [Next]_vars => MethodsInv' /\ AbstractStep
<1> SUFFICES ASSUME MethodsInv, [Next]_vars PROVE MethodsInv' /\ AbstractStep
  OBVIOUS
<1>1. CASE UNCHANGED vars
  <2>1. UNCHANGED <<locked, owner, nmutex, pc, call, owed, state, at, mode, timed, claims>>
    BY <1>1 DEF vars
  <2>2. AbstractState' = AbstractState /\ \A t \in Thread : AbstractPlace(t)' = AbstractPlace(t)
    BY <2>1 DEF AbstractState, AbstractPlace, Freeing, Expired
  <2>3. AbstractPc' = AbstractPc
    BY <2>2 DEF AbstractPc
  <2>4. MethodsType' /\ \A t \in Thread : Tied(t)'
    BY <2>1 DEF MethodsInv, MethodsType, Tied, Owns
  <2>5. Counted'
    BY <2>1, <2>2 DEF MethodsInv, Counted
  <2> QED
    BY <2>1, <2>2, <2>3, <2>4, <2>5 DEF MethodsInv, AbstractStep
<1>2. CASE Next
  <2>1. PICK t \in Thread : CallWaitFor(t) \/ CallRelease(t) \/ Step(t) \/ Environment(t)
    BY <1>2 DEF Next
  <2>2. CASE Primitive(t)
    <3>1. M!Step(t) /\ pc[t] # "callReleaseAll" /\ UNCHANGED methodVars
      BY <2>2 DEF Primitive
    <3>2. pc[t] # "callRelease"
      BY DEF MethodsInv, Tied, MethodsType, Methods
    <3>3. CASE M!Retry(t) \/ M!Relock(t)
      BY <3>1, <3>3, RelockKeeps DEF M!Retry, M!Relock, M!At
    <3> QED
      BY <3>1, <3>2, <3>3, MutexKeeps, UnlockMutexKeeps, ReleaseForWaitKeeps
         DEF M!Step, M!Release, M!ReleaseAll, M!At
  <2>3. CASE Test(t)
    <3>1. pc[t] = "program" /\ (at[t] = "entering" \/ (at[t] = "waiting" /\ call[t] # "TIMEOUT"))
      BY <2>3 DEF Test, Returned
    <3> QED
      BY <2>3, <3>1, EnterKeeps, AwaitKeeps DEF Test
  <2> QED
    BY <2>1, <2>2, <2>3, CallWaitForKeeps, CallReleaseKeeps, ExitKeeps, RefusedKeeps, FreeKeeps,
       DecrementKeeps, NotifyKeeps, EnvironmentKeeps DEF Step
<1> QED
  BY <1>1, <1>2

LEMMA MethodsInvariance == Spec => []MethodsInv
  BY MethodsInit, MethodsNext, PTL DEF Spec

(* wait-for and release of <read-write-lock>, run statement by statement   *)
(* over the primitives of the runtime's monitor, implement ReadWriteLock:  *)
(* its proved properties hold of the code that runs.                       *)
THEOREM MethodsImplementReadWriteLock == Spec => ImplementsReadWriteLock
<1>1. MethodsInv /\ [Next]_vars => [Abstract!Next]_(Abstract!vars)
  BY MethodsNext DEF AbstractStep, Abstract!vars
<1>2. Init => Abstract!Init
  BY MethodsInit
<1> QED
  BY <1>1, <1>2, MethodsInvariance, PTL DEF Spec, ImplementsReadWriteLock, Abstract!Spec

(* The methods use the monitor as it wants to be used: a release-all never *)
(* misses a thread in wait-for, no thread asks for the inner lock while it *)
(* has it, and the state is read and written by its holder only.           *)
THEOREM MonitorIsUsedCorrectly == Spec => []MonitorUsedCorrectly
<1>1. ASSUME MethodsInv PROVE MonitorUsedCorrectly
  <2>1. M!TypeOK
    BY <1>1 DEF MethodsInv, MethodsType, Tied, Relocking, M!TypeOK
  <2>2. M!NoMissedNotification
    <3>1. \A t \in owed : t \in Thread
      BY <1>1 DEF MethodsInv, MethodsType
    <3> QED
      BY <1>1, <3>1 DEF MethodsInv, Tied, Relocking, M!NoMissedNotification, M!At
  <2>3. M!RelockNeverRefused
    BY <1>1 DEF MethodsInv, Tied, Owns, M!RelockNeverRefused
  <2>4. \A t \in Thread : (Returned(t, at[t]) /\ at[t] # "program") => locked /\ owner = t
    BY <1>1 DEF MethodsInv, Tied, Owns, Returned
  <2> QED
    BY <2>1, <2>2, <2>3, <2>4 DEF MonitorUsedCorrectly
<1> QED
  BY <1>1, MethodsInvariance, PTL

(* The release-all of a release waits only for a thread on its way to      *)
(* sleep, or for one whose wait-for had a timeout and has timed out.       *)
THEOREM NotifyIsBlockedByTimeoutOnly == Spec => []NotifyBlockedByTimeoutOnly
<1>1. ASSUME MethodsInv PROVE NotifyBlockedByTimeoutOnly
  <2> SUFFICES ASSUME NEW t \in Thread, pc[t] = "callReleaseAll", nmutex # NoThread
               PROVE  \/ pc[nmutex] = "released"
                      \/ timed[nmutex] /\ pc[nmutex] \in {"relock", "asleep", "awake"}
    BY DEF NotifyBlockedByTimeoutOnly
  <2>1. PICK u \in Thread : nmutex = u
    BY <1>1 DEF MethodsInv, MethodsType
  <2>2. Tied(t) /\ Tied(u)
    BY <1>1 DEF MethodsInv
  <2>3. Owns(t) /\ (Owns(u) => u = t)
    BY <2>2 DEF Tied, Owns
  <2> QED
    BY <2>1, <2>2, <2>3 DEF Tied, Relocking
<1> QED
  BY <1>1, MethodsInvariance, PTL

(* The code itself keeps readers and the writer apart: the state, with a   *)
(* release that is under way undone, counts the claims, all of them to     *)
(* read, or names the one thread that has and keeps the claim to write.    *)
THEOREM CodeExcludesWriter == Spec => []Abstract!ReadersExcludeWriter
<1>1. MethodsInv => Abstract!ReadersExcludeWriter
  <2>1. Abstract!Cardinality(claims) = Cardinality(claims)
    BY DEF Abstract!Cardinality, Cardinality
  <2> QED
    BY <2>1 DEF MethodsInv, Counted, Abstract!ReadersExcludeWriter
<1> QED
  BY <1>1, MethodsInvariance, PTL

=============================================================================
