-------------------------- MODULE ThreadJoinProofs --------------------------
(***************************************************************************)
(* Proofs about ThreadJoin, for every set of threads, every collection of  *)
(* argument vectors and every set of values.                               *)
(***************************************************************************)
EXTENDS ThreadJoin, TLAPS

\* The flags of a thread structure follow the life of the thread.
FlagsFollowLife ==
  \A w \in Worker : /\ "COMPLETED" \in state[w] <=> life[w] = "exited"
                    /\ "JOINED" \in state[w] => "COMPLETED" \in state[w]
                    /\ life[w] = "unmade" => state[w] = {}

\* A thread some join is blocked on has not been joined by another call.
AwaitedNotJoined == \A t \in Thread : Blocked(t) =>
                       \A w \in Args(t) : "JOINED" \notin state[w]

\* The values of a returned function stay in the slot until a join takes them.
ResultsKept == \A w \in Worker :
   life[w] \in {"returned", "exited"} =>
     /\ returned[w] # NoValues
     /\ "JOINED" \notin state[w] => results[w] = returned[w]

\* A join that is past the lock has its thread, and the values, for itself.
Delivery == \A t \in Thread : pc[t] \in {"joined", "reading"} =>
   /\ target[t] \in Worker
   /\ "JOINED" \in state[target[t]]
   /\ pc[t] = "joined" => results[target[t]] = returned[target[t]]
   /\ pc[t] = "reading" => got[t] = returned[target[t]]

ExclusiveDelivery == \A t, u \in Thread :
   /\ t # u
   /\ pc[t] \in {"joined", "reading"}
   /\ pc[u] \in {"joined", "reading"}
   => target[t] # target[u]

IInv == /\ TypeOK
        /\ FlagsFollowLife
        /\ MarksMatchWaiters
        /\ NoLostWakeup
        /\ AwaitedNotJoined
        /\ ResultsKept
        /\ Delivery
        /\ ExclusiveDelivery

-----------------------------------------------------------------------------
\* An action that blocks or unblocks no join and changes no WANT_TO_JOIN flag
\* keeps the flags in step with the blocked joins.
LEMMA MarksKept ==
  ASSUME MarksMatchWaiters,
         \A u \in Thread : Blocked(u)' = Blocked(u) /\ Args(u)' = Args(u),
         \A x \in Worker : "WANT_TO_JOIN" \in state'[x] <=> "WANT_TO_JOIN" \in state[x]
  PROVE  MarksMatchWaiters'
BY DEF MarksMatchWaiters

\* Initially there is no thread to join and nothing is flagged.
LEMMA InitIInv == Init => IInv
BY JoinAssumption DEF Init, IInv, TypeOK, Thread, Flag, FlagsFollowLife, MarksMatchWaiters,
   NoLostWakeup, AwaitedNotJoined, ResultsKept, Delivery, ExclusiveDelivery, Blocked, Args

\* Every step of thread creation, exit and join preserves the invariant.
LEMMA NextIInv == IInv /\ [Next]_vars => IInv'
<1>. SUFFICES ASSUME IInv, [Next]_vars PROVE IInv'
  OBVIOUS
<1>1. ASSUME NEW t \in Thread, NEW w \in Worker, MakeThread(t, w)
      PROVE  IInv'
  <2>1. TypeOK'
    BY <1>1, JoinAssumption DEF IInv, Thread, TypeOK, Flag, MakeThread
  <2>2. FlagsFollowLife'
    BY <1>1, JoinAssumption DEF IInv, Thread, FlagsFollowLife, TypeOK, Flag, MakeThread
  <2>3. MarksMatchWaiters'
    <3>1. \A u \in Thread : Blocked(u)' = Blocked(u) /\ Args(u)' = Args(u)
      BY <1>1 DEF IInv, TypeOK, Blocked, Args, MakeThread
    <3>2. \A x \in Worker : "WANT_TO_JOIN" \in state'[x] <=> "WANT_TO_JOIN" \in state[x]
      BY <1>1 DEF IInv, TypeOK, FlagsFollowLife, MakeThread
    <3>. QED  BY <3>1, <3>2, MarksKept DEF IInv
  <2>4. NoLostWakeup'
    BY <1>1, JoinAssumption DEF IInv, Thread, NoLostWakeup, Blocked, Args, TypeOK,
       FlagsFollowLife, MarksMatchWaiters, MakeThread
  <2>5. AwaitedNotJoined'
    BY <1>1, JoinAssumption DEF IInv, Thread, AwaitedNotJoined, Blocked, Args, TypeOK,
       FlagsFollowLife, MarksMatchWaiters, MakeThread
  <2>6. ResultsKept'
    BY <1>1, JoinAssumption DEF IInv, Thread, ResultsKept, TypeOK, FlagsFollowLife,
       Delivery, AwaitedNotJoined, Blocked, Args, MakeThread
  <2>7. Delivery'
    BY <1>1, JoinAssumption DEF IInv, Thread, Delivery, TypeOK, FlagsFollowLife,
       ExclusiveDelivery, ResultsKept, AwaitedNotJoined, Blocked, Args, MakeThread
  <2>8. ExclusiveDelivery'
    BY <1>1, JoinAssumption DEF IInv, Thread, ExclusiveDelivery, TypeOK, Delivery,
       FlagsFollowLife, AwaitedNotJoined, Blocked, Args, MakeThread
  <2>. QED  BY <2>1, <2>2, <2>3, <2>4, <2>5, <2>6, <2>7, <2>8 DEF IInv
<1>2. ASSUME NEW w \in Worker, NEW v \in Value, FunctionReturns(w, v)
      PROVE  IInv'
  <2>1. TypeOK'
    BY <1>2, JoinAssumption DEF IInv, Thread, TypeOK, Flag, FunctionReturns, Running
  <2>2. FlagsFollowLife'
    BY <1>2, JoinAssumption DEF IInv, Thread, FlagsFollowLife, TypeOK, Flag,
       FunctionReturns, Running
  <2>3. MarksMatchWaiters'
    <3>1. \A u \in Thread : Blocked(u)' = Blocked(u) /\ Args(u)' = Args(u)
      BY <1>2 DEF IInv, TypeOK, Blocked, Args, FunctionReturns, Running
    <3>2. \A x \in Worker : "WANT_TO_JOIN" \in state'[x] <=> "WANT_TO_JOIN" \in state[x]
      BY <1>2 DEF IInv, TypeOK, FlagsFollowLife, FunctionReturns, Running
    <3>. QED  BY <3>1, <3>2, MarksKept DEF IInv
  <2>4. NoLostWakeup'
    BY <1>2, JoinAssumption DEF IInv, Thread, NoLostWakeup, Blocked, Args, TypeOK,
       FlagsFollowLife, MarksMatchWaiters, FunctionReturns, Running
  <2>5. AwaitedNotJoined'
    BY <1>2, JoinAssumption DEF IInv, Thread, AwaitedNotJoined, Blocked, Args, TypeOK,
       FlagsFollowLife, MarksMatchWaiters, FunctionReturns, Running
  <2>6. ResultsKept'
    BY <1>2, JoinAssumption DEF IInv, Thread, ResultsKept, TypeOK, FlagsFollowLife,
       Delivery, AwaitedNotJoined, Blocked, Args, FunctionReturns, Running
  <2>7. Delivery'
    BY <1>2, JoinAssumption DEF IInv, Thread, Delivery, TypeOK, FlagsFollowLife,
       ExclusiveDelivery, ResultsKept, AwaitedNotJoined, Blocked, Args, FunctionReturns,
       Running
  <2>8. ExclusiveDelivery'
    BY <1>2, JoinAssumption DEF IInv, Thread, ExclusiveDelivery, TypeOK, Delivery,
       FlagsFollowLife, AwaitedNotJoined, Blocked, Args, FunctionReturns, Running
  <2>. QED  BY <2>1, <2>2, <2>3, <2>4, <2>5, <2>6, <2>7, <2>8 DEF IInv
<1>3. ASSUME NEW w \in Worker, Exit(w)
      PROVE  IInv'
  <2>1. TypeOK'
    BY <1>3, JoinAssumption DEF IInv, Thread, TypeOK, Flag, Exit, Broadcast
  <2>2. FlagsFollowLife'
    BY <1>3, JoinAssumption DEF IInv, Thread, FlagsFollowLife, TypeOK, Flag, Exit,
       Broadcast
  <2>3. MarksMatchWaiters'
    <3>1. \A u \in Thread : Blocked(u)' = Blocked(u) /\ Args(u)' = Args(u)
      BY <1>3 DEF IInv, TypeOK, Blocked, Args, Exit, Broadcast
    <3>2. \A x \in Worker : "WANT_TO_JOIN" \in state'[x] <=> "WANT_TO_JOIN" \in state[x]
      BY <1>3 DEF IInv, TypeOK, FlagsFollowLife, Exit, Broadcast
    <3>. QED  BY <3>1, <3>2, MarksKept DEF IInv
  <2>4. NoLostWakeup'
    BY <1>3, JoinAssumption DEF IInv, Thread, NoLostWakeup, Blocked, Args, TypeOK,
       FlagsFollowLife, MarksMatchWaiters, Exit, Broadcast
  <2>5. AwaitedNotJoined'
    BY <1>3, JoinAssumption DEF IInv, Thread, AwaitedNotJoined, Blocked, Args, TypeOK,
       FlagsFollowLife, MarksMatchWaiters, Exit, Broadcast
  <2>6. ResultsKept'
    BY <1>3, JoinAssumption DEF IInv, Thread, ResultsKept, TypeOK, FlagsFollowLife,
       Delivery, AwaitedNotJoined, Blocked, Args, Exit, Broadcast
  <2>7. Delivery'
    BY <1>3, JoinAssumption DEF IInv, Thread, Delivery, TypeOK, FlagsFollowLife,
       ExclusiveDelivery, ResultsKept, AwaitedNotJoined, Blocked, Args, Exit, Broadcast
  <2>8. ExclusiveDelivery'
    BY <1>3, JoinAssumption DEF IInv, Thread, ExclusiveDelivery, TypeOK, Delivery,
       FlagsFollowLife, AwaitedNotJoined, Blocked, Args, Exit, Broadcast
  <2>. QED  BY <2>1, <2>2, <2>3, <2>4, <2>5, <2>6, <2>7, <2>8 DEF IInv
<1>4. ASSUME NEW t \in Thread, NEW v \in JoinArgs, JoinRefused(t, v)
      PROVE  IInv'
  <2>1. TypeOK'
    BY <1>4, JoinAssumption DEF IInv, Thread, TypeOK, Flag, JoinRefused
  <2>2. FlagsFollowLife'
    BY <1>4, JoinAssumption DEF IInv, Thread, FlagsFollowLife, TypeOK, Flag, JoinRefused
  <2>3. MarksMatchWaiters'
    <3>1. \A u \in Thread : Blocked(u)' = Blocked(u) /\ Args(u)' = Args(u)
      BY <1>4 DEF IInv, TypeOK, Blocked, Args, JoinRefused
    <3>2. \A x \in Worker : "WANT_TO_JOIN" \in state'[x] <=> "WANT_TO_JOIN" \in state[x]
      BY <1>4 DEF IInv, TypeOK, FlagsFollowLife, JoinRefused
    <3>. QED  BY <3>1, <3>2, MarksKept DEF IInv
  <2>4. NoLostWakeup'
    BY <1>4, JoinAssumption DEF IInv, Thread, NoLostWakeup, Blocked, Args, TypeOK,
       FlagsFollowLife, MarksMatchWaiters, JoinRefused
  <2>5. AwaitedNotJoined'
    BY <1>4, JoinAssumption DEF IInv, Thread, AwaitedNotJoined, Blocked, Args, TypeOK,
       FlagsFollowLife, MarksMatchWaiters, JoinRefused
  <2>6. ResultsKept'
    BY <1>4, JoinAssumption DEF IInv, Thread, ResultsKept, TypeOK, FlagsFollowLife,
       Delivery, AwaitedNotJoined, Blocked, Args, JoinRefused
  <2>7. Delivery'
    BY <1>4, JoinAssumption DEF IInv, Thread, Delivery, TypeOK, FlagsFollowLife,
       ExclusiveDelivery, ResultsKept, AwaitedNotJoined, Blocked, Args, JoinRefused
  <2>8. ExclusiveDelivery'
    BY <1>4, JoinAssumption DEF IInv, Thread, ExclusiveDelivery, TypeOK, Delivery,
       FlagsFollowLife, AwaitedNotJoined, Blocked, Args, JoinRefused
  <2>. QED  BY <2>1, <2>2, <2>3, <2>4, <2>5, <2>6, <2>7, <2>8 DEF IInv
<1>5. ASSUME NEW t \in Thread, NEW v \in JoinArgs, NEW i \in DOMAIN v, JoinAtOnce(t, v, i)
      PROVE  IInv'
  <2>1. TypeOK'
    BY <1>5, JoinAssumption DEF IInv, Thread, TypeOK, Flag, JoinAtOnce, Calls, Running,
       FirstCompleted, Unavailable
  <2>2. FlagsFollowLife'
    BY <1>5, JoinAssumption DEF IInv, Thread, FlagsFollowLife, TypeOK, Flag, JoinAtOnce,
       Calls, Running, FirstCompleted, Unavailable
  <2>3. MarksMatchWaiters'
    <3>1. \A u \in Thread : Blocked(u)' = Blocked(u) /\ Args(u)' = Args(u)
      BY <1>5 DEF IInv, TypeOK, Blocked, Args, JoinAtOnce, Calls, Running, FirstCompleted, Unavailable
    <3>2. \A x \in Worker : "WANT_TO_JOIN" \in state'[x] <=> "WANT_TO_JOIN" \in state[x]
      BY <1>5 DEF IInv, TypeOK, FlagsFollowLife, JoinAtOnce, Calls, Running, FirstCompleted, Unavailable
    <3>. QED  BY <3>1, <3>2, MarksKept DEF IInv
  <2>4. NoLostWakeup'
    BY <1>5, JoinAssumption DEF IInv, Thread, NoLostWakeup, Blocked, Args, TypeOK,
       FlagsFollowLife, MarksMatchWaiters, JoinAtOnce, Calls, Running, FirstCompleted,
       Unavailable
  <2>5. AwaitedNotJoined'
    <3>1. \A u \in Thread : /\ Args(u)' = Args(u) /\ Args(u) \subseteq Worker
                            /\ Blocked(u)' => Blocked(u)
      BY <1>5 DEF IInv, TypeOK, Args, Blocked, JoinAtOnce
    <3>2. \A u \in Thread : Blocked(u) => v[i] \notin Args(u)
      BY <1>5, JoinAssumption DEF JoinAtOnce, Unavailable, IInv, MarksMatchWaiters
    <3>. QED  BY <1>5, <3>1, <3>2 DEF IInv, TypeOK, AwaitedNotJoined, JoinAtOnce
  <2>6. ResultsKept'
    BY <1>5, JoinAssumption DEF IInv, Thread, ResultsKept, TypeOK, FlagsFollowLife,
       Delivery, AwaitedNotJoined, Blocked, Args, JoinAtOnce, Calls, Running,
       FirstCompleted, Unavailable
  <2>7. Delivery'
    BY <1>5, JoinAssumption DEF IInv, Thread, Delivery, TypeOK, FlagsFollowLife,
       ExclusiveDelivery, ResultsKept, AwaitedNotJoined, Blocked, Args, JoinAtOnce,
       Calls, Running, FirstCompleted, Unavailable
  <2>8. ExclusiveDelivery'
    BY <1>5, JoinAssumption DEF IInv, Thread, ExclusiveDelivery, TypeOK, Delivery,
       FlagsFollowLife, AwaitedNotJoined, Blocked, Args, JoinAtOnce, Calls, Running,
       FirstCompleted, Unavailable
  <2>. QED  BY <2>1, <2>2, <2>3, <2>4, <2>5, <2>6, <2>7, <2>8 DEF IInv
<1>6. ASSUME NEW t \in Thread, NEW v \in JoinArgs, JoinBlocks(t, v)
      PROVE  IInv'
  <2>1. TypeOK'
    BY <1>6, JoinAssumption DEF IInv, Thread, TypeOK, Flag, JoinBlocks, Calls, Running,
       Unavailable
  <2>2. FlagsFollowLife'
    BY <1>6, JoinAssumption DEF IInv, Thread, FlagsFollowLife, TypeOK, Flag, JoinBlocks,
       Calls, Running, Unavailable
  <2>3. MarksMatchWaiters'
    <3>. DEFINE V == {v[k] : k \in DOMAIN v}
    <3>1. Args(t)' = V /\ \A u \in Thread \ {t} : Args(u)' = Args(u)
      BY <1>6 DEF IInv, TypeOK, Args, JoinBlocks
    <3>2. Blocked(t)' /\ ~Blocked(t) /\ \A u \in Thread \ {t} : Blocked(u)' = Blocked(u)
      BY <1>6 DEF IInv, TypeOK, Blocked, JoinBlocks, Calls, Running
    <3>3. \A x \in V : "WANT_TO_JOIN" \notin state[x]
      BY <1>6 DEF JoinBlocks, Unavailable
    <3>4. \A x \in Worker : "WANT_TO_JOIN" \in state'[x] <=> x \in V \/ "WANT_TO_JOIN" \in state[x]
      BY <1>6 DEF JoinBlocks, IInv, TypeOK
    <3>5. V \subseteq Worker
      BY JoinAssumption
    <3>. HIDE DEF V
    <3>. QED  BY <3>1, <3>2, <3>3, <3>4, <3>5 DEF IInv, MarksMatchWaiters
  <2>4. NoLostWakeup'
    BY <1>6, JoinAssumption DEF IInv, Thread, NoLostWakeup, Blocked, Args, TypeOK,
       FlagsFollowLife, MarksMatchWaiters, JoinBlocks, Calls, Running, Unavailable
  <2>5. AwaitedNotJoined'
    BY <1>6, JoinAssumption DEF IInv, Thread, AwaitedNotJoined, Blocked, Args, TypeOK,
       FlagsFollowLife, MarksMatchWaiters, JoinBlocks, Calls, Running, Unavailable
  <2>6. ResultsKept'
    BY <1>6, JoinAssumption DEF IInv, Thread, ResultsKept, TypeOK, FlagsFollowLife,
       Delivery, AwaitedNotJoined, Blocked, Args, JoinBlocks, Calls, Running,
       Unavailable
  <2>7. Delivery'
    BY <1>6, JoinAssumption DEF IInv, Thread, Delivery, TypeOK, FlagsFollowLife,
       ExclusiveDelivery, ResultsKept, AwaitedNotJoined, Blocked, Args, JoinBlocks,
       Calls, Running, Unavailable
  <2>8. ExclusiveDelivery'
    BY <1>6, JoinAssumption DEF IInv, Thread, ExclusiveDelivery, TypeOK, Delivery,
       FlagsFollowLife, AwaitedNotJoined, Blocked, Args, JoinBlocks, Calls, Running,
       Unavailable
  <2>. QED  BY <2>1, <2>2, <2>3, <2>4, <2>5, <2>6, <2>7, <2>8 DEF IInv
<1>7. ASSUME NEW t \in Thread, SpuriousWakeup(t)
      PROVE  IInv'
  <2>1. TypeOK'
    BY <1>7, JoinAssumption DEF IInv, Thread, TypeOK, Flag, SpuriousWakeup
  <2>2. FlagsFollowLife'
    BY <1>7, JoinAssumption DEF IInv, Thread, FlagsFollowLife, TypeOK, Flag,
       SpuriousWakeup
  <2>3. MarksMatchWaiters'
    <3>1. \A u \in Thread : Blocked(u)' = Blocked(u) /\ Args(u)' = Args(u)
      BY <1>7 DEF IInv, TypeOK, Blocked, Args, SpuriousWakeup
    <3>2. \A x \in Worker : "WANT_TO_JOIN" \in state'[x] <=> "WANT_TO_JOIN" \in state[x]
      BY <1>7 DEF IInv, TypeOK, FlagsFollowLife, SpuriousWakeup
    <3>. QED  BY <3>1, <3>2, MarksKept DEF IInv
  <2>4. NoLostWakeup'
    BY <1>7, JoinAssumption DEF IInv, Thread, NoLostWakeup, Blocked, Args, TypeOK,
       FlagsFollowLife, MarksMatchWaiters, SpuriousWakeup
  <2>5. AwaitedNotJoined'
    BY <1>7, JoinAssumption DEF IInv, Thread, AwaitedNotJoined, Blocked, Args, TypeOK,
       FlagsFollowLife, MarksMatchWaiters, SpuriousWakeup
  <2>6. ResultsKept'
    BY <1>7, JoinAssumption DEF IInv, Thread, ResultsKept, TypeOK, FlagsFollowLife,
       Delivery, AwaitedNotJoined, Blocked, Args, SpuriousWakeup
  <2>7. Delivery'
    BY <1>7, JoinAssumption DEF IInv, Thread, Delivery, TypeOK, FlagsFollowLife,
       ExclusiveDelivery, ResultsKept, AwaitedNotJoined, Blocked, Args, SpuriousWakeup
  <2>8. ExclusiveDelivery'
    BY <1>7, JoinAssumption DEF IInv, Thread, ExclusiveDelivery, TypeOK, Delivery,
       FlagsFollowLife, AwaitedNotJoined, Blocked, Args, SpuriousWakeup
  <2>. QED  BY <2>1, <2>2, <2>3, <2>4, <2>5, <2>6, <2>7, <2>8 DEF IInv
<1>8. ASSUME NEW t \in Thread, WaitAgain(t)
      PROVE  IInv'
  <2>1. TypeOK'
    BY <1>8, JoinAssumption DEF IInv, Thread, TypeOK, Flag, WaitAgain
  <2>2. FlagsFollowLife'
    BY <1>8, JoinAssumption DEF IInv, Thread, FlagsFollowLife, TypeOK, Flag, WaitAgain
  <2>3. MarksMatchWaiters'
    <3>1. \A u \in Thread : Blocked(u)' = Blocked(u) /\ Args(u)' = Args(u)
      BY <1>8 DEF IInv, TypeOK, Blocked, Args, WaitAgain
    <3>2. \A x \in Worker : "WANT_TO_JOIN" \in state'[x] <=> "WANT_TO_JOIN" \in state[x]
      BY <1>8 DEF IInv, TypeOK, FlagsFollowLife, WaitAgain
    <3>. QED  BY <3>1, <3>2, MarksKept DEF IInv
  <2>4. NoLostWakeup'
    BY <1>8, JoinAssumption DEF IInv, Thread, NoLostWakeup, Blocked, Args, TypeOK,
       FlagsFollowLife, MarksMatchWaiters, WaitAgain
  <2>5. AwaitedNotJoined'
    BY <1>8, JoinAssumption DEF IInv, Thread, AwaitedNotJoined, Blocked, Args, TypeOK,
       FlagsFollowLife, MarksMatchWaiters, WaitAgain
  <2>6. ResultsKept'
    BY <1>8, JoinAssumption DEF IInv, Thread, ResultsKept, TypeOK, FlagsFollowLife,
       Delivery, AwaitedNotJoined, Blocked, Args, WaitAgain
  <2>7. Delivery'
    BY <1>8, JoinAssumption DEF IInv, Thread, Delivery, TypeOK, FlagsFollowLife,
       ExclusiveDelivery, ResultsKept, AwaitedNotJoined, Blocked, Args, WaitAgain
  <2>8. ExclusiveDelivery'
    BY <1>8, JoinAssumption DEF IInv, Thread, ExclusiveDelivery, TypeOK, Delivery,
       FlagsFollowLife, AwaitedNotJoined, Blocked, Args, WaitAgain
  <2>. QED  BY <2>1, <2>2, <2>3, <2>4, <2>5, <2>6, <2>7, <2>8 DEF IInv
<1>9. ASSUME NEW t \in Thread, NEW i \in DOMAIN vec[t], JoinWoken(t, i)
      PROVE  IInv'
  <2>1. TypeOK'
    BY <1>9, JoinAssumption DEF IInv, Thread, TypeOK, Flag, JoinWoken, Unmarked,
       FirstCompleted
  <2>2. FlagsFollowLife'
    BY <1>9, JoinAssumption DEF IInv, Thread, FlagsFollowLife, TypeOK, Flag, JoinWoken,
       Unmarked, FirstCompleted
  <2>3. MarksMatchWaiters'
    <3>1. \A u \in Thread \ {t} : Args(u)' = Args(u)
      BY <1>9 DEF IInv, TypeOK, Args, JoinWoken
    <3>2. ~Blocked(t)' /\ Blocked(t) /\ \A u \in Thread \ {t} : Blocked(u)' = Blocked(u)
      BY <1>9 DEF IInv, TypeOK, Blocked, JoinWoken
    <3>3. \A x \in Worker : "WANT_TO_JOIN" \in state'[x] <=> x \notin Args(t) /\ "WANT_TO_JOIN" \in state[x]
      BY <1>9 DEF JoinWoken, Unmarked, IInv, TypeOK
    <3>. QED  BY <3>1, <3>2, <3>3 DEF IInv, MarksMatchWaiters
  <2>4. NoLostWakeup'
    BY <1>9, JoinAssumption DEF IInv, Thread, NoLostWakeup, Blocked, Args, TypeOK,
       FlagsFollowLife, MarksMatchWaiters, JoinWoken, Unmarked, FirstCompleted
  <2>5. AwaitedNotJoined'
    <3>1. \A u \in Thread : /\ Blocked(u)' => u # t /\ Blocked(u) /\ Args(u)' = Args(u)
                            /\ Args(u) \subseteq Worker
      BY <1>9 DEF IInv, TypeOK, Args, Blocked, JoinWoken
    <3>2. vec[t][i] \in Args(t) /\ Blocked(t)
      BY <1>9 DEF Args, Blocked, JoinWoken
    <3>. QED  BY <1>9, <3>1, <3>2 DEF IInv, TypeOK, MarksMatchWaiters, AwaitedNotJoined, JoinWoken, Unmarked
  <2>6. ResultsKept'
    BY <1>9, JoinAssumption DEF IInv, Thread, ResultsKept, TypeOK, FlagsFollowLife,
       Delivery, AwaitedNotJoined, Blocked, Args, JoinWoken, Unmarked, FirstCompleted
  <2>7. Delivery'
    BY <1>9, JoinAssumption DEF IInv, Thread, Delivery, TypeOK, FlagsFollowLife,
       ExclusiveDelivery, ResultsKept, AwaitedNotJoined, Blocked, Args, JoinWoken,
       Unmarked, FirstCompleted
  <2>8. ExclusiveDelivery'
    BY <1>9, JoinAssumption DEF IInv, Thread, ExclusiveDelivery, TypeOK, Delivery,
       FlagsFollowLife, AwaitedNotJoined, Blocked, Args, JoinWoken, Unmarked,
       FirstCompleted
  <2>. QED  BY <2>1, <2>2, <2>3, <2>4, <2>5, <2>6, <2>7, <2>8 DEF IInv
<1>10. ASSUME NEW t \in Thread, ReadResults(t)
      PROVE  IInv'
  <2>1. TypeOK'
    BY <1>10, JoinAssumption DEF IInv, Thread, Delivery, TypeOK, Flag, ReadResults
  <2>2. FlagsFollowLife'
    BY <1>10, JoinAssumption DEF IInv, Thread, FlagsFollowLife, TypeOK, Flag,
       ReadResults
  <2>3. MarksMatchWaiters'
    <3>1. \A u \in Thread : Blocked(u)' = Blocked(u) /\ Args(u)' = Args(u)
      BY <1>10 DEF IInv, TypeOK, Blocked, Args, ReadResults
    <3>2. \A x \in Worker : "WANT_TO_JOIN" \in state'[x] <=> "WANT_TO_JOIN" \in state[x]
      BY <1>10 DEF IInv, TypeOK, FlagsFollowLife, ReadResults
    <3>. QED  BY <3>1, <3>2, MarksKept DEF IInv
  <2>4. NoLostWakeup'
    BY <1>10, JoinAssumption DEF IInv, Thread, NoLostWakeup, Blocked, Args, TypeOK,
       FlagsFollowLife, MarksMatchWaiters, ReadResults
  <2>5. AwaitedNotJoined'
    BY <1>10, JoinAssumption DEF IInv, Thread, AwaitedNotJoined, Blocked, Args, TypeOK,
       FlagsFollowLife, MarksMatchWaiters, ReadResults
  <2>6. ResultsKept'
    BY <1>10, JoinAssumption DEF IInv, Thread, ResultsKept, TypeOK, FlagsFollowLife,
       Delivery, AwaitedNotJoined, Blocked, Args, ReadResults
  <2>7. Delivery'
    BY <1>10, JoinAssumption DEF IInv, Thread, Delivery, TypeOK, FlagsFollowLife,
       ExclusiveDelivery, ResultsKept, AwaitedNotJoined, Blocked, Args, ReadResults
  <2>8. ExclusiveDelivery'
    BY <1>10, JoinAssumption DEF IInv, Thread, ExclusiveDelivery, TypeOK, Delivery,
       FlagsFollowLife, AwaitedNotJoined, Blocked, Args, ReadResults
  <2>. QED  BY <2>1, <2>2, <2>3, <2>4, <2>5, <2>6, <2>7, <2>8 DEF IInv
<1>11. ASSUME NEW t \in Thread, DropResults(t)
      PROVE  IInv'
  <2>1. TypeOK'
    BY <1>11, JoinAssumption DEF IInv, Thread, TypeOK, Flag, DropResults
  <2>2. FlagsFollowLife'
    BY <1>11, JoinAssumption DEF IInv, Thread, FlagsFollowLife, TypeOK, Flag,
       DropResults
  <2>3. MarksMatchWaiters'
    <3>1. \A u \in Thread : Blocked(u)' = Blocked(u) /\ Args(u)' = Args(u)
      BY <1>11 DEF IInv, TypeOK, Blocked, Args, DropResults
    <3>2. \A x \in Worker : "WANT_TO_JOIN" \in state'[x] <=> "WANT_TO_JOIN" \in state[x]
      BY <1>11 DEF IInv, TypeOK, FlagsFollowLife, DropResults
    <3>. QED  BY <3>1, <3>2, MarksKept DEF IInv
  <2>4. NoLostWakeup'
    BY <1>11, JoinAssumption DEF IInv, Thread, NoLostWakeup, Blocked, Args, TypeOK,
       FlagsFollowLife, MarksMatchWaiters, DropResults
  <2>5. AwaitedNotJoined'
    BY <1>11, JoinAssumption DEF IInv, Thread, AwaitedNotJoined, Blocked, Args, TypeOK,
       FlagsFollowLife, MarksMatchWaiters, DropResults
  <2>6. ResultsKept'
    BY <1>11, JoinAssumption DEF IInv, Thread, ResultsKept, TypeOK, FlagsFollowLife,
       Delivery, AwaitedNotJoined, Blocked, Args, DropResults
  <2>7. Delivery'
    BY <1>11, JoinAssumption DEF IInv, Thread, Delivery, TypeOK, FlagsFollowLife,
       ExclusiveDelivery, ResultsKept, AwaitedNotJoined, Blocked, Args, DropResults
  <2>8. ExclusiveDelivery'
    BY <1>11, JoinAssumption DEF IInv, Thread, ExclusiveDelivery, TypeOK, Delivery,
       FlagsFollowLife, AwaitedNotJoined, Blocked, Args, DropResults
  <2>. QED  BY <2>1, <2>2, <2>3, <2>4, <2>5, <2>6, <2>7, <2>8 DEF IInv
<1>12. CASE UNCHANGED vars
  <2>1. \A u \in Thread : Blocked(u)' = Blocked(u) /\ Args(u)' = Args(u)
    BY <1>12 DEF vars, Blocked, Args
  <2>2. MarksMatchWaiters'
    BY <1>12, <2>1, MarksKept DEF vars, IInv
  <2>3. /\ TypeOK' /\ FlagsFollowLife' /\ NoLostWakeup' /\ AwaitedNotJoined'
        /\ ResultsKept' /\ Delivery' /\ ExclusiveDelivery'
    BY <1>12, <2>1 DEF vars, IInv, TypeOK, FlagsFollowLife, NoLostWakeup, AwaitedNotJoined,
       ResultsKept, Delivery, ExclusiveDelivery
  <2>. QED  BY <2>2, <2>3 DEF IInv
<1>. QED
  BY <1>1, <1>2, <1>3, <1>4, <1>5, <1>6, <1>7, <1>8, <1>9, <1>10, <1>11, <1>12
     DEF Next, Step

\* The inductive invariant holds of every reachable state.
THEOREM Invariance == Spec => []IInv
BY InitIInv, NextIInv, PTL DEF Spec

\* The thread structures and join-thread's locals are always well typed.
THEOREM TypeCorrect == Spec => []TypeOK
BY Invariance, PTL DEF IInv

\* WANT_TO_JOIN marks exactly the threads that blocked joins wait for, and no
\* thread is waited for by two joins.
THEOREM MarksCorrect == Spec => []MarksMatchWaiters
BY Invariance, PTL DEF IInv

\* A join asleep on thread_exit_event never has a completed argument.
THEOREM WakeupsNotLost == Spec => []NoLostWakeup
BY Invariance, PTL DEF IInv

\* join-thread hands over the values of the function of the joined thread.
THEOREM ValuesDelivered == Spec => []JoinReturnsValues
<1>1. IInv => JoinReturnsValues
  <2>. SUFFICES ASSUME IInv, NEW t \in Thread, pc[t] = "reading"
                PROVE  /\ target[t] \in Worker
                       /\ got[t] = returned[target[t]]
                       /\ got[t] # NoValues
    BY DEF JoinReturnsValues
  <2>1. target[t] \in Worker /\ "JOINED" \in state[target[t]] /\ got[t] = returned[target[t]]
    BY DEF IInv, Delivery
  <2>2. returned[target[t]] # NoValues
    BY <2>1 DEF IInv, FlagsFollowLife, ResultsKept
  <2>. QED  BY <2>1, <2>2
<1>. QED  BY <1>1, Invariance, PTL

-----------------------------------------------------------------------------
(* The refinement.  The four variables of JoinSpec are functions of the    *)
(* runtime's state; the names below are their values.                      *)

Done    == {w \in Worker : life[w] = "exited"}
Taken   == {w \in Worker : "JOINED" \in state[w]}
Pending == [t \in Thread |-> IF Blocked(t) THEN Args(t) ELSE {}]

\* A step that leaves the four values alone is a stuttering step of JoinSpec.
LEMMA Stutter ==
  ASSUME Done' = Done, Taken' = Taken, Pending' = Pending, outcome' = outcome
  PROVE  UNCHANGED Abstract!vars
BY DEF Abstract!vars, Done, Taken, Pending

\* The error test of the primitives is the refusal condition of JoinSpec.
LEMMA UnavailableIsClaimed ==
  ASSUME IInv, NEW w \in Worker PROVE Unavailable(w) <=> Abstract!Claimed(w)
<1>1. "WANT_TO_JOIN" \in state[w] <=> \E t \in Thread : Blocked(t) /\ w \in Args(t)
  BY DEF IInv, MarksMatchWaiters
<1>2. Abstract!Claimed(w) <=> \/ "JOINED" \in state[w]
                             \/ \E t \in Thread : Blocked(t) /\ w \in Args(t)
  BY DEF Abstract!Claimed
<1>. QED  BY <1>1, <1>2 DEF Unavailable

\* Every step of the runtime is a step of JoinSpec or leaves its state alone.
LEMMA RefinementStep == IInv /\ [Next]_vars => [Abstract!Next]_(Abstract!vars)
<1>. SUFFICES ASSUME IInv, [Next]_vars PROVE [Abstract!Next]_(Abstract!vars)
  OBVIOUS
<1>1. ASSUME NEW t \in Thread, NEW w \in Worker, MakeThread(t, w)
      PROVE  UNCHANGED Abstract!vars
  <2>1. \A u \in Thread : Blocked(u)' = Blocked(u) /\ Args(u)' = Args(u)
    BY <1>1 DEF IInv, TypeOK, Blocked, Args, MakeThread
  <2>2. Done' = Done /\ Taken' = Taken /\ outcome' = outcome
    BY <1>1 DEF IInv, TypeOK, FlagsFollowLife, Done, Taken, MakeThread
  <2>3. Pending' = Pending
    BY <2>1 DEF Pending
  <2>. QED  BY <2>2, <2>3, Stutter
<1>2. ASSUME NEW w \in Worker, NEW v \in Value, FunctionReturns(w, v)
      PROVE  UNCHANGED Abstract!vars
  <2>1. \A u \in Thread : Blocked(u)' = Blocked(u) /\ Args(u)' = Args(u)
    BY <1>2 DEF IInv, TypeOK, Blocked, Args, FunctionReturns, Running
  <2>2. Done' = Done /\ Taken' = Taken /\ outcome' = outcome
    BY <1>2, JoinAssumption DEF IInv, TypeOK, FlagsFollowLife, Done, Taken, FunctionReturns, Running
  <2>3. Pending' = Pending
    BY <2>1 DEF Pending
  <2>. QED  BY <2>2, <2>3, Stutter
<1>3. ASSUME NEW w \in Worker, Exit(w)
      PROVE  Abstract!Next
  <2>1. \A u \in Thread : Blocked(u)' = Blocked(u) /\ Args(u)' = Args(u)
    BY <1>3 DEF IInv, TypeOK, Blocked, Args, Exit, Broadcast
  <2>2. Done' = Done \cup {w} /\ Taken' = Taken /\ outcome' = outcome
    BY <1>3 DEF IInv, TypeOK, Done, Taken, Exit
  <2>3. Pending' = Pending
    BY <2>1 DEF Pending
  <2>4. Abstract!Complete(w)
    BY <2>2, <2>3 DEF Abstract!Complete, Done, Taken, Pending
  <2>. QED  BY <2>4 DEF Abstract!Next
<1>4. ASSUME NEW t \in Thread, NEW v \in JoinArgs, JoinRefused(t, v)
      PROVE  Abstract!Next
  <2>. DEFINE S == {v[k] : k \in DOMAIN v}
  <2>1. PICK k \in DOMAIN v : Unavailable(v[k])
    BY <1>4 DEF JoinRefused
  <2>2. v[k] \in S /\ S \subseteq Worker /\ Abstract!Claimed(v[k])
    BY <2>1, UnavailableIsClaimed, JoinAssumption
  <2>3. Pending[t] = {}
    BY <1>4 DEF JoinRefused, Calls, Running, Pending, Blocked
  <2>4. /\ Done' = Done /\ Taken' = Taken /\ Pending' = Pending
        /\ outcome' = [outcome EXCEPT ![t] = "error"]
    BY <1>4 DEF JoinRefused, Done, Taken, Pending, Blocked, Args
  <2>5. Abstract!Refuse(t, S)
    BY <2>2, <2>3, <2>4 DEF Abstract!Refuse, Done, Taken, Pending
  <2>. QED  BY <2>2, <2>5 DEF Abstract!Next
<1>5. ASSUME NEW t \in Thread, NEW v \in JoinArgs, NEW i \in DOMAIN v, JoinAtOnce(t, v, i)
      PROVE  Abstract!Next
  <2>. DEFINE S == {v[k] : k \in DOMAIN v}
  <2>1. S \subseteq Worker /\ v[i] \in S /\ v[i] \in Worker
    BY JoinAssumption
  <2>2. \A x \in S : ~Abstract!Claimed(x)
    BY <1>5, <2>1, UnavailableIsClaimed DEF JoinAtOnce
  <2>3. Pending[t] = {} /\ v[i] \in Done
    BY <1>5, <2>1 DEF JoinAtOnce, Calls, Running, Pending, Blocked, Done, FirstCompleted,
       IInv, FlagsFollowLife
  <2>4. \A u \in Thread : Blocked(u)' = Blocked(u) /\ Args(u)' = Args(u)
    BY <1>5 DEF IInv, TypeOK, Blocked, Args, JoinAtOnce, Calls, Running
  <2>5. /\ Done' = Done /\ Taken' = Taken \cup {v[i]}
        /\ outcome' = [outcome EXCEPT ![t] = "joined"]
    BY <1>5, <2>1 DEF JoinAtOnce, Done, Taken, IInv, TypeOK
  <2>6. Pending' = Pending
    BY <2>4 DEF Pending
  <2>7. Abstract!AcceptAndTake(t, S, v[i])
    BY <2>1, <2>2, <2>3, <2>5, <2>6 DEF Abstract!AcceptAndTake, Done, Taken, Pending
  <2>. QED  BY <2>1, <2>7 DEF Abstract!Next
<1>6. ASSUME NEW t \in Thread, NEW v \in JoinArgs, JoinBlocks(t, v)
      PROVE  Abstract!Next
  <2>. DEFINE S == {v[k] : k \in DOMAIN v}
  <2>1. S \subseteq Worker
    BY JoinAssumption
  <2>2. \A x \in S : ~Abstract!Claimed(x)
    BY <1>6, <2>1, UnavailableIsClaimed DEF JoinBlocks
  <2>3. Pending[t] = {}
    BY <1>6 DEF JoinBlocks, Calls, Running, Pending, Blocked
  <2>4. /\ Blocked(t)' /\ Args(t)' = S
        /\ \A u \in Thread \ {t} : Blocked(u)' = Blocked(u) /\ Args(u)' = Args(u)
    BY <1>6 DEF IInv, TypeOK, Blocked, Args, JoinBlocks
  <2>5. /\ Done' = Done /\ Taken' = Taken
        /\ outcome' = [outcome EXCEPT ![t] = "none"]
    BY <1>6 DEF JoinBlocks, Done, Taken, IInv, TypeOK
  <2>6. Pending' = [Pending EXCEPT ![t] = S]
    BY <2>4 DEF Pending
  <2>7. Abstract!Accept(t, S)
    BY <2>2, <2>3, <2>5, <2>6 DEF Abstract!Accept, Done, Taken, Pending
  <2>. QED  BY <2>1, <2>7 DEF Abstract!Next
<1>7. ASSUME NEW t \in Thread, SpuriousWakeup(t)
      PROVE  UNCHANGED Abstract!vars
  <2>1. \A u \in Thread : Blocked(u)' = Blocked(u) /\ Args(u)' = Args(u)
    BY <1>7 DEF IInv, TypeOK, Blocked, Args, SpuriousWakeup
  <2>2. Done' = Done /\ Taken' = Taken /\ outcome' = outcome
    BY <1>7 DEF IInv, TypeOK, FlagsFollowLife, Done, Taken, SpuriousWakeup
  <2>3. Pending' = Pending
    BY <2>1 DEF Pending
  <2>. QED  BY <2>2, <2>3, Stutter
<1>8. ASSUME NEW t \in Thread, WaitAgain(t)
      PROVE  UNCHANGED Abstract!vars
  <2>1. \A u \in Thread : Blocked(u)' = Blocked(u) /\ Args(u)' = Args(u)
    BY <1>8 DEF IInv, TypeOK, Blocked, Args, WaitAgain
  <2>2. Done' = Done /\ Taken' = Taken /\ outcome' = outcome
    BY <1>8 DEF IInv, TypeOK, FlagsFollowLife, Done, Taken, WaitAgain
  <2>3. Pending' = Pending
    BY <2>1 DEF Pending
  <2>. QED  BY <2>2, <2>3, Stutter
<1>9. ASSUME NEW t \in Thread, NEW i \in DOMAIN vec[t], JoinWoken(t, i)
      PROVE  Abstract!Next
  <2>0. PICK w \in Worker : w = vec[t][i]
    BY DEF IInv, TypeOK
  <2>1. w \in Args(t) /\ Blocked(t)
    BY <1>9, <2>0 DEF IInv, TypeOK, Args, Blocked, JoinWoken
  <2>2. w \in Pending[t] /\ w \in Done
    BY <1>9, <2>0, <2>1 DEF JoinWoken, FirstCompleted, Pending, Done, IInv, FlagsFollowLife
  <2>3. /\ ~Blocked(t)'
        /\ \A u \in Thread \ {t} : Blocked(u)' = Blocked(u) /\ Args(u)' = Args(u)
    BY <1>9 DEF IInv, TypeOK, Blocked, Args, JoinWoken
  <2>4. /\ Done' = Done /\ Taken' = Taken \cup {w}
        /\ outcome' = [outcome EXCEPT ![t] = "joined"]
    BY <1>9, <2>0, <2>1 DEF JoinWoken, Unmarked, Done, Taken, IInv, TypeOK
  <2>5. Pending' = [Pending EXCEPT ![t] = {}]
    BY <2>3 DEF Pending
  <2>6. Abstract!Take(t, w)
    BY <2>2, <2>4, <2>5 DEF Abstract!Take, Done, Taken, Pending
  <2>. QED  BY <2>6 DEF Abstract!Next
<1>10. ASSUME NEW t \in Thread, ReadResults(t)
      PROVE  UNCHANGED Abstract!vars
  <2>1. \A u \in Thread : Blocked(u)' = Blocked(u) /\ Args(u)' = Args(u)
    BY <1>10 DEF IInv, TypeOK, Blocked, Args, ReadResults
  <2>2. Done' = Done /\ Taken' = Taken /\ outcome' = outcome
    BY <1>10 DEF IInv, TypeOK, FlagsFollowLife, Done, Taken, ReadResults
  <2>3. Pending' = Pending
    BY <2>1 DEF Pending
  <2>. QED  BY <2>2, <2>3, Stutter
<1>11. ASSUME NEW t \in Thread, DropResults(t)
      PROVE  UNCHANGED Abstract!vars
  <2>1. \A u \in Thread : Blocked(u)' = Blocked(u) /\ Args(u)' = Args(u)
    BY <1>11 DEF IInv, TypeOK, Blocked, Args, DropResults
  <2>2. Done' = Done /\ Taken' = Taken /\ outcome' = outcome
    BY <1>11 DEF IInv, TypeOK, FlagsFollowLife, Done, Taken, DropResults
  <2>3. Pending' = Pending
    BY <2>1 DEF Pending
  <2>. QED  BY <2>2, <2>3, Stutter
<1>12. CASE UNCHANGED vars
  BY <1>12, Stutter DEF vars, Done, Taken, Pending, Blocked, Args
<1>. QED
  BY <1>1, <1>2, <1>3, <1>4, <1>5, <1>6, <1>7, <1>8, <1>9, <1>10, <1>11, <1>12
     DEF Next, Step

\* The runtime's join implements JoinSpec: calls are refused exactly when they
\* should be, and a thread is handed to one join only.
THEOREM Refinement == Spec => ImplementsJoinSpec
<1>1. Init => Abstract!Init
  BY DEF Init, Abstract!Init, Blocked
<1>. QED  BY <1>1, RefinementStep, Invariance, PTL DEF Spec, ImplementsJoinSpec, Abstract!Spec
=============================================================================
