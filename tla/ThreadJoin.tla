----------------------------- MODULE ThreadJoin -----------------------------
(***************************************************************************)
(* Thread creation, exit and join in the LLVM runtime                      *)
(* (lib/run-time/llvm-posix-threads.c) together with the Dylan code above  *)
(* it (dylan/thread.dylan): a thread stores the values of its function,    *)
(* marks itself COMPLETED under thread_join_lock and broadcasts            *)
(* thread_exit_event; join-thread waits for one of several threads under   *)
(* the same lock, and then, outside the lock, reads and drops the values.  *)
(*                                                                         *)
(* A critical section of thread_join_lock contains no other blocking call, *)
(* so it is one action; pthread_cond_wait splits it.  A caller inside      *)
(* pthread_cond_wait is "waiting" until the broadcast, or a spurious       *)
(* wakeup, makes it "woken", contending for the lock.                      *)
(***************************************************************************)
EXTENDS Integers, Sequences

CONSTANTS Main,       \* the first thread; it is never joined and never exits
          Worker,     \* the <thread> objects the program can make
          JoinArgs,   \* the argument vectors the program passes to join-thread
          Value,      \* what a thread's function can return
          NoValues    \* #[], the empty function-results vector

ASSUME JoinAssumption == /\ Main \notin Worker
                         /\ JoinArgs \subseteq Seq(Worker) \ {<<>>}
                         /\ NoValues \notin Value

VARIABLES life,     \* life[w]: how far the trampoline of w has come
          state,    \* state[w]: the flags of the THREAD structure of w
          results,  \* results[w]: the function-results slot
          returned, \* history: what w's function returned
          pc,       \* pc[t]: where t stands in join-thread
          vec,      \* vec[t]: the threads a blocked join-thread of t was given
          target,   \* target[t]: joined_thread of t's join, Main outside one
          outcome,  \* outcome[t]: how t's last join ended
          got       \* got[t]: the values t's join has read

vars == <<life, state, results, returned, pc, vec, target, outcome, got>>

Thread == Worker \cup {Main}
Flag == {"COMPLETED", "WANT_TO_JOIN", "JOINED"}

Init == /\ life = [w \in Worker |-> "unmade"]
        /\ state = [w \in Worker |-> {}]
        /\ results = [w \in Worker |-> NoValues]
        /\ returned = [w \in Worker |-> NoValues]
        /\ pc = [t \in Thread |-> "running"]
        /\ vec = [t \in Thread |-> <<>>]
        /\ target = [t \in Thread |-> Main]
        /\ outcome = [t \in Thread |-> "none"]
        /\ got = [t \in Thread |-> NoValues]

\* t is executing program code: it is the main thread or inside its function.
Running(t) == /\ t # Main => life[t] = "started"
              /\ pc[t] = "running"

Args(t) == {vec[t][i] : i \in DOMAIN vec[t]}
Blocked(t) == pc[t] \in {"waiting", "woken"}

-----------------------------------------------------------------------------
(* The trampoline.                                                         *)

\* make(<thread>).  A failing pthread_create leaves no thread object behind.
MakeThread(t, w) == /\ Running(t)
                    /\ life[w] = "unmade"
                    /\ life' = [life EXCEPT ![w] = "started"]
                    /\ state' = [state EXCEPT ![w] = {}]
                    /\ UNCHANGED <<results, returned, pc, vec, target, outcome, got>>

\* The Dylan trampoline stores the function's values before it returns to C.
FunctionReturns(w, v) ==
  /\ w \in Worker /\ Running(w)
  /\ life' = [life EXCEPT ![w] = "returned"]
  /\ results' = [results EXCEPT ![w] = v]
  /\ returned' = [returned EXCEPT ![w] = v]
  /\ UNCHANGED <<state, pc, vec, target, outcome, got>>

\* pthread_cond_broadcast on thread_exit_event.
Broadcast_one == LET W == {t \in Thread : pc[t] = "waiting"}
                 IN  IF W = {} THEN pc
                     ELSE [pc EXCEPT ![CHOOSE t \in W : TRUE] = "woken"]
Broadcast == [t \in Thread |-> IF pc[t] = "waiting" THEN "woken" ELSE pc[t]]

Exit_unordered(w) == /\ life[w] \in {"started", "returned"}
                     /\ life' = [life EXCEPT ![w] = "exited"]
                     /\ state' = [state EXCEPT ![w] = @ \cup {"COMPLETED"}]
                     /\ pc' = Broadcast
                     /\ UNCHANGED <<results, returned, vec, target, outcome, got>>

Exit(w) == /\ life[w] = "returned"
           /\ life' = [life EXCEPT ![w] = "exited"]
           /\ state' = [state EXCEPT ![w] = @ \cup {"COMPLETED"}]
           /\ pc' = Broadcast
           /\ UNCHANGED <<results, returned, vec, target, outcome, got>>

-----------------------------------------------------------------------------
(* join-thread.  primitive_thread_join_single is the multiple join of one  *)
(* thread: it makes the same tests and leaves the same flags.              *)

\* The error test of a join, made for every argument before any is marked.
Unavailable_wanted(w) == "WANT_TO_JOIN" \in state[w]
Unavailable(w) == state[w] \cap {"WANT_TO_JOIN", "JOINED"} # {}

\* A call of join-thread: the threads passed are objects that were made.
Calls(t, v) == Running(t) /\ \A i \in DOMAIN v : life[v[i]] # "unmade"

\* The position the loops over the vector stop at.
FirstCompleted(v, i) == /\ "COMPLETED" \in state[v[i]]
                        /\ \A k \in 1 .. i - 1 : "COMPLETED" \notin state[v[k]]

JoinRefused(t, v) ==
  /\ Calls(t, v)
  /\ \E i \in DOMAIN v : Unavailable(v[i])
  /\ outcome' = [outcome EXCEPT ![t] = "error"]
  /\ UNCHANGED <<life, state, results, returned, pc, vec, target, got>>

\* The marking loop meets a completed thread: WANT_TO_JOIN was set only on
\* the threads before it, and is removed again before the lock is released.
JoinAtOnce(t, v, i) ==
  /\ Calls(t, v)
  /\ \A k \in DOMAIN v : ~Unavailable(v[k])
  /\ FirstCompleted(v, i)
  /\ state' = [state EXCEPT ![v[i]] = @ \cup {"JOINED"}]
  /\ pc' = [pc EXCEPT ![t] = "joined"]
  /\ target' = [target EXCEPT ![t] = v[i]]
  /\ outcome' = [outcome EXCEPT ![t] = "joined"]
  /\ UNCHANGED <<life, results, returned, vec, got>>

JoinBlocks_untested(t, v) ==
  /\ Calls(t, v)
  /\ \A k \in DOMAIN v : ~Unavailable(v[k])
  /\ state' = [w \in Worker |-> IF \E k \in DOMAIN v : v[k] = w
                                THEN state[w] \cup {"WANT_TO_JOIN"} ELSE state[w]]
  /\ pc' = [pc EXCEPT ![t] = "waiting"]
  /\ vec' = [vec EXCEPT ![t] = v]
  /\ outcome' = [outcome EXCEPT ![t] = "none"]
  /\ UNCHANGED <<life, results, returned, target, got>>

JoinBlocks(t, v) ==
  /\ Calls(t, v)
  /\ \A k \in DOMAIN v : /\ ~Unavailable(v[k])
                         /\ "COMPLETED" \notin state[v[k]]
  /\ state' = [w \in Worker |-> IF \E k \in DOMAIN v : v[k] = w
                                THEN state[w] \cup {"WANT_TO_JOIN"} ELSE state[w]]
  /\ pc' = [pc EXCEPT ![t] = "waiting"]
  /\ vec' = [vec EXCEPT ![t] = v]
  /\ outcome' = [outcome EXCEPT ![t] = "none"]
  /\ UNCHANGED <<life, results, returned, target, got>>

\* POSIX allows pthread_cond_wait to return without a broadcast.
SpuriousWakeup(t) == /\ pc[t] = "waiting"
                     /\ pc' = [pc EXCEPT ![t] = "woken"]
                     /\ UNCHANGED <<life, state, results, returned, vec, target, outcome, got>>

WaitAgain(t) == /\ pc[t] = "woken"
                /\ \A w \in Args(t) : "COMPLETED" \notin state[w]
                /\ pc' = [pc EXCEPT ![t] = "waiting"]
                /\ UNCHANGED <<life, state, results, returned, vec, target, outcome, got>>

\* Removes WANT_TO_JOIN from every argument, as both primitives do at the end.
Unmarked_target(t, w) == IF \E i \in DOMAIN vec[t] : FirstCompleted(vec[t], i) /\ vec[t][i] = w
                         THEN state[w] \ {"WANT_TO_JOIN"} ELSE state[w]
Unmarked(t, w) == IF w \in Args(t) THEN state[w] \ {"WANT_TO_JOIN"} ELSE state[w]

JoinWoken(t, i) ==
  /\ pc[t] = "woken"
  /\ FirstCompleted(vec[t], i)
  /\ state' = [w \in Worker |-> Unmarked(t, w) \cup
                                (IF w = vec[t][i] THEN {"JOINED"} ELSE {})]
  /\ pc' = [pc EXCEPT ![t] = "joined"]
  /\ target' = [target EXCEPT ![t] = vec[t][i]]
  /\ outcome' = [outcome EXCEPT ![t] = "joined"]
  /\ vec' = [vec EXCEPT ![t] = <<>>]
  /\ UNCHANGED <<life, results, returned, got>>

\* Outside the lock: let thread-values = joined-thread.function-results ...
ReadResults_thread(t) == /\ pc[t] = "joined"
                         /\ got' = [got EXCEPT ![t] = target[t]]
                         /\ pc' = [pc EXCEPT ![t] = "reading"]
                         /\ UNCHANGED <<life, state, results, returned, vec, target, outcome>>

ReadResults(t) == /\ pc[t] = "joined"
                  /\ got' = [got EXCEPT ![t] = results[target[t]]]
                  /\ pc' = [pc EXCEPT ![t] = "reading"]
                  /\ UNCHANGED <<life, state, results, returned, vec, target, outcome>>

\* ... and joined-thread.function-results := #[]; then the locals are dead.
DropResults(t) == /\ pc[t] = "reading"
                  /\ results' = [results EXCEPT ![target[t]] = NoValues]
                  /\ pc' = [pc EXCEPT ![t] = "running"]
                  /\ target' = [target EXCEPT ![t] = Main]
                  /\ got' = [got EXCEPT ![t] = NoValues]
                  /\ UNCHANGED <<life, state, returned, vec, outcome>>

-----------------------------------------------------------------------------
\* What t does by itself once it is inside join-thread and awake.
Step(t) == \/ WaitAgain(t)
           \/ \E i \in DOMAIN vec[t] : JoinWoken(t, i)
           \/ ReadResults(t)
           \/ DropResults(t)

Next == \/ \E t \in Thread, w \in Worker : MakeThread(t, w)
        \/ \E w \in Worker, v \in Value : FunctionReturns(w, v)
        \/ \E w \in Worker : Exit(w)
        \/ \E t \in Thread, v \in JoinArgs :
              \/ JoinRefused(t, v)
              \/ \E i \in DOMAIN v : JoinAtOnce(t, v, i)
              \/ JoinBlocks(t, v)
        \/ \E t \in Thread : SpuriousWakeup(t) \/ Step(t)

\* The operating system runs every thread that is not blocked.  Nothing makes
\* a thread call join-thread or return from its function.
Fairness == /\ \A w \in Worker : WF_vars(Exit(w))
            /\ \A t \in Thread : WF_vars(Step(t))

Spec == Init /\ [][Next]_vars
FairSpec == Spec /\ Fairness

-----------------------------------------------------------------------------
(* Properties.                                                             *)

\* Type correctness of the thread structures and of join-thread's locals.
TypeOK == /\ life \in [Worker -> {"unmade", "started", "returned", "exited"}]
          /\ state \in [Worker -> SUBSET Flag]
          /\ results \in [Worker -> Value \cup {NoValues}]
          /\ returned \in [Worker -> Value \cup {NoValues}]
          /\ pc \in [Thread -> {"running", "waiting", "woken", "joined", "reading"}]
          /\ vec \in [Thread -> Seq(Worker)]
          /\ target \in [Thread -> Thread]
          /\ outcome \in [Thread -> {"none", "error", "joined"}]
          /\ got \in [Thread -> Value \cup {NoValues}]

\* WANT_TO_JOIN is set exactly on the threads some blocked join was given, and
\* two blocked joins never share a thread: a flag left behind by an early exit
\* of primitive_thread_join_multiple would make a thread impossible to join.
MarksMatchWaiters ==
  /\ \A w \in Worker : "WANT_TO_JOIN" \in state[w] <=>
                         \E t \in Thread : Blocked(t) /\ w \in Args(t)
  /\ \A t, u \in Thread : t # u /\ Blocked(t) /\ Blocked(u) => Args(t) \cap Args(u) = {}

\* No lost wakeup: a join asleep on thread_exit_event has no completed thread
\* among its arguments, whichever way exit and join interleave.
NoLostWakeup == \A t \in Thread : pc[t] = "waiting" =>
                   \A w \in Args(t) : "COMPLETED" \notin state[w]

\* join-thread returns the values of the function of the thread it joined, even
\* though it reads and drops function-results after leaving the join lock.
JoinReturnsValues == \A t \in Thread : pc[t] = "reading" =>
                        /\ target[t] \in Worker
                        /\ got[t] = returned[target[t]]
                        /\ got[t] # NoValues

\* A join never stays blocked once one of the threads it waits for has exited,
\* given that the operating system schedules runnable threads.
JoinTerminates == \A t \in Thread :
   (Blocked(t) /\ \E w \in Args(t) : life[w] = "exited") ~> (pc[t] = "running")

\* join-thread implements its abstract promise: a join is refused exactly when
\* some argument is being joined or has been, and a thread is joined only once.
Abstract == INSTANCE JoinSpec WITH
  Caller  <- Thread,
  done    <- {w \in Worker : life[w] = "exited"},
  taken   <- {w \in Worker : "JOINED" \in state[w]},
  pending <- [t \in Thread |-> IF Blocked(t) THEN Args(t) ELSE {}]
ImplementsJoinSpec == Abstract!Spec
=============================================================================
