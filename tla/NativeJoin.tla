----------------------------- MODULE NativeJoin ------------------------------
(***************************************************************************)
(* Threads and join in the runtimes of the C and HARP back ends.  posix    *)
(* detaches its threads and keeps flags in handle1 under thread_join_lock; *)
(* unix and windows leave the join to the kernel, on the handle in handle1.*)
(***************************************************************************)
EXTENDS NativeThreads

CONSTANT JoinBound  \* the threads a join-multiple names at most, repetitions counted

ASSUME JoinBoundAssumption == JoinBound \in Nat

VARIABLES life,     \* what has become of each thread
          handle1,  \* posix: its flags; unix, windows: what its handle names
          synchro,  \* windows: threads made with synchronize
          goAhead,  \* windows: threads whose events[1] is signalled
          jpc,      \* where each thread is in a join
          want,     \* posix: the vector of threads it waits for
          joinLock, \* posix: the holder of thread_join_lock
          joined,   \* pairs <<joiner, thread>> of the joins that returned
          evenly    \* posix: threads a join that returned had named an even number of times

joinVars == <<life, handle1, synchro, goAhead, jpc, want, joinLock, joined, evenly>>

InitJoin ==
  /\ life = [t \in Threads |-> "unborn"]
  /\ handle1 = [t \in Threads |-> IF Posix THEN {} ELSE "null"]
  /\ synchro = {} /\ goAhead = {}
  /\ jpc = [t \in Threads |-> "dylan"]
  /\ want = [t \in Threads |-> <<>>]
  /\ joinLock = NoThread
  /\ joined = {} /\ evenly = {}

Active(t) == life[t] = "running" /\ jpc[t] = "dylan"
Live(t, l) == life' = [life EXCEPT ![t] = l]
JGoto(t, l) == jpc' = [jpc EXCEPT ![t] = l]
SetHandle(t, h) == handle1' = [handle1 EXCEPT ![t] = h]

------------------------------------------------------------------------------
(* The first thread is there before Dylan is: initialize-special-thread.    *)

SpecialThread(t, h) ==
  /\ \A u \in Threads : life[u] = "unborn"
  /\ SetHandle(t, h) /\ Live(t, "running")
  /\ UNCHANGED <<synchro, goAhead, jpc, want, joinLock, joined, evenly>>

PosixInitializeSpecialThread(t) == Posix /\ SpecialThread(t, {})
UnixInitializeSpecialThread(t) == Unix /\ SpecialThread(t, "thread")
WindowsInitializeSpecialThread(t) == Windows /\ SpecialThread(t, "thread")

(* make-thread, by a running thread p, and the start of the thread made.    *)

PosixMakeThread(p, t) ==
  /\ Posix /\ Active(p) /\ life[t] = "unborn"
  /\ SetHandle(t, {}) /\ Live(t, "running")
  /\ UNCHANGED <<synchro, goAhead, jpc, want, joinLock, joined, evenly>>

(* pthread_create stores the handle before or after the child runs; the     *)
(* child stores it too.                                                     *)
UnixMakeThread(p, t) ==
  /\ Unix /\ Active(p) /\ life[t] = "unborn"
  /\ SetHandle(t, "thread") /\ Live(t, "running")
  /\ UNCHANGED <<synchro, goAhead, jpc, want, joinLock, joined, evenly>>

(* Without synchronize the thread is made suspended, its handle stored and  *)
(* the thread resumed.  With it, the creator waits until the child has put  *)
(* events[1] in its handle slot and signalled events[0].                    *)
WindowsMakeThread(p, t) ==
  /\ Windows /\ Active(p) /\ life[t] = "unborn"
  /\ \/ SetHandle(t, "thread") /\ Live(t, "running") /\ UNCHANGED synchro
     \/ SetHandle(t, "event") /\ Live(t, "held") /\ synchro' = synchro \cup {t}
  /\ UNCHANGED <<goAhead, jpc, want, joinLock, joined, evenly>>

(* The debugger signals events[1].                                          *)
DebuggerGoAhead(t) ==
  /\ life[t] = "held" /\ t \notin goAhead
  /\ goAhead' = goAhead \cup {t}
  /\ UNCHANGED <<life, handle1, synchro, jpc, want, joinLock, joined, evenly>>

(* The child's wait resets events[1]; only then has it a handle to wait for.*)
WindowsInitializeCurrentThread(t) ==
  /\ life[t] = "held" /\ t \in goAhead
  /\ goAhead' = goAhead \ {t}
  /\ SetHandle(t, "thread") /\ Live(t, "running")
  /\ UNCHANGED <<synchro, jpc, want, joinLock, joined, evenly>>

(* Mutant: the flag is set and nobody is woken.                             *)
PosixTrampoline_quiet(t) ==
  /\ Posix /\ Active(t) /\ joinLock = NoThread
  /\ SetHandle(t, handle1[t] \cup {"COMPLETED"}) /\ Live(t, "done")
  /\ UNCHANGED <<synchro, goAhead, jpc, want, joinLock, joined, evenly>>

(* The trampoline returns.  posix flags the thread under the lock and wakes *)
(* every joiner.                                                            *)
PosixTrampoline(t) ==
  /\ Posix /\ Active(t) /\ joinLock = NoThread
  /\ SetHandle(t, handle1[t] \cup {"COMPLETED"}) /\ Live(t, "done")
  /\ jpc' = [u \in Threads |-> IF jpc[u] = "asleep" THEN "awake" ELSE jpc[u]]
  /\ UNCHANGED <<synchro, goAhead, want, joinLock, joined, evenly>>

EndThread(t) ==
  /\ Active(t) /\ Live(t, "done")
  /\ UNCHANGED <<handle1, synchro, goAhead, jpc, want, joinLock, joined, evenly>>

UnixTrampolineBody(t) == Unix /\ EndThread(t)
WindowsTrampolineBody(t) == Windows /\ EndThread(t)

------------------------------------------------------------------------------
(* posix: both joins look at the flags under the lock and sleep until one   *)
(* of their threads has completed.  The threads come as a vector, in which  *)
(* join-thread lets its caller name one more than once.                     *)

Vectors == UNION {[1..n -> Threads] : n \in 2..JoinBound}
Named(v) == {v[i] : i \in DOMAIN v}
Odd(v, w) == Cardinality({i \in DOMAIN v : v[i] = w}) % 2 = 1

Duplicate(v) == \E w \in Named(v) : handle1[w] \cap {"MARKED", "JOINED"} # {}

Marked(v) == [u \in Threads |-> IF u \in Named(v) THEN handle1[u] \cup {"MARKED"} ELSE handle1[u]]

(* The first completed thread of the vector is joined.  The last loop flips *)
(* the mark once for every time the vector names a thread.                  *)
FinishOrSleep(t, v) ==
  \/ \E i \in DOMAIN v :
       /\ "COMPLETED" \in handle1[v[i]]
       /\ \A j \in 1..(i - 1) : "COMPLETED" \notin handle1[v[j]]
       /\ handle1' = [u \in Threads |->
                        (Marked(v)[u] \ (IF Odd(v, u) THEN {"MARKED"} ELSE {}))
                          \cup (IF u = v[i] THEN {"JOINED"} ELSE {})]
       /\ joined' = joined \cup {<<t, v[i]>>}
       /\ evenly' = evenly \cup {u \in Named(v) : ~Odd(v, u)}
       /\ want' = [want EXCEPT ![t] = <<>>]
       /\ JGoto(t, "dylan")
  \/ /\ \A w \in Named(v) : "COMPLETED" \notin handle1[w]
     /\ handle1' = Marked(v)
     /\ want' = [want EXCEPT ![t] = v]
     /\ JGoto(t, "asleep")
     /\ UNCHANGED <<joined, evenly>>

StartJoin(t, v) ==
  /\ Posix /\ Active(t) /\ joinLock = NoThread
  /\ \A w \in Named(v) : life[w] # "unborn"
  /\ UNCHANGED <<life, synchro, goAhead>>

PosixJoinSingle(t, w) ==
  /\ StartJoin(t, <<w>>)
  /\ IF Duplicate(<<w>>) THEN UNCHANGED <<handle1, jpc, want, joined, evenly>>
                         ELSE FinishOrSleep(t, <<w>>)
  /\ UNCHANGED joinLock

(* The error return of join-multiple leaves the lock taken.                 *)
PosixJoinMultiple(t, v) ==
  /\ StartJoin(t, v)
  /\ IF Duplicate(v)
       THEN joinLock' = t /\ UNCHANGED <<handle1, jpc, want, joined, evenly>>
       ELSE FinishOrSleep(t, v) /\ UNCHANGED joinLock

PosixJoinWake(t) ==
  /\ jpc[t] = "awake" /\ joinLock = NoThread
  /\ FinishOrSleep(t, want[t])
  /\ UNCHANGED <<life, synchro, goAhead, joinLock>>

------------------------------------------------------------------------------
(* unix: pthread_join, then the handle is forgotten; join-multiple joins    *)
(* the first thread of the vector.  A second join finds no handle.          *)

KernelJoin(t, w) ==
  /\ Unix /\ Active(t)
  /\ handle1[w] = "thread" /\ life[w] = "done"
  /\ SetHandle(w, "null")
  /\ joined' = joined \cup {<<t, w>>}
  /\ UNCHANGED <<life, synchro, goAhead, jpc, want, joinLock, evenly>>

UnixJoinSingle(t, w) == KernelJoin(t, w)
UnixJoinMultiple(t, v) == KernelJoin(t, v[1])

(* windows: WaitForSingleObject or WaitForMultipleObjects on whatever the   *)
(* handles name; the handle of an ended thread stays signalled, the event   *)
(* of a thread held by the debugger is reset by the wait.                   *)
Signalled(w) == \/ handle1[w] = "thread" /\ life[w] = "done"
                \/ handle1[w] = "event" /\ w \in goAhead

WaitForObject(t, w) ==
  /\ Windows /\ Active(t) /\ Signalled(w)
  /\ goAhead' = IF handle1[w] = "event" THEN goAhead \ {w} ELSE goAhead
  /\ joined' = joined \cup {<<t, w>>}
  /\ UNCHANGED <<life, handle1, synchro, jpc, want, joinLock, evenly>>

WindowsJoinSingle(t, w) == WaitForObject(t, w)

(* The kernel refuses a handle that is there twice, and of several that are *)
(* signalled takes the first; the error return changes nothing.             *)
WindowsJoinMultiple(t, v) ==
  /\ Windows /\ Cardinality(Named(v)) = Len(v)
  /\ \E i \in DOMAIN v : /\ \A j \in 1..(i - 1) : ~Signalled(v[j])
                         /\ WaitForObject(t, v[i])

NextJoin ==
  \E t, w \in Threads :
    \/ PosixMakeThread(t, w) \/ UnixMakeThread(t, w) \/ WindowsMakeThread(t, w)
    \/ PosixInitializeSpecialThread(t) \/ UnixInitializeSpecialThread(t)
    \/ WindowsInitializeSpecialThread(t)
    \/ DebuggerGoAhead(t) \/ WindowsInitializeCurrentThread(t)
    \/ PosixTrampoline(t) \/ UnixTrampolineBody(t) \/ WindowsTrampolineBody(t)
    \/ PosixJoinSingle(t, w) \/ UnixJoinSingle(t, w) \/ WindowsJoinSingle(t, w)
    \/ \E v \in Vectors : \/ PosixJoinMultiple(t, v) \/ UnixJoinMultiple(t, v)
                          \/ WindowsJoinMultiple(t, v)
    \/ PosixJoinWake(t)

------------------------------------------------------------------------------
(* A join returns a thread that has ended, and but for windows, where       *)
(* any number of joins of a thread return, no two joins return the same.    *)
(* (A thread made with synchronize under the windows debugger is excepted:  *)
(* until the go-ahead its handle names the event.)                          *)
JoinReturnsEndedThread ==
  \A p \in joined : /\ life[p[2]] = "done" \/ p[2] \in synchro
                    /\ ~Windows => \A q \in joined : q[2] = p[2] => q = p

(* posix: a thread carries a mark exactly while a join of it is under way,  *)
(* and ever after once a join that named it an even number of times has     *)
(* returned (posix-threads.c:660-663 flips the mark back on): such a thread *)
(* can no longer be joined, though it may never have been.  No other join   *)
(* refuses a later one, and no joiner sleeps while a thread it waits for    *)
(* has completed.                                                           *)
JoinersMarkAndWake ==
  Posix =>
    /\ \A w \in Threads :
         "MARKED" \in handle1[w]
           <=> \/ \E t \in Threads : jpc[t] # "dylan" /\ w \in Named(want[t])
               \/ w \in evenly
    /\ \A t \in Threads :
         jpc[t] = "asleep" => \A w \in Named(want[t]) : "COMPLETED" \notin handle1[w]

(* Joins return threads that have ended, once, and but for a vector that    *)
(* repeats a thread leave nothing behind that refuses another join.         *)
JoinsAreSound == JoinReturnsEndedThread /\ JoinersMarkAndWake
==============================================================================
