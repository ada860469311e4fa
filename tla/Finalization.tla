---------------------------- MODULE Finalization ----------------------------
(***************************************************************************)
(* Automatic finalization (dylan/finalization.dylan): a setter that starts *)
(* a draining thread, the loop of that thread, and drain-finalization-     *)
(* queue, which any thread may run.  The automatic finalization lock is    *)
(* held while make (<thread>) drains the queue and starts the thread, so   *)
(* its holder is part of the state; the other critical sections are single *)
(* actions.                                                                *)
(***************************************************************************)
EXTENDS Naturals, FiniteSets

CONSTANTS Client,    \* threads of the program
          Drainer,   \* identities for draining threads, used again after exit
          Object,    \* objects registered for finalization
          None

ASSUME FinalizationAssumption == /\ Client \cap Drainer = {}
                                 /\ None \notin Client \cup Object
                                 /\ IsFiniteSet(Drainer)

VARIABLES auto,        \* *automatic-finalization?*
          active,      \* *draining-thread-active?*
          lock,        \* holder of *automatic-finalization-lock*
          doing,       \* where clients and draining threads stand
          obj,         \* what has become of each object
          finalizing   \* the object each thread is finalizing

finalizationVars == <<auto, active, lock, doing, obj, finalizing>>

Actor == Client \cup Drainer

InitFinalization ==
  /\ auto = FALSE
  /\ active = FALSE
  /\ lock = None
  /\ doing = [x \in Actor |-> IF x \in Client THEN "program" ELSE "absent"]
  /\ obj = [o \in Object |-> "live"]
  /\ finalizing = [x \in Actor |-> None]

Queued == {o \in Object : obj[o] = "queued"}

\* The collector finds an object unreachable and queues it.
Unreachable(o) == /\ obj[o] = "live"
                  /\ obj' = [obj EXCEPT ![o] = "queued"]
                  /\ UNCHANGED <<auto, active, lock, doing, finalizing>>

-----------------------------------------------------------------------------
(* The setter.  Turning finalization on without a draining thread goes     *)
(* through make (<thread>), which drains the queue first.                  *)

Set_unstarted(c, new) == /\ doing[c] = "program" /\ lock = None
                         /\ auto' = new
                         /\ UNCHANGED <<active, lock, doing, obj, finalizing>>
Set(c, new) == /\ doing[c] = "program" /\ lock = None
               /\ auto \/ ~new \/ active
               /\ auto' = new
               /\ UNCHANGED <<active, lock, doing, obj, finalizing>>

StartThread_auto(c) == /\ doing[c] = "program" /\ lock = None
                       /\ ~auto
                       /\ lock' = c
                       /\ doing' = [doing EXCEPT ![c] = "making"]
                       /\ UNCHANGED <<auto, active, obj, finalizing>>
StartThread(c) == /\ doing[c] = "program" /\ lock = None
                  /\ ~auto /\ ~active
                  /\ lock' = c
                  /\ doing' = [doing EXCEPT ![c] = "making"]
                  /\ UNCHANGED <<auto, active, obj, finalizing>>

\* drain-finalization-queue has found the queue empty; the thread is created.
ThreadMade(c, d) == /\ doing[c] = "making" /\ finalizing[c] = None /\ Queued = {}
                    /\ doing[d] = "absent"
                    /\ doing' = [doing EXCEPT ![c] = "program", ![d] = "checking"]
                    /\ active' = TRUE
                    /\ auto' = TRUE
                    /\ lock' = None
                    /\ UNCHANGED <<obj, finalizing>>

\* A finalizer makes a non-local exit out of the drain, or the thread cannot be
\* created: the cleanup of with-lock releases the lock.  The object that was
\* being finalized is not queued again.
Aborted_locked(c) ==
  /\ doing[c] = "making" \/ (doing[c] = "draining" /\ finalizing[c] # None)
  /\ doing' = [doing EXCEPT ![c] = "program"]
  /\ obj' = [o \in Object |-> IF o = finalizing[c] THEN "done" ELSE obj[o]]
  /\ finalizing' = [finalizing EXCEPT ![c] = None]
  /\ UNCHANGED <<auto, active, lock>>

Aborted(c) ==
  /\ doing[c] = "making" \/ (doing[c] = "draining" /\ finalizing[c] # None)
  /\ doing' = [doing EXCEPT ![c] = "program"]
  /\ lock' = IF doing[c] = "making" THEN None ELSE lock
  /\ obj' = [o \in Object |-> IF o = finalizing[c] THEN "done" ELSE obj[o]]
  /\ finalizing' = [finalizing EXCEPT ![c] = None]
  /\ UNCHANGED <<auto, active>>

-----------------------------------------------------------------------------
(* Draining, by a client, inside make (<thread>) or by the draining thread. *)

Drain(c) == /\ doing[c] = "program"
            /\ doing' = [doing EXCEPT ![c] = "draining"]
            /\ UNCHANGED <<auto, active, lock, obj, finalizing>>

\* mm-finalization-queue-first takes an object off the queue.
TakeFirst_left(x, o) == /\ doing[x] \in {"making", "draining"} /\ finalizing[x] = None
                        /\ obj[o] \in {"queued", "taken"}
                        /\ obj' = [obj EXCEPT ![o] = "taken"]
                        /\ finalizing' = [finalizing EXCEPT ![x] = o]
                        /\ UNCHANGED <<auto, active, lock, doing>>
TakeFirst(x, o) == /\ doing[x] \in {"making", "draining"} /\ finalizing[x] = None
                   /\ obj[o] = "queued"
                   /\ obj' = [obj EXCEPT ![o] = "taken"]
                   /\ finalizing' = [finalizing EXCEPT ![x] = o]
                   /\ UNCHANGED <<auto, active, lock, doing>>

Finalized(x) == /\ finalizing[x] # None
                /\ obj' = [obj EXCEPT ![finalizing[x]] = "done"]
                /\ finalizing' = [finalizing EXCEPT ![x] = None]
                /\ UNCHANGED <<auto, active, lock, doing>>

\* The queue is empty: a client returns, the draining thread asks to continue.
QueueEmpty(x) == /\ doing[x] = "draining" /\ finalizing[x] = None /\ Queued = {}
                 /\ doing' = [doing EXCEPT ![x] = IF x \in Client THEN "program" ELSE "checking"]
                 /\ UNCHANGED <<auto, active, lock, obj, finalizing>>

\* continue?: the draining thread goes on, or withdraws its flag and exits.
Continue_idle(d) == /\ doing[d] = "checking" /\ lock = None
                    /\ doing' = [doing EXCEPT ![d] = IF auto THEN "checking" ELSE "absent"]
                    /\ active' = auto
                    /\ UNCHANGED <<auto, lock, obj, finalizing>>
Continue_forever(d) == /\ doing[d] = "checking" /\ lock = None
                       /\ doing' = [doing EXCEPT ![d] = "draining"]
                       /\ UNCHANGED <<auto, active, lock, obj, finalizing>>
Continue(d) == /\ doing[d] = "checking" /\ lock = None
               /\ doing' = [doing EXCEPT ![d] = IF auto THEN "draining" ELSE "absent"]
               /\ active' = auto
               /\ UNCHANGED <<auto, lock, obj, finalizing>>

-----------------------------------------------------------------------------
\* What a thread does by itself once it is draining.
Step(x) == \/ Finalized(x) \/ QueueEmpty(x) \/ \E o \in Object : TakeFirst(x, o)
           \/ x \in Drainer /\ Continue(x)
           \/ x \in Client /\ \E d \in Drainer : ThreadMade(x, d)

NextFinalization ==
  \/ \E o \in Object : Unreachable(o)
  \/ \E c \in Client : \/ \E new \in BOOLEAN : Set(c, new)
                       \/ StartThread(c) \/ Aborted(c) \/ Drain(c)
  \/ \E x \in Actor : Step(x)

SpecFinalization == InitFinalization /\ [][NextFinalization]_finalizationVars

\* Threads are scheduled and finalizers return.
FairSpec == SpecFinalization /\ \A x \in Actor : WF_finalizationVars(Step(x))

-----------------------------------------------------------------------------
\* Type correctness; the lock is held exactly by the client that is making the
\* draining thread.
TypeFinalization ==
  /\ auto \in BOOLEAN /\ active \in BOOLEAN
  /\ lock \in Client \cup {None}
  /\ doing \in [Actor -> {"program", "making", "draining", "checking", "absent"}]
  /\ obj \in [Object -> {"live", "queued", "taken", "done"}]
  /\ finalizing \in [Actor -> Object \cup {None}]
  /\ \A c \in Client : lock = c <=> doing[c] = "making"

Draining == {d \in Drainer : doing[d] # "absent"}

\* *draining-thread-active?* is true exactly while there is a draining thread and
\* there are never two, however the setter is called while one is on its way out.
FlagMatchesThread == Cardinality(Draining) = IF active THEN 1 ELSE 0

\* While automatic finalization is on, a thread exists that will drain.
AutoHasThread == auto => active

\* An object is finalized by one thread at a time and once: however many threads
\* drain the queue, an object taken off it is in the hands of exactly one, and
\* one whose finalizer made a non-local exit is in the hands of none.
FinalizedOnce == \A o \in Object : Cardinality({x \in Actor : finalizing[x] = o})
                                     = IF obj[o] = "taken" THEN 1 ELSE 0

\* Objects queued while automatic finalization stays on are finalized.
QueueDrained == \A o \in Object : (auto /\ obj[o] = "queued") ~> (obj[o] = "done" \/ ~auto)

\* The draining thread exits once automatic finalization stays off.
ThreadExits == (~auto /\ Draining # {}) ~> (auto \/ Draining = {})

\* automatic-finalization-function does its work and ends when it is told to.
FinalizationProgress == QueueDrained /\ ThreadExits
=============================================================================
