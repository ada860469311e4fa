--------------------------- MODULE ThreadVariables ---------------------------
(***************************************************************************)
(* Thread variables of the LLVM back end on POSIX, where a thread variable *)
(* is an index: primitive_allocate_thread_variable (lib/run-time/          *)
(* llvm-posix-threads.c) appends the initial value of a variable to the    *)
(* vector %tlv-initializations, under tlv_initializations_lock, and every  *)
(* thread copies what its own vector lacks when it first meets an index    *)
(* beyond its end (primitive-expand-thread-local-variables in dfmc/        *)
(* llvm-back-end/llvm-primitives-thread.dylan), which takes no lock.       *)
(*                                                                         *)
(* The statement                                                           *)
(*     initializations->vector_element[Ptlv_initializations_cursor++]      *)
(*       = value                                                           *)
(* stores the element and the cursor in an order C leaves open: either is  *)
(* a step of its own and may come first.                                   *)
(***************************************************************************)
EXTENDS Integers, Sequences

CONSTANTS Thread, NoThread,
          MinimumSize,   \* first size of the vector (32 in the code)
          MaxVariables   \* bound on the thread variables a program defines

ASSUME VariablesAssumption == /\ Thread \cap Int = {} /\ NoThread \notin Thread
                              /\ MinimumSize \in Nat \ {0, 1}
                              /\ MaxVariables \in Nat

VARIABLES vectors,   \* every vector %tlv-initializations has been, in order;
                     \*   the last is the current one
          cursor,    \* %tlv-initializations-cursor
          lock,      \* holder of tlv_initializations_lock
          defined,   \* how many variables have their handle stored
          tlv,       \* tlv[t]: the vector of thread t, in its TEB
          roots,     \* threads whose TEB is registered with the collector
          pc,        \* where each thread stands
          unstored,  \* the stores the allocating thread has still to make
          index,     \* index[t]: the variable t is accessing
          limit,     \* limit[t]: the cursor t loaded
          source,    \* source[t]: the vector t loaded, an index of vectors
                     \*   (the three are reset when they are no longer used)
          assigned,  \* history: pairs of a thread and a variable it assigned
          early      \* history: pairs of a thread and a variable it copied before
                     \*   the initial value was stored

vars == <<vectors, cursor, lock, defined, tlv, roots, pc, unstored, index,
          limit, source, assigned, early>>

\* The value op--allocate-vector fills with.
Unbound == -1

Current == vectors[Len(vectors)]

\* Variable i has the initial value i, in element i + 1.
Init == /\ vectors = << <<>> >>
        /\ cursor = 0
        /\ lock = NoThread
        /\ defined = 0
        /\ tlv = [t \in Thread |-> <<>>]
        /\ roots = {}
        /\ pc = [t \in Thread |-> "absent"]
        /\ unstored = {}
        /\ index = [t \in Thread |-> 0]
        /\ limit = [t \in Thread |-> 0]
        /\ source = [t \in Thread |-> 1]
        /\ assigned = {}
        /\ early = {}

-----------------------------------------------------------------------------
(* A thread starts and ends in the trampoline (the first one in the        *)
(* initialization of the runtime).                                         *)

Start_unrooted(t) ==
  /\ pc[t] = "absent" /\ lock = NoThread
  /\ pc' = [pc EXCEPT ![t] = "program"]
  /\ UNCHANGED <<vectors, cursor, lock, defined, tlv, roots, unstored, index,
                 limit, source, assigned, early>>

\* primitive_initialize_thread_variables registers the TEB as a root.
Start(t) ==
  /\ pc[t] = "absent" /\ lock = NoThread
  /\ pc' = [pc EXCEPT ![t] = "program"]
  /\ roots' = roots \cup {t}
  /\ UNCHANGED <<vectors, cursor, lock, defined, tlv, unstored, index, limit,
                 source, assigned, early>>

\* deinitialize_thread_variables; the TEB goes with the thread.
Finish(t) ==
  /\ pc[t] = "program" /\ lock = NoThread
  /\ pc' = [pc EXCEPT ![t] = "absent"]
  /\ roots' = roots \ {t}
  /\ tlv' = [tlv EXCEPT ![t] = <<>>]
  /\ assigned' = {a \in assigned : a[1] # t}
  /\ early' = {a \in early : a[1] # t}
  /\ UNCHANGED <<vectors, cursor, lock, defined, unstored, index, limit, source>>

-----------------------------------------------------------------------------
(* primitive_allocate_thread_variable.                                     *)

\* primitive_grow_vector: half as large again, and at least MinimumSize.
Grown(v) ==
  LET half == (3 * Len(v)) \div 2
      size == IF half >= MinimumSize THEN half ELSE MinimumSize
  IN  [i \in 1 .. size |-> IF i <= Len(v) THEN v[i] ELSE Unbound]

Allocate_full(t) ==
  /\ pc[t] = "program" /\ lock = NoThread /\ cursor < MaxVariables
  /\ lock' = t
  /\ pc' = [pc EXCEPT ![t] = "storing"]
  /\ unstored' = {"element", "cursor"}
  /\ index' = [index EXCEPT ![t] = cursor]
  /\ vectors' = IF cursor > Len(Current) THEN Append(vectors, Grown(Current))
                                         ELSE vectors
  /\ UNCHANGED <<cursor, defined, tlv, roots, limit, source, assigned, early>>

\* The lock is taken and the vector grown when the next element does not fit.
Allocate(t) ==
  /\ pc[t] = "program" /\ lock = NoThread /\ cursor < MaxVariables
  /\ lock' = t
  /\ pc' = [pc EXCEPT ![t] = "storing"]
  /\ unstored' = {"element", "cursor"}
  /\ index' = [index EXCEPT ![t] = cursor]
  /\ vectors' = IF cursor + 1 > Len(Current) THEN Append(vectors, Grown(Current))
                                             ELSE vectors
  /\ UNCHANGED <<cursor, defined, tlv, roots, limit, source, assigned, early>>

StoreElement(t) ==
  /\ pc[t] = "storing" /\ "element" \in unstored
  /\ unstored' = unstored \ {"element"}
  /\ vectors' = [vectors EXCEPT ![Len(vectors)][index[t] + 1] = index[t]]
  /\ UNCHANGED <<cursor, lock, defined, tlv, roots, pc, index, limit, source, assigned, early>>

StoreCursor(t) ==
  /\ pc[t] = "storing" /\ "cursor" \in unstored
  /\ unstored' = unstored \ {"cursor"}
  /\ cursor' = index[t] + 1
  /\ UNCHANGED <<vectors, lock, defined, tlv, roots, pc, index, limit, source, assigned, early>>

Allocated_locked(t) ==
  /\ pc[t] = "storing" /\ unstored = {}
  /\ defined' = index[t] + 1
  /\ pc' = [pc EXCEPT ![t] = "program"]
  /\ index' = [index EXCEPT ![t] = 0]
  /\ UNCHANGED <<vectors, cursor, lock, tlv, roots, unstored, limit, source, assigned, early>>

\* The lock is released, and the definition stores the handle it gets.
Allocated(t) ==
  /\ pc[t] = "storing" /\ unstored = {}
  /\ lock' = NoThread
  /\ defined' = index[t] + 1
  /\ pc' = [pc EXCEPT ![t] = "program"]
  /\ index' = [index EXCEPT ![t] = 0]
  /\ UNCHANGED <<vectors, cursor, tlv, roots, unstored, limit, source, assigned, early>>

-----------------------------------------------------------------------------
(* primitive-read-thread-variable and primitive-write-thread-variable.     *)

Present(t, i) == i < Len(tlv[t])

\* op--tlv-vector finds the entry missing, and expand loads the cursor.
Missing(t, i) ==
  /\ pc[t] = "program" /\ ~Present(t, i)
  /\ pc' = [pc EXCEPT ![t] = "loaded"]
  /\ index' = [index EXCEPT ![t] = i]
  /\ limit' = [limit EXCEPT ![t] = cursor]
  /\ UNCHANGED <<vectors, cursor, lock, defined, tlv, roots, unstored, source, assigned, early>>

\* After it has allocated its new vector, the thread loads %tlv-initializations.
LoadVector(t) ==
  /\ pc[t] = "loaded"
  /\ pc' = [pc EXCEPT ![t] = "copying"]
  /\ source' = [source EXCEPT ![t] = Len(vectors)]
  /\ UNCHANGED <<vectors, cursor, lock, defined, tlv, roots, unstored, index,
                 limit, assigned, early>>

\* The elements the thread has, then those of the loaded vector up to limit.
Expanded_all(t) == [i \in 1 .. limit[t] |-> vectors[source[t]][i]]
Expanded(t) == [i \in 1 .. limit[t] |-> IF i <= Len(tlv[t]) THEN tlv[t][i]
                                        ELSE vectors[source[t]][i]]

\* The variable whose cursor is stored and whose element is not, if the copy
\* takes it in.
Caught(t) ==
  {<<t, i>> : i \in {k \in Len(tlv[t]) .. limit[t] - 1 :
                       unstored = {"element"} /\ k = index[lock]}}

Expand(t) ==
  /\ pc[t] = "copying"
  /\ tlv' = [tlv EXCEPT ![t] = Expanded(t)]
  /\ pc' = [pc EXCEPT ![t] = "program"]
  /\ index' = [index EXCEPT ![t] = 0]
  /\ limit' = [limit EXCEPT ![t] = 0]
  /\ source' = [source EXCEPT ![t] = 1]
  /\ early' = early \cup Caught(t)
  /\ UNCHANGED <<vectors, cursor, lock, defined, roots, unstored, assigned>>

\* A write to an entry that is present; a read changes nothing.
Assign(t, i) ==
  /\ pc[t] = "program" /\ Present(t, i)
  /\ tlv' = [tlv EXCEPT ![t][i + 1] = t]
  /\ assigned' = assigned \cup {<<t, i>>}
  /\ UNCHANGED <<vectors, cursor, lock, defined, roots, pc, unstored, index,
                 limit, source, early>>

Access(t, i) == Missing(t, i) \/ Assign(t, i)

Next == \E t \in Thread :
          \/ Start(t) \/ Finish(t)
          \/ Allocate(t) \/ StoreElement(t) \/ StoreCursor(t) \/ Allocated(t)
          \/ LoadVector(t) \/ Expand(t)
          \/ \E i \in 0 .. defined - 1 : Access(t, i)

Spec == Init /\ [][Next]_vars

-----------------------------------------------------------------------------
Place == {"absent", "program", "storing", "loaded", "copying"}

Value == 0 .. MaxVariables - 1

\* Type correctness; the lock is held exactly by the thread that is allocating.
TypeOK == /\ vectors \in Seq(Seq(Value \cup {Unbound})) /\ vectors # <<>>
          /\ cursor \in 0 .. MaxVariables /\ defined \in 0 .. MaxVariables
          /\ lock \in Thread \cup {NoThread}
          /\ tlv \in [Thread -> Seq(Value \cup {Unbound} \cup Thread)]
          /\ roots \subseteq Thread
          /\ pc \in [Thread -> Place]
          /\ unstored \subseteq {"element", "cursor"}
          /\ index \in [Thread -> 0 .. MaxVariables]
          /\ limit \in [Thread -> 0 .. MaxVariables]
          /\ source \in [Thread -> Nat \ {0}]
          /\ assigned \subseteq Thread \X Value
          /\ early \subseteq Thread \X Value
          /\ \A t \in Thread : lock = t <=> pc[t] = "storing"

\* A thread that has assigned a variable has its own value in its copy, and one
\* that has not has the variable's initial value: a growing vector loses nothing
\* and no thread sees what another one assigned.  The one exception is a variable
\* copied while its cursor was stored and its element was not, of which the
\* thread has the unbound marker, and keeps it, since nothing copies it again.
InitialValuesSeen ==
  \A t \in Thread : \A i \in 0 .. Len(tlv[t]) - 1 :
    tlv[t][i + 1] = IF <<t, i>> \in assigned THEN t
                    ELSE IF <<t, i>> \in early THEN Unbound ELSE i

\* The copy a thread makes is large enough for the access it makes it for, and
\* the loaded vector has all the elements that are copied: neither the read of
\* the loaded vector nor the access runs over the end.
AccessesInRange ==
  \A t \in Thread :
    /\ pc[t] \in {"loaded", "copying"} => index[t] < limit[t]
    /\ pc[t] = "copying" => limit[t] <= Len(vectors[source[t]])
    /\ pc[t] = "storing" => index[t] < Len(Current)

\* The vector of a thread is reachable from a root of the collector.
VectorsRooted == \A t \in Thread : tlv[t] # <<>> => t \in roots
=============================================================================
