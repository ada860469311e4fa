------------------------------ MODULE NativeTLV ------------------------------
(***************************************************************************)
(* Thread variables in the runtimes of the C and HARP back ends.  Every    *)
(* thread has a vector, reached from its TEB and from a list; a new        *)
(* variable may make one thread grow the vectors of all, and the writers   *)
(* are kept away meanwhile by a counter they raise around each store.      *)
(***************************************************************************)
EXTENDS NativeThreads

CONSTANTS InitialSize,    \* TLV_VECTOR_INITIAL_SIZE
          VariableBound   \* cap on the variables the program defines

ASSUME TLVAssumption == InitialSize \in Nat \ {0} /\ VariableBound \in Nat

TLV_GROW == -2 * Cardinality(Threads)

VARIABLES tpc,       \* where each thread is: not started, in Dylan, in a primitive
          tlvVector, \* the vector each TEB points at: the value of each variable
          grown,     \* the copy made for a thread while the vectors grow
          defaults,  \* default_tlv_vector
          offset,    \* TLV_vector_offset: variables allocated so far
          counter,   \* tlv_writer_counter
          listLock,  \* the holder of tlv_vector_list_lock
          head, next,\* tlv_vector_list
          stored,    \* what each thread last stored in each variable
          before,    \* posix: the element found before that of a leaving thread
          cut        \* posix: a thread has begun to leave the list

tlvVars == <<tpc, tlvVector, grown, defaults, offset, counter, listLock, head, next, stored, before, cut>>

(* The elements reached from the head of the list: the least set that holds *)
(* it and, with every element, the next.                                    *)
Linked(S) == /\ head \in S \cup {NoThread}
             /\ \A t \in S : next[t] \in S \cup {NoThread}
Listed == {t \in Threads : \A S \in SUBSET Threads : Linked(S) => t \in S}

Blank == [i \in 1..InitialSize |-> "none"]
None == <<>>

InitTLV ==
  /\ tpc = [t \in Threads |-> "unborn"]
  /\ tlvVector = [t \in Threads |-> None]
  /\ grown = [t \in Threads |-> None]
  /\ defaults = Blank
  /\ offset = 0
  /\ counter = 0
  /\ listLock = NoThread
  /\ head = NoThread
  /\ next = [t \in Threads |-> NoThread]
  /\ stored = [t \in Threads |-> {}]
  /\ before = [t \in Threads |-> NoThread]
  /\ cut = FALSE

TGoto(t, l) == tpc' = [tpc EXCEPT ![t] = l]
Lock(t) == listLock = NoThread /\ listLock' = t

------------------------------------------------------------------------------
(* A thread starts: under the list lock it copies the defaults and goes to  *)
(* the front of the list.                                                   *)

SetupTLV(t) ==
  /\ tpc[t] = "unborn" /\ listLock = NoThread
  /\ tlvVector' = [tlvVector EXCEPT ![t] = defaults]
  /\ head' = t /\ next' = [next EXCEPT ![t] = head]
  /\ TGoto(t, "dylan")
  /\ UNCHANGED <<grown, defaults, offset, counter, listLock, stored, before, cut>>

PosixSetupTLVVector(t) == Posix /\ SetupTLV(t)
UnixInitializeCurrentThread(t) == Unix /\ SetupTLV(t)
WindowsSetupTLVVector(t) == Windows /\ SetupTLV(t)

(* A thread ends.  The HARP runtimes cut its element out under the lock.    *)
Predecessor(t) == {u \in Listed : next[u] = t}

RemoveTLV(t) ==
  /\ tpc[t] = "dylan" /\ listLock = NoThread
  /\ head' = IF head = t THEN next[t] ELSE head
  /\ next' = [u \in Threads |-> IF head # t /\ u \in Predecessor(t) THEN next[t] ELSE next[u]]
  /\ TGoto(t, "done")
  /\ UNCHANGED <<tlvVector, grown, defaults, offset, counter, listLock, stored, before, cut>>

UnixRemoveTLVVector(t) == Unix /\ RemoveTLV(t)
WindowsRemoveTLVVector(t) == Windows /\ RemoveTLV(t)

(* posix takes no lock: the element before it is found in one step and the  *)
(* element cut out in a later one.                                          *)
FindElement(t) ==
  /\ tpc[t] = "dylan"
  /\ cut' = TRUE
  /\ \/ /\ head = t
        /\ TGoto(t, "behead") /\ UNCHANGED before
     \/ \E u \in Predecessor(t) :
          /\ head # t
          /\ before' = [before EXCEPT ![t] = u] /\ TGoto(t, "cut")
     \/ /\ head # t /\ Predecessor(t) = {}
        /\ TGoto(t, "done") /\ UNCHANGED before
  /\ UNCHANGED <<tlvVector, grown, defaults, offset, counter, listLock, head, next, stored>>

CutElement(t) ==
  /\ tpc[t] \in {"behead", "cut"}
  /\ IF tpc[t] = "behead"
       THEN head' = next[head] /\ UNCHANGED next
       ELSE next' = [next EXCEPT ![before[t]] = next[t]] /\ UNCHANGED head
  /\ TGoto(t, "done")
  /\ UNCHANGED <<tlvVector, grown, defaults, offset, counter, listLock, stored, before, cut>>

PosixRemoveTLVVector(t) == Posix /\ (FindElement(t) \/ CutElement(t))

------------------------------------------------------------------------------
(* allocate-thread-variable.                                                *)

AllocateVariable(t) ==
  /\ tpc[t] = "dylan" /\ offset < VariableBound
  /\ Lock(t)
  /\ offset' = offset + 1
  /\ TGoto(t, IF offset + 1 > Len(defaults) THEN "exclude" ELSE "propagate")
  /\ UNCHANGED <<tlvVector, grown, defaults, counter, head, next, stored, before, cut>>

PosixAllocateThreadVariable(t) == Posix /\ AllocateVariable(t)
UnixAllocateThreadVariable(t) == Unix /\ AllocateVariable(t)
WindowsAllocateThreadVariable(t) == Windows /\ AllocateVariable(t)

Grow(vector, size) == [i \in 1..size |-> IF i <= Len(vector) THEN vector[i] ELSE "none"]

(* Mutant: the growth does not wait for the writers under way.              *)
ExcludeWriters_unwaited(t) ==
  /\ tpc[t] = "exclude"
  /\ counter' = counter + TLV_GROW
  /\ defaults' = Grow(defaults, 2 * Len(defaults))
  /\ TGoto(t, "grow")
  /\ UNCHANGED <<tlvVector, grown, offset, listLock, head, next, stored, before, cut>>

(* grow_all_tlv_vectors: wait until no thread is storing, grow the default  *)
(* vector,                                                                  *)
ExcludeWriters(t) ==
  /\ tpc[t] = "exclude" /\ counter = 0
  /\ counter' = TLV_GROW
  /\ defaults' = Grow(defaults, 2 * Len(defaults))
  /\ TGoto(t, "grow")
  /\ UNCHANGED <<tlvVector, grown, offset, listLock, head, next, stored, before, cut>>

(* copy each vector of the list,                                            *)
GrowOneVector(t, u) ==
  /\ tpc[t] = "grow" /\ u \in Listed
  /\ Len(tlvVector[u]) < Len(defaults) /\ grown[u] = None
  /\ grown' = [grown EXCEPT ![u] = Grow(tlvVector[u], Len(defaults))]
  /\ UNCHANGED <<tpc, tlvVector, defaults, offset, counter, listLock, head, next, stored, before, cut>>

PosixGrowTLVVector(t, u) == Posix /\ GrowOneVector(t, u)
UnixGrowTLVVector(t, u) == Unix /\ GrowOneVector(t, u)
WindowsGrowTLVVector(t, u) == Windows /\ GrowOneVector(t, u)

(* put each copy in its thread's TEB                                        *)
PublishVector(t, u) ==
  /\ tpc[t] = "grow" /\ grown[u] # None
  /\ tlvVector' = [tlvVector EXCEPT ![u] = grown[u]]
  /\ grown' = [grown EXCEPT ![u] = None]
  /\ UNCHANGED <<tpc, defaults, offset, counter, listLock, head, next, stored, before, cut>>

(* and admit the writers again when none is between a refused increment and *)
(* the decrement that undoes it.                                            *)
AdmitWriters(t) ==
  /\ tpc[t] = "grow"
  /\ \A u \in Listed : Len(tlvVector[u]) = Len(defaults)
  /\ counter = TLV_GROW
  /\ counter' = 0
  /\ TGoto(t, "propagate")
  /\ UNCHANGED <<tlvVector, grown, defaults, offset, listLock, head, next, stored, before, cut>>

PosixGrowAll(t) == Posix /\ (ExcludeWriters(t) \/ AdmitWriters(t))
UnixGrowAll(t) == Unix /\ (ExcludeWriters(t) \/ AdmitWriters(t))
WindowsGrowAll(t) == Windows /\ (ExcludeWriters(t) \/ AdmitWriters(t))

(* update_tlv_vectors, then the lock is released.                           *)
Propagate(t) ==
  /\ tpc[t] = "propagate"
  /\ defaults' = [defaults EXCEPT ![offset] = "default"]
  /\ tlvVector' = [u \in Threads |-> IF u \in Listed /\ offset <= Len(tlvVector[u])
                                     THEN [tlvVector[u] EXCEPT ![offset] = "default"]
                                     ELSE tlvVector[u]]
  /\ listLock' = NoThread
  /\ TGoto(t, "dylan")
  /\ UNCHANGED <<grown, offset, counter, head, next, stored, before, cut>>

PosixUpdateTLVVectors(t) == Posix /\ Propagate(t)
UnixUpdateTLVVectors(t) == Unix /\ Propagate(t)
WindowsUpdateTLVVectors(t) == Windows /\ Propagate(t)

------------------------------------------------------------------------------
(* write-thread-variable.                                                   *)

(* A handle is known once its variable's default has been propagated.       *)
Known == {v \in 1..offset : v <= Len(defaults) /\ defaults[v] = "default"}

Raise(t) ==
  /\ counter' = counter + 1
  /\ TGoto(t, IF counter + 1 < 0 THEN "lower" ELSE "store")
  /\ UNCHANGED <<tlvVector, grown, defaults, offset, listLock, head, next, stored, before, cut>>

BeginWrite(t) == tpc[t] = "dylan" /\ Known # {} /\ Raise(t)

(* A refused writer undoes its increment, waits for the list lock and tries *)
(* again.                                                                   *)
WaitOutGrowth(t) ==
  \/ /\ tpc[t] = "lower"
     /\ counter' = counter - 1
     /\ TGoto(t, IF counter - 1 < 0 THEN "synchronize" ELSE "raise")
     /\ UNCHANGED <<tlvVector, grown, defaults, offset, listLock, head, next, stored, before, cut>>
  \/ /\ tpc[t] = "synchronize" /\ listLock = NoThread
     /\ TGoto(t, "raise")
     /\ UNCHANGED <<tlvVector, grown, defaults, offset, counter, listLock, head, next, stored, before, cut>>
  \/ tpc[t] = "raise" /\ Raise(t)

PosixWriteBlocked(t) == Posix /\ WaitOutGrowth(t)
UnixWriteInternal(t) == Unix /\ WaitOutGrowth(t)
WindowsWriteInternal(t) == Windows /\ WaitOutGrowth(t)

StoreVariable(t) ==
  /\ tpc[t] = "store"
  /\ \E v \in Known \cap DOMAIN tlvVector[t] :
       /\ tlvVector' = [tlvVector EXCEPT ![t][v] = "stored"]
       /\ stored' = [stored EXCEPT ![t] = @ \cup {v}]
  /\ TGoto(t, "leave")
  /\ UNCHANGED <<grown, defaults, offset, counter, listLock, head, next, before, cut>>

EndWrite(t) ==
  /\ tpc[t] = "leave"
  /\ counter' = counter - 1
  /\ TGoto(t, "dylan")
  /\ UNCHANGED <<tlvVector, grown, defaults, offset, listLock, head, next, stored, before, cut>>

PosixWriteThreadVariable(t) == Posix /\ (BeginWrite(t) \/ StoreVariable(t) \/ EndWrite(t))
UnixWriteThreadVariable(t) == Unix /\ (BeginWrite(t) \/ StoreVariable(t) \/ EndWrite(t))
WindowsWriteThreadVariable(t) == Windows /\ (BeginWrite(t) \/ StoreVariable(t) \/ EndWrite(t))

NextTLV ==
  \E t, u \in Threads :
    \/ PosixSetupTLVVector(t) \/ UnixInitializeCurrentThread(t) \/ WindowsSetupTLVVector(t)
    \/ UnixRemoveTLVVector(t) \/ WindowsRemoveTLVVector(t)
    \/ PosixRemoveTLVVector(t)
    \/ PosixAllocateThreadVariable(t) \/ UnixAllocateThreadVariable(t)
    \/ WindowsAllocateThreadVariable(t)
    \/ PosixGrowTLVVector(t, u) \/ UnixGrowTLVVector(t, u) \/ WindowsGrowTLVVector(t, u)
    \/ PublishVector(t, u)
    \/ PosixGrowAll(t) \/ UnixGrowAll(t) \/ WindowsGrowAll(t)
    \/ PosixUpdateTLVVectors(t) \/ UnixUpdateTLVVectors(t) \/ WindowsUpdateTLVVectors(t)
    \/ PosixWriteBlocked(t) \/ UnixWriteInternal(t) \/ WindowsWriteInternal(t)
    \/ PosixWriteThreadVariable(t) \/ UnixWriteThreadVariable(t) \/ WindowsWriteThreadVariable(t)

------------------------------------------------------------------------------
(* primitive_read_thread_variable returns to every thread what it stored    *)
(* last, or the default: no store goes to a vector that has been replaced   *)
(* and no vector is too short for a variable, while other threads define    *)
(* variables, start and end.  (posix: until a thread leaves the list, which *)
(* it does without the lock.)                                               *)
ReadThreadVariable(t, v) == tlvVector[t][v]

ThreadReadsWhatItStored ==
  ~cut => \A t \in Threads :
            tpc[t] \notin {"unborn", "done"} =>
              \A v \in Known :
                /\ v \in DOMAIN tlvVector[t]
                /\ ReadThreadVariable(t, v) = IF v \in stored[t] THEN "stored" ELSE "default"
==============================================================================
