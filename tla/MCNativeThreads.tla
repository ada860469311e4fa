--------------------------- MODULE MCNativeThreads ---------------------------
(***************************************************************************)
(* The thread runtimes of the C and HARP back ends, one kind of object at  *)
(* a time: a behaviour picks a runtime and a component and runs that       *)
(* component's actions, the others staying as they were made.              *)
(***************************************************************************)
EXTENDS NativeMonitor, NativeRecursive, NativeSemaphore, NativeJoin, NativeTLV, TLC

VARIABLE component

vars == <<runtime, component, monitorVars, recursiveVars, nsemVars, joinVars, tlvVars>>

Interchangeable == Permutations(Threads)

Init ==
  /\ InitRuntime
  /\ component \in {"monitor", "recursive", "semaphore", "join", "tlv"}
  /\ InitMonitor /\ InitRecursive /\ InitNativeSemaphore /\ InitJoin /\ InitTLV
  /\ component # "semaphore" => nsem.count = 0 /\ ~emulated

Next ==
  /\ UNCHANGED <<runtime, component>>
  /\ \/ /\ component = "monitor" /\ NextMonitor
        /\ UNCHANGED <<recursiveVars, nsemVars, joinVars, tlvVars>>
     \/ /\ component = "recursive" /\ NextRecursive
        /\ UNCHANGED <<monitorVars, nsemVars, joinVars, tlvVars>>
     \/ /\ component = "semaphore" /\ NextNativeSemaphore
        /\ UNCHANGED <<monitorVars, recursiveVars, joinVars, tlvVars>>
     \/ /\ component = "join" /\ NextJoin
        /\ UNCHANGED <<monitorVars, recursiveVars, nsemVars, tlvVars>>
     \/ /\ component = "tlv" /\ NextTLV
        /\ UNCHANGED <<monitorVars, recursiveVars, nsemVars, joinVars>>

Spec == Init /\ [][Next]_vars
==============================================================================
