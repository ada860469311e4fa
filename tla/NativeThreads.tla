---------------------------- MODULE NativeThreads ----------------------------
(***************************************************************************)
(* What the models of the two other thread runtimes share: the C back end  *)
(* (posix-threads.c) and the HARP back end (unix-threads-primitives.c and  *)
(* windows-threads-primitives.c).  The three files implement the same      *)
(* primitives on different kernel objects; a behaviour runs one of them.   *)
(***************************************************************************)
EXTENDS Integers, FiniteSets, Sequences

CONSTANTS Threads,      \* Dylan threads
          NoThread      \* the null owner of a lock

ASSUME NativeThreadsAssumption == NoThread \notin Threads /\ IsFiniteSet(Threads)

VARIABLE runtime        \* the runtime the program is linked with

Posix   == runtime = "posix"      \* posix-threads.c
Unix    == runtime = "unix"       \* unix-threads-primitives.c
Windows == runtime = "windows"    \* windows-threads-primitives.c

InitRuntime == runtime \in {"posix", "unix", "windows"}
==============================================================================
