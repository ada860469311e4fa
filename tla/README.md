# Open Dylan's runtimes and debugger nub: TLA+ models and proofs

This directory holds a verification project for the parts of Open Dylan that
run beneath and beside every Dylan program: the threads portability layers of
its three runtimes, the parts of the Dylan library built on them, thread
variables, automatic finalization, the calling convention, the allocation
primitives, the arithmetic of machine words and the non-local exits of the C back
end's run-time, and the debugger nub, which controls
another program, its threads, breakpoints, symbols, memory and registers. The
modules are TLA+, small instances are checked with TLC, and the theorems are
proved with TLAPS for every value of the constants.

Line numbers, here and in `PROJECT.json`, count newline characters, as `grep -n`
and `sed` do. (`llvm-posix-threads.c` contains form feeds, which some editors
count as line ends.) Paths are relative to `src/sources/` unless they begin with
`src/`.

## 1. Inventory

Open Dylan is a compiler (`dfmc/`), three back ends (LLVM, C, HARP), a runtime
for each of them (`lib/run-time/`), the Dylan library (`dylan/`), and a large
body of libraries and tools. Most of it is sequential code over large data that
a model of small instances says little about. What is hard to test is the code
several threads run at once, the code whose correctness depends on a convention
kept by many small pieces, and the code that controls another process. These
are what is modelled.

| Component | State it keeps | Operations | Hard behaviour | What makes it correct |
|---|---|---|---|---|
| Threads and join: `lib/run-time/llvm-posix-threads.c`, `dylan/thread.dylan` | the flags COMPLETED, WANT_TO_JOIN, JOINED of each thread; `function-results`; one global lock and one exit event | `primitive_make_thread`, the trampoline, `primitive_thread_join_single`, `primitive_thread_join_multiple`, `join-thread` | several joiners wait on one broadcast event; overlapping group joins; results are read outside the lock | a thread is joined once, by one caller, who gets its values; marks are exact; no joiner of an exited thread sleeps |
| Simple locks and notifications: same C file, `dylan/locks.dylan`, `dylan/notification.dylan` | `locked`, `owner`; a mutex and a condition variable each | wait-for, timed wait-for, release, release-all | a wait holds the notification's mutex while it calls the lock's primitives; timeouts race signals | no notification and no signal lost; a wait returns owning the lock; release does not block |
| Recursive locks: same files | `owner`, `recursion_count` | wait-for, timed wait-for, release, owned? | the wait loop looks only at the count, the entry at the owner | the count is the owner's nesting depth; no signal lost |
| Semaphores and deadlines: same files | `count`, `max_count` | wait-for, timed wait-for, release, `compute_deadline` | timeouts race signals; arithmetic at a second; error path with the mutex held | the counter is not negative and stays below its maximum; units do not lie while threads sleep |
| Read-write locks: `dylan/locks.dylan` | one integer or thread, an inner lock, a notification | wait-for in two modes, release | a critical section interrupted by a wait; release-all only when the lock becomes free; release does not look who holds read claims | readers exclude writers; nobody sleeps who could enter |
| Thread variables: C file, `dfmc/llvm-back-end/llvm-primitives-thread.dylan` | a growing vector of initial values, its cursor, a vector per thread | allocate, read, write, expand, register and unregister the TEB | vector and cursor are read without the lock that protects their writes | every thread sees initial values until it assigns; accesses are in range |
| Finalization: `dylan/finalization.dylan` | `*automatic-finalization?*`, `*draining-thread-active?*`, a lock, the collector's queue | the setter, the draining thread, drain-finalization-queue | switching on again while the draining thread is on its way out; finalizers run under the lock | at most one draining thread, one while the switch is on; each object finalized once |
| Threads runtimes of the C and HARP back ends: `lib/run-time/posix-threads.c`, `unix-threads-primitives.c`, `windows-threads-primitives.c` | the same primitives on pthread mutexes, or on Win32 counts, events and semaphores; a list of TLV vectors | as above | a count and a semaphore instead of a mutex; vectors of all threads replaced while the threads store into them; a list cut without its lock | exclusion; everyone asleep is counted by who must wake it; units find takers; a thread reads what it stored |
| Calls of the C back end: `lib/run-time/c-run-time.c`, `run-time.h` | registers and argument buffers of the TEB; engine nodes of generic functions | external and method entry points, apply, engine nodes, their initialisation | entry points tail-call each other and leave part of what they know in registers; up to seven arguments are passed spread and more in a vector | the body of a method gets the arguments of the call; errors are deserved |
| Allocation: `c-run-time.c`, `boehm-collector.c`, `malloc-collector.c`, `mps-collector.c` | a block between its reservation and its commit | the allocation primitives | a collection between reserve and commit moves objects; terminators and fills at the end of a block | an object is what was asked for; a committed block holds nothing stale |
| Machine words: `c-primitives-math.c` | none | divisions in five roundings, products, sums, shifts, rotations and counts, on words, double words and unsigned words | adjustments of a truncated quotient at the ends of the range; products and dividends put together from halves | the results are those of the integers, where they fit |
| Non-local exits: `c-run-time-nlx.c`, `run-time.h` | the chain of unwind-protect frames, the destination of the exit under way | entering and leaving blocks, exits, cleanup clauses | exits taken inside cleanup clauses that other exits run | a cleanup clause runs once before its block is left; an exit arrives with its values |
| Debugger nub, control: `runtime-manager/debugger-nub/x86-win32/` `app_control.c`, `debug_points.c`, `stop_reasons.c`, `remote_function_call.c`, `remote_object_registration.c`, `server.c` | descriptors of threads and breakpoints, suspend counts, the event not yet continued | start, stop, continue, kill, step, set and clear breakpoints, wait for a stop reason, call functions and spies in the program | events of several threads pending at once; breakpoints lifted and put back around single steps; code run on a stopped thread | breakpoints leave no trace; suspend counts match; a running program is not frozen |
| Debugger nub, symbols: `debug_map.c`, `coff_map.c`, `symbol_lookup.c`, `source_location_info.c`, `stack_backtrace2.c` | mapped debug information, a cursor and a cache of function bounds per library, lookup tables | symbols by address and by name, bounds, tables of symbols, lines, frames | the cursor and the cache outlive the call that set them | answers do not depend on earlier questions |
| Debugger nub, memory and registers: `memory_access.c`, `page_protection.c`, `register_access.c` | none of its own | read and write units, strings, floats, registers | conversions between widths; transfers that stop half way | what is written is read back |
| jam: `lib/jam/`; asynchronous writes: `io/streams/async-writes.dylan`; dispatch, tables, classes: `dylan/` | | | | not yet modelled (section 7) |
| Compiler, HARP, DUIM, Deuce, CORBA, DOOD, network, OLE, tools | - | - | sequential, or driven by external systems | not modelled; reasons in `PROJECT.json` |

Interactions. The Dylan methods call C primitives, which block in pthreads. A
read-write lock calls the lock and the notification it contains. A wait on a
notification calls the release and wait primitives of the lock associated with
it. `make (<thread>)` and the creation of locks drain the finalization queue
first, so that finalizers run inside them; the setter of automatic finalization
does so while it holds its lock. The trampoline registers and unregisters the
thread's variables and then announces the exit to joiners. The collector, which
puts objects on the finalization queue, is an external action. The access path
of the debugger calls the nub while the program is stopped, and the nub is in
turn called back by nobody: it waits for debug events of the kernel. Whenever
code must run on a thread of the program, the nub continues the event under way
and waits for the next one in a mode of its own.

The hazards found in this survey are listed, each at its line and with the
properties that cover it, under `hazards` in `PROJECT.json`.

## 2. Modules

```
JoinSpec  <--refines--  ThreadJoin            <-- ThreadJoinProofs
                        Monitor               <-- MonitorProofs
ReadWriteLock <--refines-- RWLockMonitor (over Monitor)
                                              <-- RWLockMonitorProofs
ReadWriteLock, Finalization                   <-- DylanLibraryProofs
                        Semaphore             <-- SemaphoreProofs
                        ThreadVariables       <-- ThreadVariablesProofs
RecursiveLock, NonLocalExit, MachineWord,
Allocation                                    <-- RunTimeProofs

NativeThreads  <-- NativeMonitor, NativeRecursive, NativeSemaphore,
                   NativeJoin, NativeTLV   together: MCNativeThreads
                                              <-- NativeThreadsProofs
CallingConvention <-- EngineNodes                   \
AllocationOptions <-- Boehm-, Malloc-,               > together: MCRunTime
                      MPSCollector <-- Allocation   /
MachineWord, NonLocalExit                          /
NubBreakpoints <-- NubProcess <-- NubCalls                   \
DebugMap <-- CoffMap <-- SymbolLookup <-- SourceLookup        > together: MCNub
NubMemory                                                    /
```

Every `MC*.tla` extends one or more of these and adds symmetry or an instance of
a set; a component that needs neither is run as it is, with its own `.cfg`. The
last three MC modules put together components that share no state: a
behaviour uses one of them. A module of proofs about two components extends both, so
the names of one of them say whose they are (`InitExits`, `SpecFinalization`). The `.cfg` files give the constants their values. Operators whose names end in
an underscore and a word (`Exit_unordered`, `LockMutex_late`) are altered
versions of the definition that follows them, each with a mistake a programmer
could make. They take no part in any specification. `PROJECT.json` (`mutants`)
says which property each of them breaks when it is put in place of the original.

Granularity. A critical section of a pthread mutex that contains no other
blocking call is one action. `pthread_cond_wait` splits it: a thread inside is
"asleep" (or "waiting") until a signal, a broadcast or a spurious wakeup makes
it "awake" (or "woken", "notified"), and then contends for the mutex again.
Where a mutex is held across another blocking call, or on return to the
program, its holder is a variable (`nmutex` in Monitor, `mutex` in Semaphore,
`lock` in ThreadVariables and Finalization). Code that reads shared data outside
a lock is split at each read (join-thread's read of the results, the expansion
of a vector of thread variables). History variables (`returned`, `got`, `owed`,
`nesting`, `claims`, `assigned`, `early`, `unsure`, `evenly`, `lost`, `overwritten`) record what properties are about and are never
read by a guard, except to keep the instance finite or to say that a
program releases a claim that exists.

**ThreadJoin** (`llvm-posix-threads.c` 270-427, `thread.dylan` 54-151). `life`
is the progress of a trampoline, `state` the flags, `results` the slot, `pc`,
`vec` and `target` the join a thread is in. `Exit` is the end of the trampoline,
with its broadcast. `JoinRefused`, `JoinAtOnce`, `JoinBlocks`, `WaitAgain` and
`JoinWoken` are the paths through the two primitives: an argument that is
already wanted or joined, a completed argument, none yet, and the two outcomes
of a wakeup. `ReadResults` and `DropResults` are the unlocked accesses of
`join-thread`. A program may join any vector of `JoinArgs`, itself and
duplicates included, and from any thread.

**JoinSpec** is what join promises: a set of free, awaited and taken threads; a
call takes one of the threads it names when that has ended, and a thread is
taken once. ThreadJoin implements it under a mapping of flags to these sets.

**Monitor** (`llvm-posix-threads.c` 799-1080). The simple lock (`locked`, `owner`, the
places "asleep" and "awake") and the notification (`nmutex`, "waiting",
"notified", "expired"). The untimed wait for a lock refuses its own owner, the
timed one does not and sleeps. The owner keeps its value after a release, as in
the code. A timed wait that times out takes no signal that was meant for another
thread, here and in the other modules; POSIX would allow it to. `NotifiedReturn` unlocks the notification's mutex before it waits for
the lock; `ExpiredReturn` does not, and `UnlockMutex` does it afterwards, as
lines 1066-1080 do. Programs may call release and release-all with or without
the lock, since the test at line 980 is compiled out. The constant `Timed` says
which primitives the program calls with timeouts.

**RecursiveLock** (644-779). `nesting` is the number of claims a thread believes
it holds. **Semaphore** (519-624): a timed wait
computes its deadline with the arithmetic of `compute_deadline` (559-569), from a clock and a
timeout of the instance; pthreads refuses a nanosecond part outside
0 .. 999999999, and the primitive then returns GENERAL_ERROR with the mutex
locked.

**ReadWriteLock** (`locks.dylan` 326-451) takes every stretch of the methods
under the inner lock as one step. The release of a read claim may be made by a
thread that does not hold one, as in the code. **RWLockMonitor** is the same
methods statement by statement over an instance of Monitor, so that every step of
the inner lock and of the notification interleaves with them. It is shown to
implement ReadWriteLock; the mapping keeps the old state until release-all has
been carried out.

**ThreadVariables** (`llvm-posix-threads.c` 126-239, `llvm-primitives-thread.dylan`
133-145 and 288-384). `vectors` holds every vector the initial values have been
in, because a thread may have loaded an older one. The statement
`initializations->vector_element[Ptlv_initializations_cursor++] = value` makes
two stores in an order C leaves open; each is a step and either comes first.
`early` records the variables a thread copied after the store of the cursor and
before that of the element. Each thread sees the stores in the order they are made:
the reordering of loads on machines with weak memory is not modelled. The variant with native
thread-local storage (`USE_NATIVE_TLV`) is not compiled in and not modelled.

**Finalization** (`finalization.dylan`). `Set` is the setter where it only
changes the flag; `StartThread`, `ThreadMade` and `Aborted` are the path through
`make (<thread>)`, which drains the queue under the lock and may be left by a
non-local exit of a finalizer, or because no thread can be created. `Continue`
is the test of the draining thread under the lock. What the draining thread does
when a finalizer fails in it is not modelled: the documentation gives it no
handlers.

**The native thread runtimes.** A behaviour picks one of three runtimes
(`runtime`) and one kind of object. Actions are named for the runtime whose code
they are (`PosixTrampoline`, `UnixSleepOnCond`, `WindowsDiscountClaim`); those
without a prefix are common. Kernel calls are atomic, and everything the code
does between two of them, or to a field other threads read without a lock, is a
step. **NativeMonitor** has the simple lock with the notification: posix and
unix keep an error-checking mutex and an owner, which posix clears before it
knows that the release is allowed, and which a wait of posix does not record again;
`unsure` is the threads to which `owned?` may for these reasons deny their lock. Windows keeps a count of claims with a
semaphore for the contended case, and two manual-reset events for the
notification. **NativeRecursive** is the recursive lock, **NativeSemaphore** the
semaphore, which posix emulates where there are no POSIX semaphores,
**NativeJoin** the flags of posix and the kernel joins of the others, for vectors
of threads with repetitions, as `join-thread` takes them (`evenly` is the threads that a
finished join named an even number of times, whose mark posix has put back),
**NativeTLV** the vectors of thread variables, grown for all threads by one
while the writers are kept away by a counter they raise around each store.

**CallingConvention** (`c-run-time.c`) follows one call from the call site, an
apply in one of its forms or a call by the debugger to the body. Entry points are operators on the state of the
TEB and the arguments; each tail call is a step. Numbers that the code writes
out by hand are constants: `Numbered` for xep_0 to xep_9, `ApplyLimit` for the
switch of 64 cases. **EngineNodes** adds generic functions: discriminators,
cache headers, single-method and keyed nodes, their entry points by arity, and
their initialisation. `Spread` is the seven arguments that are passed one by one.
A type check (`INSTANCEP`) and the callback of a discriminator may run any Dylan code on
the same thread, which uses the same TEB: after such a step its registers and buffers
are either as they were or those another call left (`Overwritten`: unknown contents and
one of the argument counts in `Counts`). Arguments held in C variables survive it, those
that an entry point reads from the TEB afterwards do not. Which entry points a function
has is the choice of the C back end (`dfmc/c-back-end/c-emit-object.dylan` 454-522).

**Allocation** chooses a primitive as the run-time does and carries it out over
one of three collectors: reserve, initialise, commit. **AllocationOptions** has
the options of the macro the primitives are made from; the collector modules are
the tables of primitives. An object is a function from cells to contents. The MPS
may flip between any two steps (`MaxFlips`) and the commit is then refused.
`primitive_raw_as_string` copies the C string with its zero into what it allocated (`CopyString`).
Closures are made without the collector's primitives, as copies of a schema; the
variables come with the copy, or later when a closure refers to itself.

**MachineWord** (`c-primitives-math.c` and its macros in `run-time.h`) has every
primitive on machine words as an operator of the two's complement numbers of
`LONG_BIT` bits, and one step that answers a call, by values, through pointers or with
a trap. `build` picks the two ways the file is compiled: with a type of twice the
width, or, on x86_64, with products and dividends put together from halves. On a
64-bit machine of another kind the file would be compiled for words of 32 bits
(`c-primitives-math.c:15`) while words have 64; that build is not modelled.

**NonLocalExit** (`c-run-time-nlx.c`, the macros of `run-time.h`). One thread
enters blocks with an exit procedure or a cleanup clause, computes, leaves them, and
exits to any block it is in. A block and its frame are the depth it was entered at. The
ghost fields `goal` and `wanted` of a frame say which exit runs its clause and what is
to be returned after it. After an exit of the two kinds of `Trouble` (section 4) a
behaviour is not followed.

**NubBreakpoints** holds what the nub keeps of breakpoints and threads, with the
operations as operators from a state to the next. **NubProcess** makes actions of
them: the threads of the program run, hit breakpoints, step and raise events; the
debugger waits for a stop reason, continues, stops, holds and releases threads.
**NubCalls** adds spies and calls run on a thread of the program and the kill
that makes a thread call ExitProcess. What the access path and the debugger
manager guarantee is in the guards: they call the nub while the program is
stopped, save the context of a thread once before a call, take a
thread out of permanent hold before a remote call. A call of the nub that fails
because the thread died is followed up to its return and not further (`pc =
"failed"`).

**DebugMap** is CodeView as the nub walks through it: subsections of records with
a cursor that calls leave where they end. **CoffMap** is the COFF table of an
image without CodeView. **SymbolLookup** has the library descriptors, the calls
about symbols and the boundary cache, **SourceLookup** those about source lines,
frames and interactive code, and the end of the process. The records are
abstract, but their order, nesting and counts, the sizes of subsections and the
reading past their ends are kept. DbgHelp, used for PDB files, is external.

**NubMemory** has a memory of bytes in pages and the context of one thread.
Every read and write of the nub is an action with its conversions; a byte has
`Base` values so that every width has its boundary within reach. A transfer may
stop at a page that refuses. That the nub answers a read of DS with CS
(`register_access.c:341`), and calls a read-only page writable
(`page_protection.c:51`), is in the model as it is.

## 3. Runs

All passing runs turn off the check for deadlock: a program may end with all its
threads returned, or with threads waiting for something nobody will do. That no
thread is stuck when it should not be is stated by properties instead.

| Run | Instance | What it shows |
|---|---|---|
| `join` | a main thread and 3 workers, all vectors of one or two of them, 2 values | `NoLostWakeup`: no joiner of a completed thread is left asleep. `JoinReturnsValues`: the values read without the lock are those of the joined function. `ImplementsJoinSpec`. `JoinTerminates`: a join of threads of which one exits returns |
| `monitor` | 3 threads, both kinds of timeout | `NoMissedNotification`: a release-all between the release of the lock and the wait reaches the waiter. `NoLostSignal`. `WaitContract`: a wait returns owning the lock, nobody takes the lock from its owner, neither a free lock nor the notification's mutex is left to sleepers. `ReleaseBlockedByTimeoutOnly`: nothing but the timeout path of the finding is in the way of a release |
| `monitor_timed_deadlock` | 3 threads, both kinds of timeout | violation of `ReleaseNeverDeadlocks` (section 4) |
| `semaphore` | 4 threads, counter to 3, deadlines on and off the second | `EnoughWakeups`: the units sleepers could take have their wakeups under way. `UnitTaken`: a unit does not stay while threads sleep, unless a refused deadline left the mutex locked |
| `recursive_lock` | 4 threads, depth 3 | `DepthMatchesCount`, `NoLostSignal` |
| `read_write_lock` | 3 threads, 2 read claims each | `ReadersExcludeWriter`: the state counts the read claims granted and not released, or is the one writer, whose claim only its own release ends. `NoLostWakeup` |
| `rw_lock_on_monitor` | 3 threads, 1 read claim each, timeouts | `ImplementsReadWriteLock`: the methods over the steps of the runtime's monitor implement ReadWriteLock |
| `thread_variables` | 3 threads, 3 variables, first size 2 | `InitialValuesSeen`, `AccessesInRange`, with the two stores of an allocation in either order |
| `finalization` | 2 clients, 2 draining threads, 3 objects | `FlagMatchesThread`, `FinalizedOnce`; `FinalizationProgress`: objects queued while the switch stays on are finalized, and the thread ends when it stays off |
| `native_threads` | 3 threads, each runtime, each kind of object; joins of vectors of up to 3 | `LockAndOwnerAgree`, `SleepersAndWaitersAreCounted`, `RecursiveLockIsPassedOn`, `UnitsHaveTakers`, `JoinsAreSound`, `ThreadReadsWhatItStored` |
| `c_run_time` | one call of every function of a small program with up to 6 arguments; one allocation of every kind, up to 3 slots and 3 units, 2 flips; closures of up to 3 variables; one call of every primitive on words of 8 bits; blocks nested 5 deep | `CallsArriveWhole`: a body gets the arguments of its call, with registers and values set, by whichever entry points it is reached; `ErrorsAreDeserved`; `ObjectAsAsked`, `CommittedIsSound` for allocation; `QuotientsAreExact`, `WordsAreExact` for machine words; `FramesVerified`, `ExitsUnwind` for non-local exits |
| `nub` | 2 threads, 1 address with breakpoints, 3 requests or pending events; three programs of one or two libraries; 16 bytes of memory, 6 registers, 2 writes | `BreakpointsAreTransparent`, `SuspensionMatches`, `RunningIsContinued` for control; `LookupsAreTrue` for symbols (closest symbols, tables, the cached bounds); `WrittenIsReadBack` for memory and registers |

Several of these properties name what they leave out, because the code is known
to go wrong there: an apply of more arguments than the buffer holds, a cache
header with more than `Spread` arguments, the unnumbered xep, Dylan code run by a type
check or a discriminator, the fill of
`primitive_word_allocate_filled`, breakpoints dropped on top of one another, the
bounds that come exchanged out of the cache or end at the address first asked for, a
hold set while the program is stopped, the registers Windows checks, the owner of a
posix lock after a wait, threads named twice in a join, variables copied between their
two stores, the roundings and products of section 4. Each exception is stated in the property as the
exact condition under which the code goes wrong, and the comment says so.

Bounds, and why they are enough.

- *Threads.* The properties of locks speak of one owner, one thread that
  competes and one that sleeps; three threads give all the roles at once, and
  four give two sleepers and a newcomer beside a releaser, the case in which one
  signal could be one too few.
- *JoinArgs.* Vectors of two threads overlap in every way (equal, crossed,
  disjoint, with a duplicate); longer ones add nothing that the marks of two do
  not show, and the theorems are for all vectors.
- *MaxDepth, MaxClaims, CountBound.* Guards of the program's calls, never of the
  code's own steps: the counters have no upper limit in the code. Depth 3 and two
  claims per thread distinguish the outermost claim, an inner one and the last one.
- *MinimumSize, MaxVariables.* The code grows from nothing to 32 entries and then
  by half. With a first size of 2 (3 next) the vector is replaced twice within three
  variables, so that a thread can hold a vector that is one or two replacements old. The proportions of growth are the code's.
- *Clock, Timeout.* Values on both sides of the boundary of `compute_deadline`
  and on it.
- *Numbered, Spread, ApplyLimit, MaxArguments.* The code has one entry point per
  arity and switches at fixed counts; two, two and five put calls below, on and
  above each limit.
- *Counts.* What Dylan code run during a dispatch leaves as an argument count: too few
  for a method with keywords that is called spread, and more than enough.
- *LONG_BIT, HalfModulus, Operands, Edges.* Words of eight bits: both ends of the range,
  the divisors 1 and -1, half a word, even and odd divisors, and a sample between. The
  theorem about quotients is for any width.
- *MaxDepth, Returned* of NonLocalExit: an exit out of a clause run by an exit out of a
  clause needs four blocks; two values tell whose was returned.
- *MaxSlots, MaxRepeated, MaxFlips.* Empty, single and several cells, and one
  collection before and one after each step of an allocation.
- *LockCountBound, DepthBound, MaximumCount, InitialSize, VariableBound, JoinBound* of
  the native runtimes: guards of the program's calls, as above; the vector is replaced
  twice, and a join of three names a thread once, twice or three times.
- *MaxWork, MaxOrdinary, MaxSuspend* of the nub. A breakpoint is set, hit and
  cleared with three requests; two events can be pending together with one
  request. One address is enough for two threads to meet at a breakpoint and for a
  stepping breakpoint to be put on an application breakpoint. `MaxSuspend` keeps a
  spy from being called in a spy for ever. Once a breakpoint has been dropped on
  another, or taken for one of the program's own, the events that follow are
  explored and further requests are not.
- *Images, Asked, Wanted, ...* Three programs: CodeView (two functions with blocks,
  data, publics, lines in two segments) with COFF in a library that is moved,
  Dylan code with nested blocks beside a PDB, and a library with public symbols only,
  above the last of which there is nothing. The questions are addresses at the
  start, inside, at the end and outside of functions, in any order and number.
  The maps have no data symbol strictly inside a procedure and their first segment
  of lines is not longer than the others, as linkers make them.
- *Base, At, NubInts, Floats, MaxWrites.* With 4 values of a byte the numbers -1 and
  8 are on both sides of the sign of every width; the three addresses are in
  writable pages, before a page that refuses, and beyond the program. Two writes
  overlap or do not.
- *Drainer.* Identities for draining threads, used again after exit; two are
  enough to see a second thread beside the first.

Symmetry is used over threads in runs without liveness properties only. The run of RWLockMonitor
uses it for a refinement: ReadWriteLock is a safety specification and symmetric
in the threads.

Fairness. `FairSpec` asks for weak fairness of `Step(t)`: a thread that can take
its next step inside a primitive takes it in the end. That is what the scheduler of the operating system
gives to a runnable thread. Nothing is assumed of the program: it need not
release a lock, call a primitive, or return from a thread's function. In the
liveness runs the mutexes that are not variables are not starved, because their
critical sections are single steps. In Finalization the steps of finalizers are
fair too: a finalizer that never returns stops the draining thread in the
program as well. No fairness is assumed of timeouts, spurious wakeups or the
collector.

## 4. Findings

**A timed wait for a notification can block release for ever**
(`monitor_timed_deadlock`, `llvm-posix-threads.c:1068`). The timeout path
waits for the simple lock with the notification's mutex locked. A thread that
holds the lock and calls release-all waits for that mutex. The manual says of
release: "This function does not block for any of the subclasses of
`<synchronization>` provided by the module"
(`src/documentation/source/library-reference/dylan/threads.rst:678`). The
read-write lock inherits it: its release calls release-all with the inner lock
held. `ReleaseBlockedByTimeoutOnly` shows that there is no other way to block.

Other places where the code does what it should not are in the models as they
are, without a run of their own: the release of a semaphore does not look at the
maximum (`llvm-posix-threads.c:550`), a deadline on a second is refused and leaves
the mutex locked (lines 565 and 592), a thread that copies the initial values between
the stores of cursor and element of a new variable keeps the unbound marker (line 233,
`early`), a duplicate join returns with the join lock held
(`posix-threads.c:624`), a list of vectors is cut without its lock (line 480), and
those named in section 3. So are, in the other thread runtimes and the nub:

- `owned?` of a simple lock in `posix-threads.c`: a wait for a notification does not
  record the owner again (797-820), and a release by a thread that does not own the lock
  clears it before it is refused (1012). `owned?`, which
  "Tests to see if the lock has been claimed by the current thread"
  (`src/documentation/source/library-reference/dylan/threads.rst:917`), then answers
  false to the thread that has the lock. `LockAndOwnerAgree` says that this is all: it
  never answers true to another thread, and is right in the other two runtimes.
- A join of several threads in `posix-threads.c` sets marks with "or" and takes them
  back with "exclusive or" (660-663): a thread named an even number of times stays
  marked, and every later join of it is refused. `JoinsAreSound` names it (`evenly`).
- On Windows the last waiter can time out while a release is about to wake it
  (`windows-threads-primitives.c:776`): the anti-notifier then stays reset and later waits
  and releases block. And a refused claim can lose the count
  of another thread (186, `torn`). The first is reachable and not stated as a property.
- `nub_application_stop` suspends a thread; if it is put on permanent hold before the
  continuation, `resume_thread` (`app_control.c:769`) passes it over, and its suspend
  count stays one too high after `resume-thread` has taken the hold back. A second stop
  takes that suspension for its own. `SuspensionMatches` counts these in `lost` and
  shows that every count is otherwise the sum of what the access path asked for.
- Where a debug map has no symbol above the nearest one, the upper bound of a function
  is the address asked for (`debug_map.c:2163`, 2229), and the cache of bounds then
  answers smaller addresses with it. `nub_nearest_symbols` leaves its result unassigned
  for a library without CodeView (`symbol_lookup.c:465`).

In the C run-time:

- Dylan code run by the type checks of an entry point that keeps the arguments in the
  TEB (`rest_xep`, the keyed ones, `xep` with more than nine arguments;
  `c-run-time.c:1209-1211`) costs the call these arguments, and what is tested after it
  is no longer what the caller passed. Code run by a discriminator does no harm to the
  arguments, but a `key_mep` reached behind it takes its count from `teb->argument_count`
  (1609), and one that is too low makes it read the vector of optional arguments where
  there is none. `CallsArriveWhole` and `ErrorsAreDeserved` say that nothing else goes
  wrong, and that the dispatch of other generic functions is not affected.
- `round/` of machine words (`c-primitives-math.c`): an odd quotient with a
  remainder just below half of an odd divisor is taken for a tie, and the least word,
  which has no absolute value, rounds nearly everything the wrong way. `RoundsWrong` names exactly those, and
  `QuotientsAreExact` says that all the others are right and these are wrong.
- On x86_64 the product of two words loses the carry of the middle products, and
  division of double and unsigned dividends reads only the low halves of the words;
  wrapping an unsigned word is wrong from an eighth to a quarter of the range.
- Overflow (`src/documentation/source/library-reference/common-dylan/machine-words.rst`
  401-411, 489-501). The product of two words is computed unsigned (line 510): it reports
  overflow for products with a negative operand that fit a word, and none for
  products of words that are not negative, even where there is one. The
  product of one word (`c-primitives-math.c:539`) reports overflow when it is 0 though
  an operand is not, and when it is the least word. The negative and absolute value of the least word are computed by
  an operation C leaves undefined, so that the overflow the manual promises may be missing.
  The left shift with overflow never reports any. `WordsAreExact` names each of these,
  and says that the results and flags of all other operands are right.
- Non-local exits (`Trouble`): an exit to a block inside a cleanup clause that another
  exit runs can clear the destination of that exit, and an exit that leaves a clause
  that was fallen through to runs the clause a second time. The documentation promises
  the clause once (`src/documentation/source/intro-dylan/conditions.rst:150-155`), and
  the tests (`dylan/tests/control.dylan` 269-309, 354) leave a clause by an exit only in
  ways that work.

Most of these are listed as hazards.

## 5. Proofs

| Module | Theorem | Property |
|---|---|---|
| ThreadJoinProofs | `TypeCorrect`, `MarksCorrect`, `WakeupsNotLost`, `ValuesDelivered`, `Refinement` | `TypeOK`, `MarksMatchWaiters`, `NoLostWakeup`, `JoinReturnsValues`, `ImplementsJoinSpec` |
| MonitorProofs | `TypeCorrect`, `NoNotificationIsMissed`, `NoSignalIsLost`, `OnlyTimeoutsBlockRelease`, `RelockIsNeverRefused`, `WaitReturnsTheLock`, `OwnershipIsRespected` | `TypeOK`, `NoMissedNotification`, `NoLostSignal`, `ReleaseBlockedByTimeoutOnly`, `RelockNeverRefused`, and `WaitReturnsOwning` and `OwnershipRespected`, the safety parts of `WaitContract` |
| SemaphoreProofs | `TypeCorrect`, `WakeupsAreEnough` | `TypeOK`, `EnoughWakeups` |
| ThreadVariablesProofs | `TypeCorrect`, `AccessesStayInRange`, `VectorsAreRooted`, `InitialValuesAreSeen` | `TypeOK`, `AccessesInRange`, `VectorsRooted`, `InitialValuesSeen` |
| RWLockMonitorProofs | `MethodsImplementReadWriteLock`, `MonitorIsUsedCorrectly`, `NotifyIsBlockedByTimeoutOnly`, `CodeExcludesWriter` | `ImplementsReadWriteLock`; that the methods draw no error from the lock and the notification, that only an expired wait holds up a release, and the exclusion of ReadWriteLock carried over to the methods |
| DylanLibraryProofs | `TypeCorrect`, `FlagIsRight`, `AutoHasItsThread`, `ObjectsAreFinalizedOnce`, `ObjectsMoveOn`; `RWTypeCorrect`, `RWExclusion`, `RWWakeupsNotLost` | Finalization: `TypeFinalization`, `FlagMatchesThread`, `AutoHasThread`, `FinalizedOnce`, an action property; ReadWriteLock: `TypeOK`, `ReadersExcludeWriter`, `NoLostWakeup` |
| NativeThreadsProofs | `RecursiveLocksArePassedOn`, `JoinsReturnEndedThreads`, `ReleasedUnitsHaveTakers`, `LocksAndOwnersAgree`, `SleepersAndWaitersCount`, `ThreadsReadWhatTheyStored` | `RecursiveLockIsPassedOn`, `JoinsAreSound`, `UnitsHaveTakers`, `LockAndOwnerAgree`, `SleepersAndWaitersAreCounted`, `ThreadReadsWhatItStored` |
| RunTimeProofs | `FramesAreVerified`, `ExitsAreUnwound`; `QuotientsExact`; `CommittedObjectsAreSound`; `RecTypeCorrect`, `RecMutualExclusion`, `RecSignalsNotLost` | `FramesVerified`, `ExitsUnwind`; `QuotientsAreExact`; `CommittedIsSound`; RecursiveLock: `TypeOK`, `DepthMatchesCount`, `NoLostSignal` |

They hold for every set of threads, every collection of join vectors, every set
of values, variables and objects, every width of a machine word, every size of an object,
and every bound on
nesting, claims, counters and vectors. Where a proof counts threads their set is finite (Semaphore, the
native runtimes). The other assumptions are the named ones of the modules: the
main thread is not a worker, the no-value is not a value, the no-thread not a
thread, threads are not numbers (the state of a read-write lock is one or the
other), the bounds are natural numbers (that of the length of a join too), a semaphore is made with a count within
its bound, the first size of a vector of variables is at least two (it is 32; one for
the native runtimes), a word has an even number of values that is the square of its
half's.
Each inductive invariant was checked with TLC on the instance of the run before
it was proved.

*ThreadJoin.* The inductive invariant joins to the four properties that the flags
follow the life of a thread (COMPLETED exactly when it has exited, JOINED only
after that), that a thread some blocked call waits for is not JOINED, that
the values of a function stay in the slot until the thread is joined, and that a
caller past the lock has its thread for itself. The last two carry the proof of
`JoinReturnsValues`: the values are read outside the lock, and it is the JOINED
flag, set inside it, that keeps every other caller away from the slot. The
refinement follows step by step: exits and joins are steps of the
abstract specification, waits and wakeups change nothing it sees.

*RecursiveLock.* The three invariants are inductive together. The end of the wait
loop claims the lock by incrementing the count without comparing the owner. That
is correct because the count is zero there, and `DepthMatchesCount` says that
then nobody has a claim.

*ReadWriteLock.* The state is compared with the cardinality of the set of claims,
so the invariant adds that the set is finite. Then the lock becomes free exactly
when the last claim is released, which is the only step that calls release-all;
in any other state no sleeper could enter. A write claim is in the set until its own
thread's release takes it out, and the state names that thread: so nobody else's
release ends it, although release compares nothing but the state. That is the argument for
`NoLostWakeup`, and it is why a wakeup when a reader leaves is not needed.

*Monitor.* What a thread holds follows from the place it has reached: the
notification's mutex in the parts of a wait that lock it, the lock before the wait
releases it and not after. `Tied` says this for each place. `OwedReturn` says that
a thread addressed by a release-all is on its way back to the lock and without the
mutex. From the two it follows that no release-all passes a waiter by, that the
timed wait of the finding is the only holder of the mutex a release may have to
wait for, and that the call of the lock primitive at the end of a wait, whose
result the code ignores, is never refused.

*RWLockMonitor.* The methods of the read-write lock run over every step of Monitor.
The invariant `MethodsInv` has three parts: types, with the mutex of the notification
and the inner lock held by whoever is in the part of a method that holds them (`Tied`,
per thread and place, which contains what the methods need of Monitor), and that the
state and the claims agree (`Counted`). The mapping gives a thread of the abstract lock
the place its method has reached: "awake" from the call of wait-for to the test, and
again once it was notified, "asleep" from a test that failed, and for
a thread that has released the lock the old state until release-all has been carried
out. Every step is then a step of ReadWriteLock or changes nothing it sees; the step
of release-all is the abstract release. The delicate case is a waiter between the
release of the inner lock and its sleep on the notification: it is already asleep in the
abstract lock, and a release-all must reach it, which it does because it holds the mutex
of the notification until it sleeps. With the refinement, the exclusion proved of
ReadWriteLock holds of the methods (`CodeExcludesWriter`).

*Semaphore.* A release that finds somebody asleep wakes one, and a thread leaves
the set of the woken only with a unit or when there is none: `EnoughWakeups` is
inductive with the type invariant. A timeout takes a sleeper away, and never a
unit. `ReleasesBounded`, which counts the releases under way, is only there
because the instances bound the counter.

*ThreadVariables.* The reader takes no lock, so the invariant is about what it has
loaded: a loaded cursor is at most the present one, and the vector loaded after it
has every element below that cursor, as vectors only grow and an element below
the cursor is not stored again (`AllocationInv`, `ExpansionInv`). That accesses stay
in range holds in either order of the two stores of the allocating thread. What the
elements are is `ValuesInv`: in the shared vector every element below the cursor is an
initial value, but the one being stored (`Hole`), and in the vector of a thread what
it assigned, an initial value, or the hole it copied (`early`). A vector is replaced
only by the next allocation, when the hole of the last one has been filled: so a loaded
vector that is no longer the current one has no hole (`SharedInv`).

*Finalization.* The lock is held from the test of `*draining-thread-active?*` to the
start of the thread, so that while a client makes a thread there is none, and
the draining thread clears the flag and ends in one critical section. The
invariant says so element by element, as the properties count the threads and
the holders of an object.

*The native runtimes.* A step of the composition is a step of one component or
leaves its variables alone, so each component has an invariant of its own, with
one part for each runtime. For the recursive lock of posix it relates the depth of
the mutex, the count and the claims not yet counted; of windows, where the lock is
a count and a semaphore, it says that there is one busy thread or one unit of the
semaphore, never both, and that the claimants are no more than the count
says. The simple lock of windows needs the same and the threads about to
decrement; when a decrement was lost (`torn`) the count says nothing any more and
what is left is exclusion. The join of posix needs that the flags follow the life
of a thread, that one call waits for it, and that a mark without such a call is of a
thread a finished join named an even number of times: the last loop of a join leaves
or removes the mark by the parity of that number. For the emulated semaphore a unit
with sleepers has a taker: a thread about to test or to signal, or one woken.
The thread variables need the longest invariant (`TLVSound`): one thread has the lock
of the list, writers are counted while they store, the list reaches the vector of every
registered thread, vectors are long enough for the variables allocated, the copies made
so far hold what the old vectors hold, and no thread stores into an old vector while
they are made. The list is the least set that contains its head and with every element
the next one, so that no recursion along it is needed. After the cut of the list without its
lock (`cut`, a fault of the posix code) nothing is claimed.

*NonLocalExit.* Of the blocks in force the linked ones are those with a cleanup clause
not yet unwound to; the current frame at any place is the topmost linked one below it
(`Links`). The destination of an exit is kept in the frame below the clause it runs, and
only that of the last exit is sure to be there (`Destined`); that is enough because
the exit of an inner clause goes past the clause outside it (`Nested`), unless it is
one of the kinds of `Trouble`. That a chain has a top is the least-number principle.

*MachineWord.* The theorem reduces every division to `ldiv`, the truncated quotient, and the
adjustments of floor, ceiling and round to the sign of the remainder and of the divisor.
The arithmetic is nonlinear, which the provers do not do alone: lemmas state what they
need of a product (a multiple of the divisor smaller than it is zero, the quotient of a
larger dividend is not smaller), and that an adjustment by one does not leave the range
of a word.

*Allocation.* The options and the pool of a primitive follow from its name, in the
table of each of the three collectors (`NameSays`, `PoolSays`). So every kind of request
fits the primitive the run-time chooses for it: what that primitive writes covers each
cell the collector will look at (`Fit`, `Covered`). Closures are the exception, whose
environment is stored after the object is made: they need memory that comes cleared.
Boehm's collector gives that, malloc has no collector to look at them, and `allocate` knows
no other. The inductive invariant
`AllocatedInv` follows one block: it is as it came until it is initialised; then it
holds what the primitive wrote, with references as they were at some moment, which is
now unless there was a collection since the block was reserved. In that case the
commit refuses and the block is reserved again, except that of a wrapper, which
is not moved and is filled without references. A collection corrects the
references of what is committed and scanned, so nothing stale is left behind.

Only model-checked, and why:

- all liveness properties, the last two parts of `WaitContract` among them: the
  prover has no fairness and no ENABLED;
- `CallsArriveWhole` and `ErrorsAreDeserved` of the calls and `LookupsAreTrue` of the
  symbols, which compute over sequences (keywords, arguments, records) by folds or
  recursion: what these compute for every length is an induction over data;
- `ObjectAsAsked` of Allocation: the value of every cell for every primitive, finite
  tables over three collectors whose cases TLC enumerates;
- `WordsAreExact`: products and shifts by powers of two, nonlinear in both operands;
- `BreakpointsAreTransparent`, `SuspensionMatches`, `RunningIsContinued` and
  `WrittenIsReadBack` of the nub: the inductive invariant of a program under a debugger
  has not been worked out.

## 6. What is left out

- Errors of pthread calls that only a misuse of pthreads could cause
  (`pthread_mutex_lock` of an invalid mutex), and a `pthread_create` that fails.
- Refused deadlines for simple and recursive locks and for notifications; they
  are modelled where they are worst, in Semaphore.
- The lengths of timeouts. A timeout may pass in any wait; that the read-write
  lock begins its timeout again with each turn of its loop is listed as a hazard
  without a property.
- Fairness of a read-write lock to its writers: readers enter while a writer
  waits, by design.
- Thread names, identifiers and priorities, the debugger's view of threads, the
  atomic operations of `<thread>` variables.
- C run-time: slot accessors, multiple values, symbols, stack allocators (whose
  macro `primitive_byte_stack_allocate` is nowhere defined) and statistics; the
  collectors themselves, which are third-party code. `primitive_xep_call`, which
  nothing calls.
- Nub: attaching to a running process, the profiler, the remote nub (CORBA), types
  in debug information, the printing of records, names of registers, and code
  nothing calls (`cv_symbol_debug_start_offset`, `cv_symbol_debug_end_offset`,
  `cv_public_sym_encloses_IP32`, `is_exported_name_in_debug_map`,
  `iterate_coff_symbols`, `copy_coff_symbol_name_into_buffer`). The nub ignores
  UNLOAD_DLL events (`misc_utils.c:572`), so a library that was unloaded keeps its
  descriptor; unloading is not part of the model.
- OLE, COM and the other foreign interfaces, which translate calls and keep little
  state of their own that is not the operating system's.
- Everything else listed as `not_modelled` in `PROJECT.json`, with its reason.

## 7. Plan

Done: the LLVM runtime's threads and the Dylan library above them, the thread
runtimes of the other back ends, with proofs; calls and closures of
the C run-time; its allocation, machine words and non-local exits, with proofs; the debugger nub. Left, in this order:

1. *Proofs*: the suspend counts of NubProcess; `ObjectAsAsked` of Allocation.
2. *jam*: `thread-pool.dylan` and `blocking-deque.dylan` over an abstract monitor,
   then the scheduler of `jam-target-build.dylan`, with the property that a target
   is built once and after everything it depends on.
3. *Asynchronous writes*: the pending queue, the buffer pool and close.
4. *Dispatch and tables*: replacement of a discriminator under concurrent calls;
   rehash against garbage collection.
5. *Pure algorithms*: deques and class linearization against reference
   definitions.
