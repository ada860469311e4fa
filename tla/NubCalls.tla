------------------------------ MODULE NubCalls ------------------------------
(***************************************************************************)
(* Calls of the debugger into the program: nub_remote_call_spy, which runs *)
(* a spy function on a thread of the program and waits for its return,     *)
(* nub_setup_function_call, which makes a thread call a function when the  *)
(* program continues, and nub_kill_application, which makes one call       *)
(* ExitProcess.  Each first runs a few instructions on the thread's own    *)
(* stack (nub_allocate_stack_space).  While such code runs the other       *)
(* threads are suspended and the nub waits for events in the spy mode.     *)
(***************************************************************************)
EXTENDS NubProcess

\* The context of a thread, as GetThreadContext gives it.
Context(r, t) == [eip |-> r.os[t].eip, past |-> r.os[t].past, trap |-> r.os[t].trap]

SetThreadContext(r, t, c) ==
    [r EXCEPT !.os[t].eip = c.eip, !.os[t].past = c.past, !.os[t].trap = c.trap]

(***************************************************************************)
(* nub_allocate_stack_space: all threads are suspended, the event under    *)
(* way is continued, and the thread alone is put into execution.           *)
(***************************************************************************)
AtStub(r, t) == [eip |-> Stub, past |-> FALSE,
                 trap |-> r.os[t].trap /\ r.thr[t].replace = NoPoint]

nub_allocate_stack_space(r, t) ==
    LET ready == suspend_all(SetThreadContext(r, t, AtStub(r, t)))
        known == [ready EXCEPT !.spy = t]
    IN  execute_thread(nub_threads_continue(known), t)

\* A call is described by what it has to put back.
Call(t, purpose, wasHeld, wasWaiting) ==
    [thread |-> t, purpose |-> purpose, context |-> Context(s, t),
     replace |-> s.thr[t].replace, held |-> wasHeld, waiting |-> wasWaiting]

CanCall(t) ==
    /\ Known(t) /\ s.os[t].life = "alive"
    /\ \A u \in Thread : s.os[u].susp < MaxSuspend
    /\ \A i \in DOMAIN s.queue : s.queue[i].thread # t

\* remote-call-spy of the access path: a suspended thread is released for
\* the call, without a word to the nub, and so is one on permanent hold.
nub_remote_call_spy(t) ==
    /\ Request /\ CanCall(t)
    /\ call' = Call(t, "spy", held[t], s.thr[t].waiting)
    /\ held' = [held EXCEPT ![t] = FALSE]
    /\ s' = nub_allocate_stack_space([s EXCEPT !.thr[t].waiting = FALSE], t)
    /\ lost' = [lost EXCEPT ![t] = 0]
    /\ pc' = "alloc"
    /\ UNCHANGED cookie

\* remote-call: the environment takes a thread out of permanent hold before.
nub_setup_function_call(t) ==
    /\ Request /\ CanCall(t) /\ ~s.thr[t].waiting /\ cookie[t] = NoCookie
    /\ call' = Call(t, "setup", held[t], FALSE)
    /\ held' = [held EXCEPT ![t] = FALSE]
    /\ s' = nub_allocate_stack_space(s, t)
    /\ lost' = [lost EXCEPT ![t] = 0]
    /\ pc' = "alloc"
    /\ UNCHANGED cookie

\* With the stack space at hand, the thread is made to call the function.  The
\* breakpoint it stood at is put back, for it will not single step now.
CallFunction(r) ==
    LET t == call.thread
        back == IF call.replace = NoPoint THEN r
                ELSE [drop_breakpoint(r, call.replace) EXCEPT !.thr[t].replace = NoPoint]
    IN  SetThreadContext(back, t,
          [eip |-> Elsewhere, past |-> FALSE,
           trap |-> call.context.trap /\ (call.replace = NoPoint \/ r.thr[t].stepping)])

\* Stages 5 and 6 of nub_remote_call_spy.
CallSpy(r) ==
    LET t == call.thread
        ready == SetThreadContext(r, t, [eip |-> Stub, past |-> FALSE,
                                         trap |-> call.context.trap /\ call.replace = NoPoint])
        alone == suspend_all_except([ready EXCEPT !.created = NoThread], t)
        known == [alone EXCEPT !.spy = t]
    IN  apply_appropriate_continuation_to_thread(known, t, TRUE)

\* ExitProcess runs alone and ends the other threads itself.
RunExitProcess(r) ==
    continue_thread(suspend_all_except(r, call.thread), call.thread, TRUE)

\* Nobody reads ThreadRunningSpy and ThreadCreatedDuringSpyCall after a call.
Ended(r) == [r EXCEPT !.spy = NoThread, !.created = NoThread]

\* The access path suspends the thread again and puts it back on hold.
Again(r) ==
    LET t == call.thread
        stopped == IF call.held THEN suspend_thread(r, t) ELSE r
    IN  [stopped EXCEPT !.thr[t].waiting = call.waiting]

AccessPathAgain(r) ==
    /\ s' = Ended(Again(r))
    /\ held' = [held EXCEPT ![call.thread] = call.held]
    /\ call' = NoCall
    /\ UNCHANGED <<cookie, lost>>

\* The end of nub_allocate_stack_space, when the thread came to the end of
\* the stub, and the rest of its caller.
Allocated(r) ==
    LET ready == resume_all_except(r, call.thread) IN
    /\ UNCHANGED lost
    /\ \/ /\ call.purpose = "spy"
          /\ s' = CallSpy(ready) /\ pc' = "call"
          /\ UNCHANGED <<call, held, cookie>>
       \/ /\ call.purpose = "setup"
          /\ s' = Ended(CallFunction(ready))
          /\ cookie' = [cookie EXCEPT ![call.thread] =
                          [held |-> call.held, context |-> call.context]]
          /\ pc' = "access" /\ call' = NoCall
          /\ UNCHANGED held
       \/ /\ call.purpose = "exit"
          /\ s' = Ended(RunExitProcess(CallFunction(ready)))
          /\ pc' = "access" /\ call' = NoCall
          /\ UNCHANGED <<held, cookie>>

\* The same when it did not: the thread gets its old context back.
AllocationFailed(r) ==
    LET back == SetThreadContext(resume_all_except(r, call.thread), call.thread, call.context) IN
    /\ pc' = "failed"
    /\ \/ call.purpose = "spy" /\ AccessPathAgain(back)
       \/ /\ call.purpose = "setup" /\ s' = Ended(back)
          /\ call' = NoCall /\ UNCHANGED <<held, cookie, lost>>
       \/ /\ call.purpose = "exit" /\ s' = Ended(RunExitProcess(back))
          /\ call' = NoCall /\ UNCHANGED <<held, cookie, lost>>

\* Stage 7b of nub_remote_call_spy.
SpyFinished(r) ==
    /\ AccessPathAgain([SetThreadContext(r, call.thread, call.context)
                          EXCEPT !.thr[call.thread].replace = call.replace])
    /\ pc' = "access"

\* Stages 6b and 7 of nub_remote_call_spy: when the spy function made a
\* thread, the spy's thread is suspended and left to continue, and the nub
\* waits for the new thread to get to its breakpoint.
SpyReturned(r) ==
    LET t == call.thread
        new == r.created
        still == apply_appropriate_continuation_to_thread(suspend_thread(r, t), t, TRUE)
    IN  \/ new = NoThread /\ SpyFinished(resume_all_except(r, t))
        \/ /\ new # NoThread
           /\ s' = [still EXCEPT !.spy = new]
           /\ pc' = "interactive"
           /\ UNCHANGED <<call, held, cookie, lost>>

\* The call is given up: the other threads stay suspended.
SpyFailed(r) == AccessPathAgain(r) /\ pc' = "failed"

SpyEvent ==
    /\ pc \in {"alloc", "call", "interactive"} /\ Received
    /\ UNCHANGED made
    /\ \E inFrame \in BOOLEAN :
         LET d == Decision(TRUE, inFrame, FALSE)
             w == WaitSpy(d.s, Head(s.queue).thread, d.code)
         IN  \/ /\ ~w.done
                /\ s' = w.s /\ UNCHANGED <<pc, call, held, cookie, lost>>
             \/ /\ w.done /\ pc = "alloc" /\ d.code = "spyReturn"
                /\ Allocated(w.s)
             \/ /\ w.done /\ pc = "alloc" /\ d.code # "spyReturn"
                /\ AllocationFailed(w.s)
             \/ /\ w.done /\ pc = "call" /\ d.code = "spyReturn"
                /\ SpyReturned(w.s)
             \/ /\ w.done /\ pc = "call" /\ d.code # "spyReturn"
                /\ SpyFailed(w.s)
             \/ /\ w.done /\ pc = "interactive"
                /\ SpyFinished(resume_all_except(w.s, s.created))

\* 30 seconds for the stub, 5 for a spy function.
SpyTimedOut ==
    /\ UNCHANGED made
    /\ \/ pc = "alloc" /\ AllocationFailed(s)
       \/ pc = "call" /\ SpyFailed(s)
       \/ pc = "interactive" /\ SpyFinished(resume_all_except(s, s.created))

\* remote-restore-context, when the function has returned.
nub_restore_context(t) ==
    /\ Request /\ Known(t) /\ cookie[t] # NoCookie
    /\ s.thr[t].stopped = "knownBreakpoint" /\ s.os[t].eip = cookie[t].context.eip
    /\ LET back == SetThreadContext(s, t, cookie[t].context) IN
       s' = IF cookie[t].held /\ ~held[t] THEN suspend_thread(back, t) ELSE back
    /\ held' = [held EXCEPT ![t] = @ \/ cookie[t].held]
    /\ cookie' = [cookie EXCEPT ![t] = NoCookie]
    /\ UNCHANGED <<pc, call, lost>>

\* The process is gone, and with it all that the nub could do to it.
Dead == [Created EXCEPT !.app = "dead"]

\* The first valid thread on permanent hold is made to call ExitProcess; with
\* none, or without that function, the process is terminated.
nub_kill_application ==
    LET onHold(t) == s.thr[t].waiting /\ s.thr[t].valid
        found == SelectSeq(s.list, onHold)
        taken == IF found = <<>> THEN s ELSE [s EXCEPT !.thr[Head(found)].waiting = FALSE]
    IN  /\ AccessPath
        /\ \A t \in Thread : s.os[t].susp < MaxSuspend
        /\ \/ /\ s' = Dead
              /\ UNCHANGED <<pc, call>>
           \/ /\ found # <<>>
              /\ call' = Call(Head(found), "exit", FALSE, FALSE)
              /\ s' = nub_allocate_stack_space([taken EXCEPT !.exiting = TRUE], Head(found))
              /\ pc' = "alloc"
        /\ UNCHANGED <<held, cookie, lost, made>>

\* A second kill only continues the program on its way out.
KillAgain ==
    /\ pc = "access" /\ s.exiting /\ s.app # "dead"
    /\ s' = continue_application(s, TRUE)
    /\ UNCHANGED <<pc, call, held, cookie, lost, made>>

Program ==
    \E t \in Thread :
        \/ HitBreakpoint(t) \/ Execute(t) \/ RaiseException(t) \/ LoadLibrary(t)
        \/ ExitThread(t) \/ ExitProcess(t)
        \/ \E u \in Thread : CreateThread(t, u)

Debugger ==
    \/ nub_application_restart \/ nub_application_stop
    \/ nub_application_continue \/ nub_application_continue_unhandled
    \/ Breakpoints \/ nub_kill_application \/ KillAgain
    \/ nub_wait_for_stop_reason \/ wait_for_stop_reason_internal \/ TimedOut
    \/ SpyEvent \/ SpyTimedOut
    \/ \E t \in Thread :
         \/ nub_thread_stop(t) \/ nub_thread_continue(t)
         \/ nub_thread_suspended(t) \/ nub_thread_resumed(t)
         \/ Stepping(t)
         \/ nub_remote_call_spy(t) \/ nub_setup_function_call(t) \/ nub_restore_context(t)

Next == Program \/ Debugger

Spec == Init /\ [][Next]_vars

(***************************************************************************)
(* Properties                                                              *)
(***************************************************************************)

\* Breakpoints do not change the program: except where one was dropped on top
\* of another or from freed memory, lifted under another, or taken for one of
\* the program's own, the instruction at every address is the program's own or
\* a breakpoint in force that has kept it, and no thread goes on after a
\* breakpoint without executing the instruction below it (drop_breakpoint,
\* lift_breakpoint, rewind_thread_eip and their callers).
BreakpointsAreTransparent ==
    \A a \in Addr \ s.spoilt :
        /\ \A o \in {App} \cup Thread :
             s.pt[<<o, a>>].listed =>
                 s.pt[<<o, a>>].saved = Own(a) /\ (s.pt[<<o, a>>].enabled => s.code[a] = "int3")
        /\ \/ s.code[a] = Own(a)
           \/ \E o \in {App} \cup Thread : s.pt[<<o, a>>].listed /\ s.pt[<<o, a>>].enabled
        /\ \A t \in Thread :
             Runs(t) /\ ~s.exiting /\ s.os[t].eip = a /\ s.os[t].past => a \in HardCoded

\* Whenever the debugger is outside a spy call, the kernel's suspend count of a
\* thread is one if the access path has suspended the thread, plus one if the
\* program was stopped by command, plus one for every stop by command during
\* which the thread was put on permanent hold: the continuation passes over a
\* thread on hold (resume_thread, app_control.c:767-769, after
\* suspend-application-thread, thread-objects.dylan:333-356), so its count stays
\* that much too high, on hold and after resume-application-thread, until a
\* remote call executes it (suspend_all, resume_all_except, execute_thread).
SuspensionMatches ==
    pc \in {"access", "wait"} /\ ~s.exiting /\ s.app \notin {"unstarted", "dead"} =>
        \A t \in ToSet(s.list) :
            s.os[t].life = "alive" =>
                s.os[t].susp = (IF held[t] THEN 1 ELSE 0) + lost[t]
                    + (IF s.app = "stoppedByCommand" /\ s.thr[t].stopped = "byDebugger" THEN 1 ELSE 0)

\* A program that the nub calls running is not frozen by an event that nobody
\* continued (continue_application finds the event's thread by its stop state).
RunningIsContinued == s.app = "running" /\ pc \in {"access", "wait"} => s.reported = NoEvent
=============================================================================
