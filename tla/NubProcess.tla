----------------------------- MODULE NubProcess -----------------------------
(***************************************************************************)
(* The debugger nub for Windows NT at work: the access path calls it while *)
(* the program is stopped, it waits for debug events (stop_reasons.c),     *)
(* continues and kills the program (app_control.c), and runs code on one   *)
(* of the program's threads (remote_function_call.c and                    *)
(* remote_object_registration.c), all while the threads of the program run *)
(* and raise events.                                                       *)
(*                                                                         *)
(* s is the state of NubBreakpoints and, from DBGPROCESS, app (State),     *)
(* exiting (ExitingProcess), spy (ThreadRunningSpy) and created            *)
(* (ThreadCreatedDuringSpyCall).                                           *)
(* pc says where the debugger is: in the access path, in a wait for a stop *)
(* reason, in the wait of a call, or ("failed") after a call that failed,  *)
(* of which the rest is not explored.  call describes the call under way,  *)
(* held is the access path's thread-suspended?, cookie the contexts saved  *)
(* by remote calls, lost (history) how many suspensions of a thread by a   *)
(* stop command the continuation passed over, because the thread had been  *)
(* put on permanent hold meanwhile (app_control.c:767-769), and made the   *)
(* number of requests of the access path.                                  *)
(***************************************************************************)
EXTENDS NubBreakpoints

CONSTANTS MaxSuspend,   \* bound on a suspend count when a spy call starts
          MaxOrdinary,  \* bound on the events pending when one is raised that is
                        \* not a breakpoint, a step or a new thread
          MaxWork       \* bound on the requests of the access path other than
                        \* stop, continue, wait and kill, and the events pending

VARIABLES s, pc, call, held, cookie, lost, made

vars == <<s, pc, call, held, cookie, lost, made>>

NoCall == [thread |-> NoThread, purpose |-> "none"]
NoCookie == [held |-> FALSE, context |-> NoEvent]

StopStates == {"frozen", "byDebugger", "knownBreakpoint", "firstChance",
               "secondChance", "debugEvent", "invokedDebugger"}
StoppedApp == {"stoppedByCommand", "stoppedByEvent", "stoppedAtBreakpoint"}

Descriptor == [valid |-> TRUE, waiting |-> FALSE, stopped |-> "frozen",
               replace |-> NoPoint, stepping |-> FALSE]

(***************************************************************************)
(* create_and_debug_process: the primary thread is created suspended.      *)
(***************************************************************************)
Created ==
    [code |-> [a \in Addr |-> Own(a)],
     pt |-> [p \in Point |-> Freed(p[2])],
     list |-> <<Main>>,
     thr |-> [t \in Thread |-> Descriptor],
     os |-> [t \in Thread |->
               [life |-> IF t = Main THEN "alive" ELSE "unborn",
                susp |-> IF t = Main THEN 1 ELSE 0,
                eip |-> Elsewhere, past |-> FALSE, trap |-> FALSE]],
     queue |-> <<>>, reported |-> NoEvent, spoilt |-> {},
     app |-> "unstarted", exiting |-> FALSE,
     spy |-> NoThread, created |-> NoThread]

Init ==
    /\ s = Created
    /\ pc = "access" /\ call = NoCall
    /\ held = [t \in Thread |-> FALSE]
    /\ cookie = [t \in Thread |-> NoCookie]
    /\ lost = [t \in Thread |-> 0] /\ made = 0

(***************************************************************************)
(* The program                                                             *)
(***************************************************************************)

Event(kind, t, a) == [kind |-> kind, thread |-> t, addr |-> a, caught |-> TRUE]

\* All threads are frozen from the report of an event until it is continued.
Runs(t) ==
    /\ s.os[t].life = "alive" /\ s.os[t].susp = 0
    /\ s.reported = NoEvent
    /\ \A i \in DOMAIN s.queue : s.queue[i].thread # t
    /\ s.app # "dead" /\ pc # "failed"

\* One event may always be raised, more while few requests have been made.
Room == s.queue = <<>> \/ made + Len(s.queue) < MaxWork

Raise(e) ==
    /\ Len(s.queue) < MaxOrdinary
    /\ s' = [s EXCEPT !.queue = Append(@, e)]
    /\ UNCHANGED <<pc, call, held, cookie, lost, made>>

AtBreakpoint(t) ==
    /\ ~s.os[t].past
    /\ \/ s.os[t].eip = Stub
       \/ s.os[t].eip \in Addr /\ s.code[s.os[t].eip] = "int3"

HitBreakpoint(t) ==
    /\ Runs(t) /\ AtBreakpoint(t)
    /\ Room
    /\ s' = [s EXCEPT !.queue = Append(@, Event("breakpoint", t, s.os[t].eip)),
                      !.os[t].past = TRUE]
    /\ UNCHANGED <<pc, call, held, cookie, lost, made>>

Execute(t) ==
    /\ Runs(t) /\ ~AtBreakpoint(t)
    /\ s.os[t].trap => Room
    /\ \E a \in Addr \cup {Elsewhere} :
         s' = [s EXCEPT !.os[t].eip = a, !.os[t].past = FALSE,
                        !.queue = IF s.os[t].trap
                                  THEN Append(@, Event("singleStep", t, a)) ELSE @]
    /\ UNCHANGED <<pc, call, held, cookie, lost, made>>

AtOrdinaryCode(t) == Runs(t) /\ s.os[t].eip = Elsewhere

RaiseException(t) ==
    /\ AtOrdinaryCode(t)
    /\ \E caught \in BOOLEAN :
         Raise([Event("firstChance", t, Elsewhere) EXCEPT !.caught = caught])

LoadLibrary(t) == AtOrdinaryCode(t) /\ Raise(Event("library", t, Elsewhere))

\* Also from a spy function, which runs at Stub.
CreateThread(t, u) ==
    /\ Runs(t)
    /\ s.os[t].eip = Elsewhere \/ (pc = "call" /\ s.os[t].eip = Stub /\ ~s.os[t].past)
    /\ s.os[u].life = "unborn"
    /\ Room
    /\ s' = [s EXCEPT !.os[u].life = "alive",
                      !.queue = Append(@, Event("createThread", u, Elsewhere))]
    /\ UNCHANGED <<pc, call, held, cookie, lost, made>>

ExitThread(t) == t # Main /\ AtOrdinaryCode(t) /\ Raise(Event("exitThread", t, Elsewhere))

ExitProcess(t) == AtOrdinaryCode(t) /\ s.exiting /\ Raise(Event("exitProcess", t, Elsewhere))

(***************************************************************************)
(* app_control.c                                                           *)
(***************************************************************************)

\* The descriptors of threads that have exited are dropped after the
\* continuation, except that of the main thread.  Nothing reads the stop state
\* of a thread that runs again before it is set anew, except of those on hold
\* and while the program exits, so that it can be forgotten here.
continue_application(r, handled) ==
    LET ran == FoldLeft(LAMBDA q, t : apply_appropriate_continuation_to_thread(q, t, handled),
                        [r EXCEPT !.app = "running"], r.list)
        keep(t) == t = Main \/ ran.thr[t].valid
        forget(t) == ~ran.exiting /\ ~ran.thr[t].waiting
    IN  [ran EXCEPT !.list = SelectSeq(@, keep),
                    !.thr = [t \in Thread |-> IF forget(t) THEN [@[t] EXCEPT !.stopped = "frozen"]
                                                          ELSE @[t]]]

\* Only the first start; a restart of a stopped program is not modelled.
nub_application_restart ==
    /\ pc = "access" /\ s.app = "unstarted"
    /\ s' = resume_thread([s EXCEPT !.app = "running"], Main)
    /\ UNCHANGED <<pc, call, held, cookie, lost, made>>

\* The threads on permanent hold that were stopped by command and whose stop
\* state nothing has changed since.  A continuation does not resume them.
PassedOver ==
    {t \in ToSet(s.list) : s.thr[t].waiting /\ s.thr[t].stopped = "byDebugger"}

\* A second stop does not suspend the threads passed over, and takes their
\* suspension by an earlier one for its own.
nub_application_stop ==
    /\ pc = "access" /\ s.app = "running" /\ ~s.exiting
    /\ LET free == {t \in ToSet(s.list) : ~s.thr[t].waiting}
           flagged == [s EXCEPT !.app = "stoppedByCommand",
                         !.thr = [t \in Thread |-> IF t \in free
                                    THEN [@[t] EXCEPT !.stopped = "byDebugger"] ELSE @[t]]]
       IN  s' = suspend_all(flagged)
    /\ lost' = [t \in Thread |-> lost[t] - (IF t \in PassedOver THEN 1 ELSE 0)]
    /\ UNCHANGED <<pc, call, held, cookie, made>>

\* The debugger may call the nub.
AccessPath == pc = "access" /\ s.app \in StoppedApp /\ ~s.exiting

\* A request of the access path.  What it asks for after a breakpoint has been
\* spoilt is not explored, to keep the instance small.
Request ==
    /\ AccessPath /\ s.spoilt = {}
    /\ made + Len(s.queue) < MaxWork
    /\ made' = made + 1

Known(t) == t \in ToSet(s.list) /\ s.thr[t].valid

\* continue of the access path: first resume the given threads.
Continue(threads, handled) ==
    /\ AccessPath
    /\ \A t \in threads : held[t] /\ ~s.thr[t].waiting
    /\ LET resumed == FoldLeft(resume_thread, s, SetToSeq(threads))
       IN  s' = continue_application(resumed, handled)
    /\ held' = [t \in Thread |-> held[t] /\ t \notin threads]
    /\ lost' = [t \in Thread |->
                  lost[t] + (IF s.app = "stoppedByCommand" /\ t \in PassedOver THEN 1 ELSE 0)]
    /\ UNCHANGED <<pc, call, cookie, made>>

nub_application_continue == \E R \in SUBSET Thread : Continue(R, TRUE)

nub_application_continue_unhandled == Continue({}, FALSE)

\* suspend-thread and resume-thread of the access path.  The environment ends
\* the permanent hold of a thread before it resumes it.
nub_thread_stop(t) ==
    /\ Request /\ Known(t) /\ ~held[t]
    /\ held' = [held EXCEPT ![t] = TRUE]
    /\ s' = suspend_thread(s, t)
    /\ UNCHANGED <<pc, call, cookie, lost>>

nub_thread_continue(t) ==
    /\ Request /\ Known(t) /\ held[t] /\ ~s.thr[t].waiting
    /\ held' = [held EXCEPT ![t] = FALSE]
    /\ s' = resume_thread(s, t)
    /\ UNCHANGED <<pc, call, cookie, lost>>

\* Permanent hold, for threads that the access path has suspended.
nub_thread_suspended(t) ==
    /\ Request /\ Known(t) /\ held[t] /\ ~s.thr[t].waiting
    /\ s' = [s EXCEPT !.thr[t].waiting = TRUE]
    /\ UNCHANGED <<pc, call, held, cookie, lost>>

nub_thread_resumed(t) ==
    /\ Request /\ Known(t) /\ s.thr[t].waiting
    /\ s' = [s EXCEPT !.thr[t].waiting = FALSE]
    /\ UNCHANGED <<pc, call, held, cookie, lost>>

(***************************************************************************)
(* debug_points.c: the state changes are those of NubBreakpoints.          *)
(***************************************************************************)
Breakpoints ==
    /\ Request
    /\ \/ \E a \in Addr : s' = nub_set_breakpoint(s, a)
       \/ \E a \in Addr : s' = nub_clear_breakpoint(s, a)
       \/ \E t \in ToSet(s.list) : held[t] /\ s' = nub_recover_breakpoint(s, t)
    /\ UNCHANGED <<pc, call, held, cookie, lost>>

Stepping(t) ==
    /\ Request /\ Known(t)
    /\ LET steps == \E a \in Addr : s.pt[<<t, a>>].listed IN
       \/ ~steps /\ \E a \in Addr, type \in {"stepOver", "stepInto"} :
            s' = nub_set_stepping_control_on_thread(s, t, <<a>>, type)
       \/ steps /\ s' = nub_clear_stepping_control_on_thread(s, t)
       \/ ~s.thr[t].stepping /\ s' = nub_thread_begin_instruction_stepping(s, t)
       \/ s.thr[t].stepping /\ s' = nub_thread_end_instruction_stepping(s, t)
    /\ UNCHANGED <<pc, call, held, cookie, lost>>

(***************************************************************************)
(* stop_reasons.c: what an event means.  Each operator gives the state     *)
(* after the event and the decision about it.                              *)
(***************************************************************************)

Stop(r, t, state, decision) ==
    [s |-> [r EXCEPT !.thr[t].stopped = state], code |-> decision]

process_this_first_chance_breakpoint(r, t, e, spyMode, inFrame) ==
    LET hit == handle_breakpoint_hit(r, t, e.addr, inFrame) IN
    CASE hit.code = "unknown" ->
            Stop([hit.s EXCEPT !.spoilt = @ \cup ({e.addr} \cap Addr)],
                 t, "invokedDebugger", "hardCodedBreakpoint")
      [] hit.code = "outOfContext" \/ spyMode ->
            Stop(hit.s, t, "knownBreakpoint", "handled")
      [] OTHER -> Stop(hit.s, t, "knownBreakpoint", hit.code)

process_this_first_chance_single_step(r, t, spyMode) ==
    LET back == IF r.thr[t].replace # NoPoint THEN recover_from_breakpoint(r, t) ELSE r IN
    Stop(back, t, "firstChance",
         IF r.thr[t].stepping /\ ~spyMode THEN "singleStep" ELSE "handled")

\* Breakpoints and single steps have codes of their own; the codes of the other
\* exceptions, known or not, are told apart only by the debugger.
exception_to_nub_code(e) == IF e.kind \in {"breakpoint", "singleStep"} THEN e.kind ELSE "exception"

\* A thread that runs a spy function returns to a breakpoint in the stub, and
\* no thread gets there otherwise.  Other exceptions go to the program first,
\* unless the access path has asked to receive them (ReceivingFirstChance of
\* their code) and this is not a spy call.
process_this_first_chance_exception(r, t, e, spyMode, inFrame, received) ==
    LET nubcode == exception_to_nub_code(e) IN
    CASE nubcode = "breakpoint" /\ spyMode /\ e.addr = Stub ->
            Stop(r, t, "knownBreakpoint", "spyReturn")
      [] nubcode = "breakpoint" /\ ~(spyMode /\ e.addr = Stub) ->
            process_this_first_chance_breakpoint(r, t, e, spyMode, inFrame)
      [] nubcode = "singleStep" -> process_this_first_chance_single_step(r, t, spyMode)
      [] OTHER -> Stop(r, t, "firstChance",
                       IF received /\ ~spyMode THEN "firstChance" ELSE "unhandled")

process_this_second_chance_exception(r, t) == Stop(r, t, "secondChance", "secondChance")

process_this_debug_event(r, t, e, spyMode, inFrame, received) ==
    CASE e.kind \in {"breakpoint", "singleStep", "firstChance"} ->
            process_this_first_chance_exception(r, t, e, spyMode, inFrame, received)
      [] e.kind = "secondChance" -> process_this_second_chance_exception(r, t)
      [] e.kind = "createThread" /\ spyMode -> Stop(r, t, "debugEvent", "handled")
      [] OTHER -> Stop(r, t, "debugEvent", e.kind)

flag_all_threads_frozen(r) ==
    [r EXCEPT !.thr = [t \in Thread |-> IF t \in ToSet(r.list)
                                        THEN [@[t] EXCEPT !.stopped = "frozen"] ELSE @[t]]]

add_thread_descriptor(r, t) == [r EXCEPT !.list = Append(@, t), !.thr[t] = Descriptor]

housekeep_for_stop_reason(r, e) ==
    CASE e.kind = "createThread" -> add_thread_descriptor(r, e.thread)
      [] e.kind = "exitThread" -> [r EXCEPT !.thr[e.thread].valid = FALSE]
      [] e.kind = "breakpoint" -> [r EXCEPT !.app = "stoppedAtBreakpoint"]
      [] OTHER -> r

\* WaitForDebugEvent: the next event raised, once the last was continued.
Received == s.queue # <<>> /\ s.reported = NoEvent

Taken == [s EXCEPT !.queue = Tail(@), !.reported = Head(s.queue)]

\* The normal wait takes the state from the event, the spy's wait only a new
\* thread.
Prepared(spyMode) ==
    LET e == Head(s.queue) IN
    IF spyMode
    THEN IF e.kind = "createThread" THEN housekeep_for_stop_reason(Taken, e) ELSE Taken
    ELSE housekeep_for_stop_reason
           (flag_all_threads_frozen([Taken EXCEPT !.app = "stoppedByEvent"]), e)

Decision(spyMode, inFrame, received) ==
    LET e == Head(s.queue) IN
    process_this_debug_event(Prepared(spyMode), e.thread, e, spyMode, inFrame, received)

\* One event of a wait in the normal mode.  An event that the nub deals with
\* itself is continued at once, unless the time is up; while the program
\* exits, every other event but the exits is continued too.
WaitNormal(r, decision, timeUp) ==
    CASE decision \in {"handled", "unhandled"} ->
            IF timeUp /\ ~r.exiting THEN [s |-> r, pc |-> "access"]
            ELSE [s |-> continue_application(r, decision = "handled"), pc |-> "wait"]
      [] r.exiting /\ decision \notin {"exitThread", "exitProcess"} ->
            [s |-> continue_application(r, TRUE), pc |-> "wait"]
      [] OTHER -> [s |-> r, pc |-> "access"]

\* What an event does to a call that is under way (NubCalls).  An event that
\* is not the spy's return and not dealt with here ends the wait.
WaitSpy(r, t, decision) ==
    CASE decision = "handled" /\ r.thr[t].stopped = "debugEvent" ->
            [s |-> apply_appropriate_continuation_to_thread([r EXCEPT !.created = t], t, TRUE),
             done |-> FALSE]
      [] decision = "handled" /\ r.thr[t].stopped # "debugEvent" ->
            [s |-> apply_appropriate_continuation_to_thread(r, r.spy, TRUE), done |-> FALSE]
      [] decision = "unhandled" ->
            [s |-> apply_appropriate_continuation_to_thread(r, r.spy, FALSE), done |-> FALSE]
      [] OTHER -> [s |-> r, done |-> TRUE]

nub_wait_for_stop_reason ==
    /\ pc = "access" /\ (s.app = "running" \/ (s.exiting /\ s.app # "dead"))
    /\ pc' = "wait"
    /\ UNCHANGED <<s, call, held, cookie, lost, made>>

\* Whether the debugger wants to see the first chance of an exception that is
\* no breakpoint.  Off at first for all of these; every one is receivable, and
\* the debugger sets and unsets them at will, also while the program runs.
ReceivingFirstChance == BOOLEAN

wait_for_stop_reason_internal ==
    /\ pc = "wait" /\ Received
    /\ \E inFrame, timeUp \in BOOLEAN, received \in ReceivingFirstChance :
         LET d == Decision(FALSE, inFrame, received)
             w == WaitNormal(d.s, d.code, timeUp)
         IN  s' = w.s /\ pc' = w.pc
    /\ UNCHANGED <<call, held, cookie, lost, made>>

\* No event came in time.
TimedOut ==
    /\ pc = "wait"
    /\ IF s.exiting THEN s' = continue_application(s, TRUE) /\ UNCHANGED pc
       ELSE pc' = "access" /\ UNCHANGED s
    /\ UNCHANGED <<call, held, cookie, lost, made>>
=============================================================================
