--------------------------- MODULE NubBreakpoints ---------------------------
(***************************************************************************)
(* Breakpoints and thread control of the debugger nub for Windows NT       *)
(* (debug_points.c and the lower half of app_control.c), written as        *)
(* operators from the state of the nub and its debuggee to their next      *)
(* state, so that NubProcess can put them together in the order of the     *)
(* calls of the C code.                                                    *)
(*                                                                         *)
(* A state s has the fields                                                *)
(*   code      the byte at each address: "own" code or the "int3" of a     *)
(*             breakpoint                                                  *)
(*   pt        the DEBUG_POINTs: <<App, a>> is the application breakpoint  *)
(*             at a (an element of process->DebugPointList when listed),   *)
(*             <<t, a>> the stepping capture breakpoint of thread t at a   *)
(*             (an element of t->SteppingCaptureBreakpoints).  A point     *)
(*             that is not listed is freed memory, of which nothing is     *)
(*             read                                                        *)
(*   list      process->ThreadList                                         *)
(*   thr       the DBGTHREAD descriptors; replace is BreakpointToReplace   *)
(*             while NeedsBreakpointReplacement is set, and NoPoint else   *)
(*   os        what the kernel keeps for a thread: suspend count, the      *)
(*             instruction pointer (past: just after the breakpoint        *)
(*             instruction at eip), the trap flag                          *)
(*   queue     debug events raised and not yet received by the nub         *)
(*   reported  the debug event received and not yet continued, if any      *)
(*   spoilt    (history) addresses at which a breakpoint was dropped on    *)
(*             top of an instruction that was not the program's own, or    *)
(*             from a descriptor that had been freed, or lifted where      *)
(*             another was in force                                        *)
(***************************************************************************)
EXTENDS Integers, Sequences, FiniteSets, SequencesExt

CONSTANTS
    Thread,        \* the threads of the debuggee
    Main,          \* its primary thread, the head of ThreadList
    Addr,          \* the code addresses of interest
    HardCoded,     \* those whose own instruction is a breakpoint
    App,           \* the list of application breakpoints, as an owner of points
    NoThread, NoPoint, NoEvent,
    Elsewhere,     \* any other code address
    Stub           \* the instructions the nub writes on a thread's stack

ASSUME MainAssumption == Main \in Thread
ASSUME HardCodedAssumption == HardCoded \subseteq Addr

Point == ({App} \cup Thread) \X Addr

\* The program's own instruction at a.
Own(a) == IF a \in HardCoded THEN "int3" ELSE "own"

Freed(a) == [listed |-> FALSE, enabled |-> FALSE, saved |-> Own(a), type |-> "stepOver"]

(***************************************************************************)
(* Suspending, resuming and continuing                                     *)
(***************************************************************************)

\* Threads on permanent hold by the debugger are left alone.
suspend_thread(s, t) ==
    IF s.thr[t].waiting \/ s.os[t].life # "alive" THEN s
    ELSE [s EXCEPT !.os[t].susp = @ + 1]

\* Mutant: threads on permanent hold are resumed too.
resume_thread_on_hold(s, t) ==
    IF s.os[t].susp = 0 THEN s ELSE [s EXCEPT !.os[t].susp = @ - 1]

resume_thread(s, t) ==
    IF s.thr[t].waiting \/ s.os[t].susp = 0 THEN s
    ELSE [s EXCEPT !.os[t].susp = @ - 1]

\* The thread runs, however often it was suspended and whether on hold or not.
execute_thread(s, t) == [s EXCEPT !.os[t].susp = 0]

suspend_all_except(s, t) ==
    FoldLeft(LAMBDA r, u : IF u = t THEN r ELSE suspend_thread(r, u), s, s.list)

suspend_all(s) == FoldLeft(suspend_thread, s, s.list)

resume_all_except(s, t) ==
    FoldLeft(LAMBDA r, u : IF u = t THEN r ELSE resume_thread(r, u), s, s.list)

\* ContinueDebugEvent: does something only for the thread of the event that
\* the nub received last.  An exception given back to the program comes again
\* as a second chance when the program has no handler for it.
ContinueDebugEvent(s, t, handled) ==
    LET e == s.reported
        again == [e EXCEPT !.kind = "secondChance"]
    IN  IF e = NoEvent \/ e.thread # t THEN s
        ELSE CASE e.kind = "exitThread" ->
                    [s EXCEPT !.reported = NoEvent, !.os[t].life = "ended"]
               [] e.kind = "exitProcess" ->
                    [s EXCEPT !.reported = NoEvent,
                              !.os = [u \in Thread |-> [s.os[u] EXCEPT !.life = "ended"]]]
               [] e.kind = "firstChance" /\ ~handled /\ ~e.caught ->
                    [s EXCEPT !.reported = NoEvent, !.queue = Append(@, again)]
               [] OTHER -> [s EXCEPT !.reported = NoEvent]

continue_thread(s, t, handled) == ContinueDebugEvent(s, t, handled)

\* Release whichever thread the last event was received on.
nub_threads_continue(s) ==
    FoldLeft(LAMBDA r, t : continue_thread(r, t, TRUE), s, s.list)

\* Mutant: without THREAD_STATE invoked debugger.
continuation_without_invoked(s, t, handled) ==
    CASE s.thr[t].stopped = "byDebugger" -> resume_thread(s, t)
      [] s.thr[t].stopped \in {"knownBreakpoint", "debugEvent"} -> continue_thread(s, t, TRUE)
      [] s.thr[t].stopped \in {"firstChance", "secondChance"} -> continue_thread(s, t, handled)
      [] OTHER -> s

apply_appropriate_continuation_to_thread(s, t, handled) ==
    CASE s.thr[t].stopped = "byDebugger" -> resume_thread(s, t)
      [] s.thr[t].stopped \in {"knownBreakpoint", "invokedDebugger", "debugEvent"} ->
            continue_thread(s, t, TRUE)
      [] s.thr[t].stopped \in {"firstChance", "secondChance"} ->
            continue_thread(s, t, handled)
      [] OTHER -> s                                \* frozen

(***************************************************************************)
(* Breakpoint instructions                                                 *)
(***************************************************************************)

\* Keep the byte that is there, whatever it is, and write the instruction.
drop_breakpoint(s, p) ==
    LET a == p[2] IN
    [s EXCEPT !.pt[p] = IF @.listed THEN [@ EXCEPT !.enabled = TRUE, !.saved = s.code[a]] ELSE @,
              !.code[a] = "int3",
              !.spoilt = IF s.code[a] # Own(a) \/ ~s.pt[p].listed THEN @ \cup {a} ELSE @]

\* Write back what was kept, whether the instruction is there or not.
lift_breakpoint(s, p) ==
    LET a == p[2]
        other(o) == <<o, a>> # p /\ s.pt[<<o, a>>].listed /\ s.pt[<<o, a>>].enabled
    IN  [s EXCEPT !.pt[p].enabled = FALSE,
                  !.code[a] = s.pt[p].saved,
                  !.spoilt = IF \E o \in {App} \cup Thread : other(o) THEN @ \cup {a} ELSE @]

breakpoint_from_address(s, a) ==
    IF a \in Addr /\ s.pt[<<App, a>>].listed THEN <<App, a>> ELSE NoPoint

stepping_capture_breakpoint_for_this_thread(s, t, a) ==
    IF a \in Addr /\ s.pt[<<t, a>>].listed THEN <<t, a>> ELSE NoPoint

stepping_capture_breakpoint_for_any_thread(s, a) ==
    LET has(t) == a \in Addr /\ s.pt[<<t, a>>].listed
        own    == SelectSeq(s.list, has)
    IN  IF own = <<>> THEN NoPoint ELSE <<Head(own), a>>

\* A step into is in context on the thread that asked for it; for the other
\* steps the frame pointers are compared, with the result inFrame.
check_context_for_stepping_capture(s, t, p, inFrame) ==
    p[1] = t /\ (s.pt[p].type = "stepInto" \/ inFrame)

rewind_thread_eip(s, t) == [s EXCEPT !.os[t].past = FALSE]

prepare_to_single_step_for_breakpoint_recovery(s, t) == [s EXCEPT !.os[t].trap = TRUE]

\* Lift the breakpoint so that the thread can execute the instruction below
\* it; the single step after that is the time to put it back.
handle_application_breakpoint(s, t, p) ==
    LET lifted == rewind_thread_eip(lift_breakpoint(s, p), t) IN
    IF s.exiting THEN lifted
    ELSE [prepare_to_single_step_for_breakpoint_recovery(lifted, t)
            EXCEPT !.thr[t].replace = p]

\* Mutant: the instruction pointer stays behind the breakpoint.
handle_stepping_capture_breakpoint_no_rewind(s, t, p) == lift_breakpoint(s, p)

\* Stepping capture breakpoints are hit once.
handle_stepping_capture_breakpoint(s, t, p) == rewind_thread_eip(lift_breakpoint(s, p), t)

handle_breakpoint_hit(s, t, a, inFrame) ==
    LET mine   == stepping_capture_breakpoint_for_this_thread(s, t, a)
        global == breakpoint_from_address(s, a)
        any    == stepping_capture_breakpoint_for_any_thread(s, a)
    IN  IF mine # NoPoint /\ check_context_for_stepping_capture(s, t, mine, inFrame)
        THEN [s |-> handle_stepping_capture_breakpoint(s, t, mine), code |-> s.pt[mine].type]
        ELSE IF global # NoPoint
        THEN [s |-> handle_application_breakpoint(s, t, global), code |-> "application"]
        ELSE IF any # NoPoint
        THEN [s |-> handle_application_breakpoint(s, t, any), code |-> "outOfContext"]
        ELSE [s |-> s, code |-> "unknown"]

\* Put back the breakpoint the thread had to pass.
recover_from_breakpoint(s, t) ==
    LET back == drop_breakpoint([s EXCEPT !.thr[t].replace = NoPoint], s.thr[t].replace) IN
    [back EXCEPT !.os[t].trap = @ /\ s.thr[t].stepping]

set_application_breakpoint(s, a) ==
    drop_breakpoint([s EXCEPT !.pt[<<App, a>>].listed = TRUE], <<App, a>>)

\* Threads that wait to put the breakpoint back are stopped from doing it.
clear_application_breakpoint(s, a) ==
    LET p == <<App, a>>
        lifted == lift_breakpoint(s, p)
        at(t)  == s.thr[t].replace = p /\ t \in ToSet(s.list)
    IN  IF s.exiting THEN s
        ELSE [lifted EXCEPT
                !.pt[p] = Freed(a),
                !.thr = [t \in Thread |-> IF at(t) THEN [@[t] EXCEPT !.replace = NoPoint] ELSE @[t]],
                !.os = [t \in Thread |->
                          IF at(t) THEN [@[t] EXCEPT !.trap = @ /\ s.thr[t].stepping] ELSE @[t]]]

add_stepping_capture_breakpoint_for_thread(s, t, a, type) ==
    drop_breakpoint([s EXCEPT !.pt[<<t, a>>].listed = TRUE, !.pt[<<t, a>>].type = type], <<t, a>>)

lift_all_stepping_capture_breakpoints(s, t) ==
    LET mine   == SetToSeq({a \in Addr : s.pt[<<t, a>>].listed})
        lifted == FoldLeft(LAMBDA r, a : lift_breakpoint(r, <<t, a>>), s, mine)
    IN  [lifted EXCEPT !.pt = [p \in Point |-> IF p[1] = t THEN Freed(p[2]) ELSE @[p]]]

(***************************************************************************)
(* The calls the access path makes about breakpoints                       *)
(***************************************************************************)

\* A breakpoint that some thread has lifted to get past it is put back now.
nub_set_breakpoint(s, a) ==
    LET candidate == breakpoint_from_address(s, a) IN
    IF candidate = NoPoint THEN set_application_breakpoint(s, a)
    ELSE IF s.pt[candidate].enabled THEN s
    ELSE drop_breakpoint(s, candidate)

nub_clear_breakpoint(s, a) ==
    IF breakpoint_from_address(s, a) = NoPoint THEN s ELSE clear_application_breakpoint(s, a)

nub_recover_breakpoint(s, t) ==
    IF s.thr[t].replace # NoPoint THEN recover_from_breakpoint(s, t) ELSE s

\* A location where the thread already stands would never let it get away.
nub_set_stepping_control_on_thread(s, t, locations, type) ==
    FoldLeft(LAMBDA r, a : IF a = r.os[t].eip /\ ~r.os[t].past THEN r
                           ELSE add_stepping_capture_breakpoint_for_thread(r, t, a, type),
             s, locations)

nub_clear_stepping_control_on_thread(s, t) == lift_all_stepping_capture_breakpoints(s, t)

nub_thread_begin_instruction_stepping(s, t) ==
    [s EXCEPT !.os[t].trap = TRUE, !.thr[t].stepping = TRUE]

nub_thread_end_instruction_stepping(s, t) ==
    [s EXCEPT !.os[t].trap = FALSE, !.thr[t].stepping = FALSE]
=============================================================================
