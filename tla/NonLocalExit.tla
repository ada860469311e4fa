----------------------------- MODULE NonLocalExit -----------------------------
(***************************************************************************)
(* Blocks with an exit procedure and blocks with a cleanup clause, in the  *)
(* C back end: the frames the compiled code keeps on the stack, and the    *)
(* run-time calls that link them, leave them and unwind them.  One thread  *)
(* enters and leaves blocks in every way; a block, and its frame, is the   *)
(* depth it was entered at, and frame 0 is teb->top_uwp_frame.             *)
(***************************************************************************)
EXTENDS Integers

CONSTANTS MaxDepth,     \* bound on the blocks in force
          Returned      \* what a computation may leave as return values

ASSUME ExitAssumption == MaxDepth \in Nat \ {0} /\ Returned # {}

Blocks == 1 .. MaxDepth
Frames == 0 .. MaxDepth
NULL == -1
Cleanups == {"fell", "unwound"}

VARIABLES
  depth,      \* the blocks in force are 1 .. depth, the last entered last
  uwp_frame,  \* teb->uwp_frame
  frame,      \* the frames, see below
  result,     \* teb->return_values
  troubled    \* ghost: an exit of the kinds of Trouble has been taken

nlxVars == <<depth, uwp_frame, frame, result, troubled>>

(* Of a frame:                                                              *)
(*   phase: "exit" of a block with an exit procedure; of one with a cleanup *)
(*     clause "body", or the clause, "fell" through to or "unwound" to      *)
(*   link: present_ or previous_unwind_protect_frame                        *)
(*   ultimate: ultimate_destination, 0 if it is NULL                        *)
(*   values: return_values                                                  *)
(*   goal, wanted: ghosts, of a cleanup clause: the block the exit that     *)
(*     unwound to it is to, and what is to be returned after it             *)
Unset == CHOOSE v \in Returned : TRUE
NewFrame(phase, link) ==
  [phase |-> phase, link |-> link, ultimate |-> 0, values |-> Unset, goal |-> 0, wanted |-> Unset]

InForce == 1 .. depth
Exits == {t \in InForce : frame[t].phase = "exit"}

(* The stack above a block is dead when it is returned to.                  *)
Dead == NewFrame("dead", NULL)
Cut(frames, d) == [f \in Frames |-> IF f <= d THEN frames[f] ELSE Dead]

InitExits ==
  /\ depth = 0 /\ uwp_frame = 0 /\ troubled = FALSE /\ result \in Returned
  /\ frame = [f \in Frames |-> Dead]

------------------------------------------------------------------------------
(* ENTER_EXIT_FRAME and ENTER_UNWIND_FRAME declare the frame on the stack.  *)
SETUP_EXIT_FRAME ==
  /\ depth < MaxDepth /\ depth' = depth + 1
  /\ frame' = [frame EXCEPT ![depth + 1] = NewFrame("exit", uwp_frame)]
  /\ UNCHANGED <<uwp_frame, result, troubled>>

SETUP_UNWIND_FRAME ==
  /\ depth < MaxDepth /\ depth' = depth + 1
  /\ frame' = [frame EXCEPT ![depth + 1] = NewFrame("body", uwp_frame)]
  /\ uwp_frame' = depth + 1
  /\ UNCHANGED <<result, troubled>>

(* A block with an exit procedure ends normally: nothing is called.         *)
LeaveExit ==
  /\ depth > 0 /\ frame[depth].phase = "exit"
  /\ depth' = depth - 1 /\ frame' = Cut(frame, depth - 1)
  /\ UNCHANGED <<uwp_frame, result, troubled>>

Compute ==
  /\ \E v \in Returned : result' = v
  /\ UNCHANGED <<depth, uwp_frame, frame, troubled>>

(* Mutant: the frame an exit is completed in stays marked.                  *)
Land_marked(t, frames) ==
  /\ uwp_frame = frames[t].link
  /\ frame' = Cut(frames, t - 1)
  /\ depth' = t - 1 /\ result' = frames[t].values
  /\ UNCHANGED uwp_frame

(* The jump to the destination of an exit, and FRAME_RETVAL there.          *)
Land(t, frames) ==
  /\ uwp_frame = frames[t].link
  /\ frame' = Cut([frames EXCEPT ![uwp_frame].ultimate = 0], t - 1)
  /\ depth' = t - 1 /\ result' = frames[t].values
  /\ UNCHANGED uwp_frame

Started(f, t, v) == [f EXCEPT !.phase = "unwound", !.goal = t, !.wanted = v]

(* Mutant: the frame unwound to is not popped.                              *)
Unwind_unpopped(t, frames, v) ==
  /\ uwp_frame # frames[t].link
  /\ frame' = Cut([frames EXCEPT ![uwp_frame] = [Started(@, t, v) EXCEPT !.ultimate = t]], uwp_frame)
  /\ depth' = uwp_frame
  /\ UNCHANGED <<result, uwp_frame>>

(* The jump to the cleanup clause of the current frame.                     *)
Unwind(t, frames, v) ==
  LET next_frame == uwp_frame
  IN  /\ uwp_frame # frames[t].link
      /\ uwp_frame' = frames[next_frame].link
      /\ frame' = Cut([frames EXCEPT ![next_frame] = Started(@, t, v), ![uwp_frame'].ultimate = t], next_frame)
      /\ depth' = next_frame
      /\ UNCHANGED result

nlx_step(t, frames, v) == Land(t, frames) \/ Unwind(t, frames, v)

(* The body of a block with a cleanup clause ends normally.                 *)
FALL_THROUGH_UNWIND ==
  /\ depth > 0 /\ frame[depth].phase = "body"
  /\ frame' = [[frame EXCEPT ![uwp_frame] = [@ EXCEPT !.values = result, !.ultimate = 0]]
                 EXCEPT ![depth] = [@ EXCEPT !.phase = "fell", !.wanted = result]]
  /\ UNCHANGED <<depth, uwp_frame, result, troubled>>

(* Mutant: the frame of the block is not popped.                            *)
ReturnFromCleanup_unpopped ==
  /\ result' = frame[uwp_frame].values
  /\ depth' = depth - 1 /\ frame' = Cut(frame, depth - 1)
  /\ UNCHANGED uwp_frame

(* CONTINUE_UNWIND, at the end of a cleanup clause: the block returns, or   *)
(* the exit goes on.                                                        *)
ReturnFromCleanup ==
  /\ result' = frame[uwp_frame].values
  /\ uwp_frame' = frame[uwp_frame].link
  /\ depth' = depth - 1 /\ frame' = Cut(frame, depth - 1)

CONTINUE_UNWIND ==
  /\ depth > 0 /\ frame[depth].phase \in Cleanups
  /\ \/ frame[uwp_frame].ultimate = 0 /\ ReturnFromCleanup
     \/ frame[uwp_frame].ultimate # 0 /\ nlx_step(frame[uwp_frame].ultimate, frame, frame[depth].wanted)
  /\ UNCHANGED troubled

(* Two kinds of exits are not unwound as they should be.  One to a block    *)
(* inside a cleanup clause that was unwound to may clear the destination of *)
(* the exit that unwound to the clause.  One that leaves a cleanup clause   *)
(* that was fallen through to finds the frame of the clause still linked,   *)
(* and runs the clause again.  A thread is not followed after one of these, *)
(* nor after one of the first kind that a frame in between makes harmless.  *)
Trouble(t) == \/ \E a \in 1 .. t - 1 : frame[a].phase = "unwound"
              \/ \E a \in t + 1 .. depth : frame[a].phase = "fell"

NLX(t) ==
  /\ troubled' = Trouble(t)
  /\ nlx_step(t, [frame EXCEPT ![t].values = result], result)

NextExits ==
  /\ ~troubled
  /\ \/ SETUP_EXIT_FRAME \/ SETUP_UNWIND_FRAME \/ LeaveExit \/ Compute
     \/ FALL_THROUGH_UNWIND \/ CONTINUE_UNWIND \/ \E t \in Exits : NLX(t)

SpecExits == InitExits /\ [][NextExits]_nlxVars

------------------------------------------------------------------------------
(* What the checks of a build with VERIFY_NLX test.  The chain is what the  *)
(* loops walk: the least set with the current frame and, with every frame   *)
(* but the top, the one before it.                                          *)
Chain == {f \in Frames \cup {NULL} :
            \A S \in SUBSET (Frames \cup {NULL}) :
              uwp_frame \in S /\ (\A g \in S \cap Blocks : frame[g].link \in S) => f \in S}

verify_nlx_stack == NULL \notin Chain
verify_nlx_bef(t) == frame[t].link \in Chain

(* The frames verify_nlx_stack and verify_nlx_bef look for are there before *)
(* every exit: the chain never reaches NULL, it goes through the frame that *)
(* was current when each block that can be exited to was entered, and       *)
(* through no frame of a block that has been left.                          *)
FramesVerified ==
  ~troubled =>
    /\ verify_nlx_stack
    /\ \A t \in Exits : verify_nlx_bef(t)
    /\ Chain \subseteq 0 .. depth

(* A block with a cleanup clause is not left, by its end or by an exit past *)
(* it, before the clause has been started, and the clause is started once.  *)
CleanupsRunOnce ==
  \A a \in InForce :
    /\ a > depth' => frame[a].phase # "body"
    /\ a <= depth' /\ frame[a].phase \in Cleanups => frame'[a].phase = frame[a].phase

(* An exit gets to its block with the values it was given, through the      *)
(* cleanup clauses between that have not been started; and a block whose    *)
(* body fell through to its cleanup clause returns what its body returned,  *)
(* whatever exits the clause took inside itself.                            *)
Towards(t, v) ==
  \/ depth' = t - 1 /\ result' = v
  \/ /\ t < depth' /\ frame[depth'].phase = "body" /\ frame'[depth'].phase = "unwound"
     /\ frame'[depth'].goal = t /\ frame'[depth'].wanted = v
ExitsArrive ==
  /\ CONTINUE_UNWIND => IF frame[depth].phase = "fell"
                          THEN depth' = depth - 1 /\ result' = frame[depth].wanted
                          ELSE Towards(frame[depth].goal, frame[depth].wanted)
  /\ \A t \in Exits : NLX(t) => Towards(t, result)

(* Every step but an exit of the kinds of Trouble keeps the promises of     *)
(* cleanup clauses and of exits.                                            *)
ExitsUnwind == [][~troubled' => CleanupsRunOnce /\ ExitsArrive]_nlxVars
==============================================================================
