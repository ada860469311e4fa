---------------------------- MODULE RunTimeProofs ----------------------------
(***************************************************************************)
(* Four parts of the run-time libraries, for every value of their          *)
(* constants: NonLocalExit, for blocks nested to any depth, the divisions  *)
(* of MachineWord, for words of any size, RecursiveLock, for any set of    *)
(* threads, and Allocation, for objects of any size over any collector.    *)
(***************************************************************************)
EXTENDS NonLocalExit, MachineWord, RecursiveLock, Allocation, WellFoundedInduction, TLAPS

(***************************************************************************)
(* Non-local exits                                                         *)
(*                                                                         *)
(* Of the blocks in force, the linked ones are those with a cleanup clause *)
(* that has not been unwound to.  The frame current at any place is the    *)
(* topmost linked frame below it, in the run-time's teb->uwp_frame as well *)
(* as in the link of every frame (Links).  The destination of an exit that *)
(* is under way is kept in the frame below the clause it is running, which *)
(* is where CONTINUE_UNWIND looks for it: of the exits under way only the  *)
(* last one's is sure to be there (Destined).  That is enough because the  *)
(* exit of an inner clause goes past the clause outside it (Nested), unless*)
(* it is one of the kinds of Trouble; and a clause that was fallen through *)
(* to finds no destination in its own frame once the exits taken inside it *)
(* have landed (FellThrough).                                              *)
(***************************************************************************)

(* What a frame may hold.                                                   *)
Phases == {"dead", "exit", "body", "fell", "unwound"}
FrameType == [phase : Phases, link : Frames \cup {NULL}, ultimate : Frames,
              values : Returned, goal : Frames, wanted : Returned]

TypeExits == /\ depth \in Frames /\ uwp_frame \in Frames /\ result \in Returned
             /\ frame \in [Frames -> FrameType]
             /\ frame[0].phase = "dead"

(* A frame of the chain, and a clause that an exit has unwound to.          *)
Linked(f) == frame[f].phase \in {"body", "fell"}
Pending(a) == frame[a].phase = "unwound"

(* f is the frame current below the place a.                                *)
IsBelow(f, a) ==
  /\ f \in 0 .. a - 1
  /\ f = 0 \/ Linked(f)
  /\ \A g \in f + 1 .. a - 1 : ~Linked(g)

Links == IsBelow(uwp_frame, depth + 1) /\ \A a \in InForce : IsBelow(frame[a].link, a)

(* The exit under way that was taken last is the one whose destination is   *)
(* in the frame below, with its values at that destination.                 *)
TopPending(a) == Pending(a) /\ \A c \in a + 1 .. depth : ~Pending(c)

Destined ==
  \A a \in InForce : TopPending(a) =>
    /\ frame[frame[a].link].ultimate = frame[a].goal
    /\ frame[frame[a].goal].values = frame[a].wanted

(* Every exit under way goes to a block in force outside its clause.        *)
Goals ==
  \A a \in InForce : Pending(a) =>
    /\ frame[a].goal \in 1 .. a - 1
    /\ frame[frame[a].goal].phase = "exit"

(* An exit taken inside a clause goes past one that was unwound to, and not *)
(* past one that was fallen through to.                                     *)
Nested ==
  \A a, c \in InForce : a < c /\ Pending(c) =>
    /\ Pending(a) => frame[c].goal < a
    /\ frame[a].phase = "fell" => frame[c].goal > a

(* The frame of a clause that was fallen through to keeps the values of the *)
(* body, and a destination only while an exit inside the clause uses it.    *)
FellThrough ==
  \A b \in InForce : frame[b].phase = "fell" =>
    /\ frame[b].values = frame[b].wanted
    /\ (\A c \in b + 1 .. depth : Pending(c) => frame[c].link # b) => frame[b].ultimate = 0

(* The inductive invariant.                                                 *)
Sound == TypeExits /\ Links /\ Destined /\ Goals /\ Nested /\ FellThrough
ExitInv == troubled \in BOOLEAN /\ (~troubled => Sound)

(* The natural numbers are well founded; a relation says so to the provers. *)
LEMMA LessRelation ==
  \E R : IsWellFoundedOn(R, Nat) /\ \A x, y \in Nat : y < x => <<y, x>> \in R
<1>1. \A x, y \in Nat : y < x => <<y, x>> \in OpToRel(<, Nat)
  BY DEF OpToRel
<1> QED
  BY <1>1, NatLessThanWellFounded, Zenon

(* A set of natural numbers has a least one.                                *)
LEMMA Least ==
  ASSUME NEW T, T \subseteq Nat, T # {}
  PROVE  \E x \in T : \A y \in T : x <= y
<1>1. PICK R : IsWellFoundedOn(R, Nat) /\ \A x, y \in Nat : y < x => <<y, x>> \in R
  BY LessRelation
<1>2. PICK x \in T : \A y \in T : ~ (<<y, x>> \in R)
  BY <1>1, WFMin, Zenon
<1>3. ASSUME NEW y \in T PROVE ~(y < x)
  <2>1. x \in Nat /\ y \in Nat
    OBVIOUS
  <2>2. ~ (<<y, x>> \in R)
    BY <1>2
  <2> QED
    BY <1>1, <2>1, <2>2, Zenon
<1>4. \A y \in T : x <= y
  BY <1>3
<1> QED
  BY <1>4

(* A frame of the dead stack has the type of one.                           *)
LEMMA DeadIsFrame == Dead \in FrameType
BY ExitAssumption DEF Dead, NewFrame, Unset, FrameType, Phases, Frames, NULL

(* What is current below a place is determined by the linked frames.        *)
LEMMA BelowIsUnique ==
  ASSUME NEW a \in Nat, NEW f, NEW g, IsBelow(f, a), IsBelow(g, a)
  PROVE  f = g
BY DEF IsBelow

(* The current frame and the last block entered.                            *)
LEMMA TopFrame ==
  ASSUME Sound, depth > 0
  PROVE  /\ depth \in InForce
         /\ Linked(depth) => uwp_frame = depth
         /\ ~Linked(depth) => uwp_frame = frame[depth].link
<1> USE ExitAssumption DEF InForce, Frames
<1>1. depth \in InForce /\ IsBelow(frame[depth].link, depth) /\ IsBelow(uwp_frame, depth + 1)
  BY DEF Sound, TypeExits, Links
<1>2. Linked(depth) => uwp_frame = depth
  BY <1>1 DEF IsBelow
<1>3. ~Linked(depth) => IsBelow(uwp_frame, depth)
  <2> SUFFICES ASSUME ~Linked(depth) PROVE IsBelow(uwp_frame, depth)
    OBVIOUS
  <2>1. uwp_frame # depth
    BY <1>1 DEF IsBelow
  <2> QED
    BY <1>1, <2>1 DEF IsBelow
<1> QED
  BY <1>1, <1>2, <1>3, BelowIsUnique

(* Completing an exit.                                                      *)
LEMMA LandKeeps ==
  ASSUME Sound, NEW t \in InForce, NEW v \in Returned, frame[t].phase = "exit",
         Land(t, [frame EXCEPT ![t].values = v]), \A a \in 1 .. t - 1 : ~Pending(a)
  PROVE  /\ Sound'
         /\ depth' = t - 1 /\ result' = v
         /\ \A a \in t .. depth : ~Linked(a)
         /\ \A a \in 1 .. depth' : frame'[a].phase = frame[a].phase
<1> USE ExitAssumption DEF Frames, NULL, InForce
<1>1. /\ TypeExits /\ Links /\ MaxDepth \in Nat /\ depth \in 0 .. MaxDepth
      /\ t \in 1 .. depth /\ uwp_frame \in 0 .. MaxDepth
  BY DEF Sound, TypeExits
<1>2. /\ uwp_frame = frame[t].link /\ depth' = t - 1 /\ result' = v /\ uwp_frame' = uwp_frame
      /\ IsBelow(uwp_frame, t)
  BY <1>1 DEF Land, TypeExits, FrameType, Links
<1>3. /\ frame' \in [Frames -> FrameType]
      /\ \A f \in 0 .. t - 1 : /\ frame'[f].phase = frame[f].phase /\ frame'[f].link = frame[f].link
                               /\ frame'[f].values = frame[f].values
                               /\ frame'[f].goal = frame[f].goal /\ frame'[f].wanted = frame[f].wanted
                               /\ frame'[f].ultimate = IF f = uwp_frame THEN 0 ELSE frame[f].ultimate
  <2> DEFINE given == [frame EXCEPT ![t].values = v]
             cleared == [given EXCEPT ![uwp_frame].ultimate = 0]
  <2>1. frame' = [f \in Frames |-> IF f <= t - 1 THEN cleared[f] ELSE Dead]
    BY DEF Land, Cut
  <2>2. frame \in [Frames -> FrameType] /\ t \in Frames /\ uwp_frame \in Frames
    BY <1>1 DEF TypeExits
  <2>3. given \in [Frames -> FrameType]
    <3>1. [frame[t] EXCEPT !.values = v] \in FrameType
      BY <2>2, SMTT(30) DEF FrameType
    <3> QED
      BY <2>2, <3>1
  <2>4. cleared \in [Frames -> FrameType]
    <3>1. [given[uwp_frame] EXCEPT !.ultimate = 0] \in FrameType
      <4> HIDE DEF given
      <4>1. given[uwp_frame] \in FrameType
        BY <2>2, <2>3
      <4> QED
        BY <1>1, <4>1 DEF FrameType
    <3> HIDE DEF given
    <3> QED
      BY <2>2, <2>3, <3>1
  <2>5. \A f \in 0 .. t - 1 :
          frame'[f] = IF f = uwp_frame THEN [frame[f] EXCEPT !.ultimate = 0] ELSE frame[f]
    BY <1>1, <2>1, <2>2, <2>3
  <2>6. frame' \in [Frames -> FrameType]
    BY <2>1, <2>4, DeadIsFrame
  <2>7. ASSUME NEW f \in 0 .. t - 1
        PROVE  /\ frame'[f].phase = frame[f].phase /\ frame'[f].link = frame[f].link
               /\ frame'[f].values = frame[f].values
               /\ frame'[f].goal = frame[f].goal /\ frame'[f].wanted = frame[f].wanted
               /\ frame'[f].ultimate = IF f = uwp_frame THEN 0 ELSE frame[f].ultimate
    <3>1. frame[f] \in FrameType
      BY <1>1, <2>2
    <3> QED
      BY <2>5, <3>1 DEF FrameType
  <2> QED
    BY <2>6, <2>7
<1>4. TypeExits'
  BY <1>1, <1>2, <1>3 DEF TypeExits
<1>5. \A f \in 0 .. t - 1 : Linked(f)' = Linked(f) /\ Pending(f)' = Pending(f)
  BY <1>3 DEF Linked, Pending
<1>6. Links'
  <2> USE <1>1
  <2>1. IsBelow(uwp_frame, depth + 1)'
    BY <1>2, <1>5 DEF IsBelow
  <2>2. ASSUME NEW a \in 1 .. t - 1 PROVE IsBelow(frame[a].link, a)'
    <3>1. IsBelow(frame[a].link, a) /\ frame'[a].link = frame[a].link
      BY <1>1, <1>3 DEF Links
    <3> QED
      BY <3>1, <1>5 DEF IsBelow
  <2> QED
    BY <1>2, <2>1, <2>2 DEF Links
<1>7. Destined' /\ Goals' /\ Nested'
  BY <1>2, <1>5 DEF Destined, TopPending, Goals, Nested
<1>8. FellThrough'
  <2> USE <1>1
  <2> SUFFICES ASSUME NEW b \in 1 .. t - 1, frame[b].phase = "fell"
               PROVE  frame'[b].values = frame'[b].wanted /\ frame'[b].ultimate = 0
    BY <1>2, <1>3 DEF FellThrough
  <2>1. frame'[b].values = frame'[b].wanted
    BY <1>1, <1>3 DEF Sound, FellThrough
  <2>2. CASE b = uwp_frame
    BY <1>3, <2>1, <2>2
  <2>3. CASE b # uwp_frame
    <3>1. ASSUME NEW c \in b + 1 .. depth, Pending(c), frame[c].link = b PROVE FALSE
      <4>1. c > t
        BY <3>1 DEF Pending
      <4>2. IsBelow(b, c) /\ Linked(b)
        BY <1>1, <3>1 DEF Links, Linked
      <4> QED
        BY <1>2, <2>3, <4>1, <4>2 DEF IsBelow
    <3>2. frame[b].ultimate = 0
      BY <1>1, <3>1 DEF Sound, FellThrough
    <3> QED
      BY <1>3, <2>1, <2>3, <3>2
  <2> QED
    BY <2>2, <2>3
<1>9. \A a \in t .. depth : ~Linked(a)
  BY <1>1, <1>2 DEF Links, IsBelow
<1> QED
  BY <1>2, <1>3, <1>4, <1>6, <1>7, <1>8, <1>9 DEF Sound

(* Going on to the next cleanup clause.                                     *)
LEMMA UnwindKeeps ==
  ASSUME Sound, NEW t \in InForce, NEW v \in Returned, frame[t].phase = "exit",
         Unwind(t, [frame EXCEPT ![t].values = v], v),
         \A b \in t + 1 .. uwp_frame : frame[b].phase # "fell",
         \A a \in 1 .. uwp_frame - 1 : Pending(a) => t < a
  PROVE  /\ Sound'
         /\ depth' = uwp_frame /\ t < depth' /\ frame[depth'].phase = "body"
         /\ frame'[depth'].phase = "unwound" /\ frame'[depth'].goal = t /\ frame'[depth'].wanted = v
         /\ \A a \in depth' + 1 .. depth : ~Linked(a)
         /\ \A a \in 1 .. depth' - 1 : frame'[a].phase = frame[a].phase
<1> USE ExitAssumption DEF Frames, NULL, InForce
<1>0. PICK n, p : n = uwp_frame /\ p = frame[n].link
  OBVIOUS
<1>1. /\ TypeExits /\ Links /\ MaxDepth \in Nat /\ depth \in 0 .. MaxDepth
      /\ t \in 1 .. depth /\ n \in 0 .. MaxDepth /\ n <= depth
      /\ frame \in [Frames -> FrameType] /\ t \in Frames /\ n \in Frames
  BY <1>0 DEF Sound, TypeExits, Links, IsBelow
<1>2. n # frame[t].link /\ IsBelow(frame[t].link, t) /\ IsBelow(n, depth + 1)
  <2>1. n # [frame EXCEPT ![t].values = v][t].link
    BY <1>0 DEF Unwind
  <2> QED
    BY <1>0, <1>1, <2>1 DEF Links, FrameType
<1>3. t < n /\ n \in 1 .. depth /\ frame[n].phase = "body"
  <2>1. ~Linked(t) /\ n # t
    <3>1. ~Linked(t)
      BY DEF Linked
    <3>2. n = 0 \/ Linked(n)
      BY <1>0, <1>2 DEF IsBelow
    <3> QED
      BY <1>0, <1>1, <3>1, <3>2
  <2>2. ~(n < t)
    BY <1>0, <1>1, <1>2 DEF IsBelow
  <2>3. t < n /\ n \in 1 .. depth
    BY <1>0, <1>1, <2>1, <2>2
  <2> QED
    BY <1>0, <1>2, <2>3 DEF IsBelow, Linked
<1>4. p \in 0 .. n - 1 /\ IsBelow(p, n) /\ p # t
  <2>1. IsBelow(p, n)
    BY <1>0, <1>1, <1>3 DEF Links
  <2> QED
    BY <1>0, <1>1, <1>3, <2>1 DEF IsBelow, Linked
<1>5. /\ uwp_frame' = p /\ depth' = n /\ result' = result
      /\ frame' \in [Frames -> FrameType]
      /\ \A f \in 0 .. n : /\ frame'[f].phase = IF f = n THEN "unwound" ELSE frame[f].phase
                           /\ frame'[f].link = frame[f].link
                           /\ frame'[f].values = IF f = t THEN v ELSE frame[f].values
                           /\ frame'[f].goal = IF f = n THEN t ELSE frame[f].goal
                           /\ frame'[f].wanted = IF f = n THEN v ELSE frame[f].wanted
                           /\ frame'[f].ultimate = IF f = p THEN t ELSE frame[f].ultimate
  <2> DEFINE given == [frame EXCEPT ![t].values = v]
             started == [given EXCEPT ![n] = Started(@, t, v)]
             marked == [started EXCEPT ![p].ultimate = t]
  <2>1. given \in [Frames -> FrameType] /\ given[n] = frame[n] /\ \A f \in Frames \ {t} : given[f] = frame[f]
    <3>1. [frame[t] EXCEPT !.values = v] \in FrameType
      BY <1>0, <1>1, SMTT(30) DEF FrameType
    <3> QED
      BY <1>0, <1>1, <1>3, <3>1
  <2>2. given[t] = [frame[t] EXCEPT !.values = v]
    BY <1>0, <1>1
  <2>3. uwp_frame' = given[n].link /\ depth' = n /\ result' = result
    BY <1>0 DEF Unwind
  <2>4. uwp_frame' = p
    BY <1>0, <2>1, <2>3
  <2>5. frame' = Cut([given EXCEPT ![n] = Started(@, t, v), ![uwp_frame'].ultimate = t], n)
    BY <1>0 DEF Unwind
  <2> HIDE DEF given
  <2>6. frame' = [f \in Frames |-> IF f <= n THEN marked[f] ELSE Dead]
    BY <2>4, <2>5 DEF Cut
  <2>7. /\ started \in [Frames -> FrameType] /\ started[n] = Started(frame[n], t, v)
        /\ \A f \in Frames \ {n} : started[f] = given[f]
    <3>1. Started(frame[n], t, v) \in FrameType
      <4>1. frame[n] \in FrameType
        BY <1>0, <1>1
      <4> QED
        BY <1>0, <1>1, <4>1 DEF Started, FrameType, Phases
    <3> QED
      BY <1>0, <1>1, <2>1, <3>1
  <2> HIDE DEF started
  <2>8. /\ marked \in [Frames -> FrameType] /\ marked[p] = [frame[p] EXCEPT !.ultimate = t]
        /\ \A f \in Frames \ {p} : marked[f] = started[f]
    <3>1. p \in Frames /\ p # n /\ p # t
      BY <1>0, <1>1, <1>3, <1>4
    <3>2. started[p] = frame[p]
      BY <2>1, <2>7, <3>1
    <3>3. [frame[p] EXCEPT !.ultimate = t] \in FrameType
      <4>1. frame[p] \in FrameType
        BY <1>0, <1>1, <3>1
      <4> QED
        BY <1>0, <1>1, <4>1 DEF FrameType
    <3> QED
      BY <2>7, <3>1, <3>2, <3>3
  <2> HIDE DEF marked
  <2>9. frame' \in [Frames -> FrameType]
    BY <2>6, <2>8, DeadIsFrame
  <2>10. ASSUME NEW f \in 0 .. n
         PROVE  /\ frame'[f].phase = IF f = n THEN "unwound" ELSE frame[f].phase
                /\ frame'[f].link = frame[f].link
                /\ frame'[f].values = IF f = t THEN v ELSE frame[f].values
                /\ frame'[f].goal = IF f = n THEN t ELSE frame[f].goal
                /\ frame'[f].wanted = IF f = n THEN v ELSE frame[f].wanted
                /\ frame'[f].ultimate = IF f = p THEN t ELSE frame[f].ultimate
    <3>1. f \in Frames /\ frame'[f] = marked[f] /\ frame[f] \in FrameType /\ n # p /\ p # t /\ n # t
      BY <1>0, <1>1, <1>3, <1>4, <2>6
    <3>2. CASE f = n
      <4>1. frame'[f] = Started(frame[n], t, v)
        BY <2>7, <2>8, <3>1, <3>2
      <4> QED
        BY <3>1, <3>2, <4>1 DEF Started, FrameType
    <3>3. CASE f = t
      <4>1. frame'[f] = [frame[f] EXCEPT !.values = v]
        BY <2>2, <2>7, <2>8, <3>1, <3>3
      <4> QED
        BY <3>1, <3>3, <4>1 DEF FrameType
    <3>4. CASE f = p
      <4>1. frame'[f] = [frame[f] EXCEPT !.ultimate = t]
        BY <2>8, <3>1, <3>4
      <4> QED
        BY <3>1, <3>4, <4>1 DEF FrameType
    <3>5. CASE f # n /\ f # t /\ f # p
      BY <2>1, <2>7, <2>8, <3>1, <3>5
    <3> QED
      BY <3>2, <3>3, <3>4, <3>5
  <2> QED
    BY <2>3, <2>4, <2>9, <2>10
<1>6. TypeExits'
  <2>1. depth' \in Frames /\ uwp_frame' \in Frames /\ result' \in Returned
    BY <1>0, <1>1, <1>4, <1>5 DEF TypeExits
  <2>2. frame'[0].phase = "dead"
    BY <1>0, <1>1, <1>3, <1>5 DEF TypeExits
  <2> QED
    BY <1>5, <2>1, <2>2 DEF TypeExits
<1>7. /\ \A f \in 0 .. n - 1 : Linked(f)' = Linked(f) /\ Pending(f)' = Pending(f)
      /\ ~Linked(n)' /\ Pending(n)'
  BY <1>0, <1>1, <1>5 DEF Linked, Pending
<1>8. Links'
  <2>1. IsBelow(uwp_frame, depth + 1)'
    BY <1>0, <1>1, <1>3, <1>4, <1>5, <1>7, SMTT(30) DEF IsBelow
  <2>2. ASSUME NEW a \in 1 .. n PROVE IsBelow(frame[a].link, a)'
    <3>1. IsBelow(frame[a].link, a) /\ frame'[a].link = frame[a].link
      BY <1>0, <1>1, <1>3, <1>5 DEF Links
    <3> QED
      BY <1>0, <1>1, <3>1, <1>7, SMTT(30) DEF IsBelow
  <2> QED
    BY <1>5, <2>1, <2>2 DEF Links
<1>9. Destined'
  <2> SUFFICES ASSUME NEW a \in 1 .. n, TopPending(a)'
               PROVE  /\ frame'[frame'[a].link].ultimate = frame'[a].goal
                      /\ frame'[frame'[a].goal].values = frame'[a].wanted
    BY <1>5 DEF Destined
  <2>1. a = n
    BY <1>0, <1>1, <1>5, <1>7 DEF TopPending
  <2>2. frame'[n].link = p /\ frame'[n].goal = t /\ frame'[n].wanted = v
    BY <1>1, <1>5, <1>0
  <2> QED
    BY <1>0, <1>1, <1>3, <1>4, <1>5, <2>1, <2>2
<1>10. Goals'
  <2> SUFFICES ASSUME NEW a \in 1 .. n, Pending(a)'
               PROVE  frame'[a].goal \in 1 .. a - 1 /\ frame'[frame'[a].goal].phase = "exit"
    BY <1>5 DEF Goals
  <2>1. CASE a = n
    BY <1>0, <1>1, <1>3, <1>5, <2>1
  <2>2. CASE a # n
    <3>1. Pending(a) /\ frame[a].goal \in 1 .. a - 1 /\ frame[frame[a].goal].phase = "exit"
      BY <1>0, <1>1, <1>3, <1>7, <2>2 DEF Sound, Goals
    <3>2. frame'[a].goal = frame[a].goal /\ frame[a].goal \in 0 .. n /\ frame[a].goal # n
      BY <1>1, <1>3, <1>5, <2>2, <3>1
    <3> QED
      BY <1>5, <3>1, <3>2
  <2> QED
    BY <2>1, <2>2
<1>11. Nested'
  <2> SUFFICES ASSUME NEW a \in 1 .. n, NEW c \in 1 .. n, a < c, Pending(c)'
               PROVE  /\ Pending(a)' => frame'[c].goal < a
                      /\ frame'[a].phase = "fell" => frame'[c].goal > a
    BY <1>5 DEF Nested
  <2>1. Pending(a)' = Pending(a) /\ frame'[a].phase = frame[a].phase
    BY <1>0, <1>1, <1>5, <1>7
  <2>2. CASE c = n
    <3>1. frame'[c].goal = t /\ a \in 1 .. n - 1 /\ (Pending(a) => t < a)
      BY <1>1, <1>5, <2>2, <1>0
    <3>2. frame[a].phase = "fell" => ~(a > t) /\ a # t
      BY <1>1, <1>3, <2>2, <1>0
    <3> QED
      BY <1>0, <1>1, <2>1, <3>1, <3>2
  <2>3. CASE c # n
    BY <1>0, <1>1, <1>3, <1>5, <1>7, <2>1, <2>3 DEF Sound, Nested
  <2> QED
    BY <2>2, <2>3
<1>12. FellThrough'
  <2> SUFFICES ASSUME NEW b \in 1 .. n, frame'[b].phase = "fell"
               PROVE  /\ frame'[b].values = frame'[b].wanted
                      /\ (\A c \in b + 1 .. n : Pending(c)' => frame'[c].link # b) => frame'[b].ultimate = 0
    BY <1>5 DEF FellThrough
  <2>1. b # n /\ b # t /\ frame[b].phase = "fell" /\ b \in 1 .. depth
    BY <1>0, <1>1, <1>3, <1>5
  <2>2. frame'[b].values = frame'[b].wanted
    BY <1>0, <1>1, <1>5, <2>1 DEF Sound, FellThrough
  <2>3. ASSUME \A c \in b + 1 .. n : Pending(c)' => frame'[c].link # b
        PROVE  frame'[b].ultimate = 0
    <3>1. b # p
      BY <1>1, <1>5, <1>7, <2>1, <2>3, <1>0
    <3>2. ASSUME NEW c \in b + 1 .. depth, Pending(c), frame[c].link = b PROVE FALSE
      <4>1. CASE c < n
        BY <1>0, <1>1, <1>5, <1>7, <2>3, <3>2, <4>1, SMTT(30)
      <4>2. CASE c = n
        BY <1>3, <3>2, <4>2 DEF Pending
      <4>3. CASE c > n
        <5>1. IsBelow(b, c) /\ Linked(n)
          BY <1>0, <1>1, <1>3, <3>2 DEF Links, Linked
        <5> QED
          BY <1>0, <1>1, <2>1, <4>3, <5>1 DEF IsBelow
      <4> QED
        BY <1>0, <1>1, <4>1, <4>2, <4>3
    <3>3. frame[b].ultimate = 0
      BY <2>1, <3>2 DEF Sound, FellThrough
    <3> QED
      BY <1>0, <1>1, <1>5, <2>1, <3>1, <3>3
  <2> QED
    BY <2>2, <2>3
<1>13. \A a \in n + 1 .. depth : ~Linked(a)
  BY <1>0, <1>1, <1>2 DEF IsBelow
<1>14. Sound'
  BY <1>0, <1>6, <1>8, <1>9, <1>10, <1>11, <1>12 DEF Sound
<1> QED
  BY <1>1, <1>3, <1>5, <1>13, <1>14, <1>0, SMTT(30)

(* Entering a block.                                                        *)
LEMMA EnterKeeps ==
  ASSUME Sound, NEW ph \in {"exit", "body"}, depth < MaxDepth, depth' = depth + 1,
         frame' = [frame EXCEPT ![depth + 1] = NewFrame(ph, uwp_frame)],
         uwp_frame' = IF ph = "body" THEN depth + 1 ELSE uwp_frame, UNCHANGED result
  PROVE  Sound'
<1> USE ExitAssumption DEF Frames, NULL, InForce
<1>1. /\ TypeExits /\ Links /\ MaxDepth \in Nat /\ depth \in 0 .. MaxDepth
      /\ uwp_frame \in 0 .. depth /\ IsBelow(uwp_frame, depth + 1) /\ Unset \in Returned
  BY DEF Sound, TypeExits, Links, IsBelow, Unset
<1>2. PICK n : n = depth + 1
  OBVIOUS
<1>3. /\ n \in 1 .. MaxDepth /\ depth' = n
      /\ frame' \in [Frames -> FrameType]
      /\ \A f \in 0 .. depth : frame'[f] = frame[f]
      /\ frame'[n].phase = ph /\ frame'[n].link = uwp_frame /\ frame'[n].values = Unset
  <2>1. NewFrame(ph, uwp_frame) \in FrameType
    BY <1>1 DEF NewFrame, FrameType, Phases
  <2>2. frame \in [Frames -> FrameType]
    BY <1>1 DEF TypeExits
  <2>3. frame'[n] = NewFrame(ph, uwp_frame)
    BY <1>1, <1>2, <2>2
  <2> QED
    BY <1>1, <1>2, <2>1, <2>2, <2>3 DEF NewFrame
<1>4. TypeExits'
  BY <1>1, <1>2, <1>3 DEF TypeExits
<1>5. \A f \in 0 .. depth : Linked(f)' = Linked(f) /\ Pending(f)' = Pending(f)
  BY <1>3 DEF Linked, Pending
<1>6. ~Pending(n)' /\ Linked(n)' = (ph = "body")
  <2>1. frame'[n].phase = ph
    BY <1>3
  <2> QED
    BY <1>2, <2>1 DEF Pending, Linked
<1>7. Links'
  <2>1. IsBelow(uwp_frame, depth + 1)'
    <3>1. CASE ph = "body"
      <4>1. uwp_frame' = n /\ frame'[n].phase = "body" /\ n \in Nat
        BY <1>1, <1>2, <1>3, <3>1
      <4>2. Linked(uwp_frame)'
        BY <4>1 DEF Linked
      <4> QED
        BY <1>3, <4>1, <4>2 DEF IsBelow
    <3>2. CASE ph # "body"
      <4>1. uwp_frame' = uwp_frame /\ uwp_frame \in 0 .. n - 1
        BY <1>1, <1>2, <3>2
      <4>2. ~Linked(n)'
        BY <1>6, <3>2
      <4>3. \A g \in uwp_frame + 1 .. n : ~Linked(g)'
        BY <1>1, <1>2, <1>5, <4>1, <4>2 DEF IsBelow
      <4>4. uwp_frame = 0 \/ Linked(uwp_frame)'
        BY <1>1, <1>2, <1>3, <4>1 DEF IsBelow, Linked
      <4> QED
        BY <1>1, <1>2, <1>3, <4>1, <4>3, <4>4 DEF IsBelow
    <3> QED
      BY <3>1, <3>2
  <2>2. ASSUME NEW a \in 1 .. n PROVE IsBelow(frame[a].link, a)'
    <3>1. IsBelow(frame'[a].link, a)
      BY <1>1, <1>2, <1>3 DEF Links
    <3> QED
      BY <1>1, <1>2, <1>5, <3>1 DEF IsBelow
  <2> QED
    BY <1>3, <2>1, <2>2 DEF Links
<1>8. Destined'
  <2> SUFFICES ASSUME NEW a \in 1 .. n, TopPending(a)'
               PROVE  /\ frame'[frame'[a].link].ultimate = frame'[a].goal
                      /\ frame'[frame'[a].goal].values = frame'[a].wanted
    BY <1>3 DEF Destined
  <2>1. a \in 1 .. depth /\ TopPending(a)
    BY <1>1, <1>2, <1>3, <1>5, <1>6 DEF TopPending
  <2>2. frame[a].link \in 0 .. depth /\ frame[a].goal \in 0 .. depth
    BY <1>1, <2>1 DEF Links, IsBelow, Sound, Goals, TopPending
  <2> QED
    BY <1>3, <2>1, <2>2 DEF Sound, Destined
<1>9. Goals'
  <2> SUFFICES ASSUME NEW a \in 1 .. n, Pending(a)'
               PROVE  frame'[a].goal \in 1 .. a - 1 /\ frame'[frame'[a].goal].phase = "exit"
    BY <1>3 DEF Goals
  <2>1. a \in 1 .. depth /\ Pending(a)
    BY <1>1, <1>2, <1>3, <1>5, <1>6
  <2>2. frame[a].goal \in 1 .. a - 1 /\ frame[frame[a].goal].phase = "exit"
    BY <2>1 DEF Sound, Goals
  <2>3. frame[a].goal \in 0 .. depth /\ a \in 0 .. depth
    BY <1>1, <2>1, <2>2
  <2> QED
    BY <1>3, <2>2, <2>3
<1>10. Nested'
  <2> SUFFICES ASSUME NEW a \in 1 .. n, NEW c \in 1 .. n, a < c, Pending(c)'
               PROVE  /\ Pending(a)' => frame'[c].goal < a
                      /\ frame'[a].phase = "fell" => frame'[c].goal > a
    BY <1>3 DEF Nested
  <2>1. a \in 1 .. depth /\ c \in 1 .. depth /\ Pending(c)
    BY <1>1, <1>2, <1>3, <1>5, <1>6
  <2> QED
    BY <1>1, <1>3, <1>5, <2>1 DEF Sound, Nested
<1>11. FellThrough'
  <2> SUFFICES ASSUME NEW b \in 1 .. n, frame'[b].phase = "fell"
               PROVE  /\ frame'[b].values = frame'[b].wanted
                      /\ (\A c \in b + 1 .. n : Pending(c)' => frame'[c].link # b) => frame'[b].ultimate = 0
    BY <1>3 DEF FellThrough
  <2>1. b \in 1 .. depth /\ frame'[b] = frame[b] /\ b \in InForce
    BY <1>1, <1>2, <1>3
  <2>2. ASSUME \A c \in b + 1 .. n : Pending(c)' => frame'[c].link # b
        PROVE  \A c \in b + 1 .. depth : Pending(c) => frame[c].link # b
    BY <1>1, <1>2, <1>3, <1>5, <2>1, <2>2
  <2> QED
    BY <2>1, <2>2 DEF Sound, FellThrough
<1> QED
  BY <1>4, <1>7, <1>8, <1>9, <1>10, <1>11 DEF Sound

(* Returning from a block that is not being unwound.                        *)
LEMMA LeaveKeeps ==
  ASSUME Sound, depth > 0, ~Pending(depth), depth' = depth - 1, frame' = Cut(frame, depth - 1),
         IsBelow(uwp_frame', depth), result' \in Returned
  PROVE  /\ Sound'
         /\ \A a \in 1 .. depth' : frame'[a].phase = frame[a].phase
<1> USE ExitAssumption DEF Frames, NULL, InForce
<1>1. TypeExits /\ Links /\ MaxDepth \in Nat /\ depth \in 1 .. MaxDepth
  BY DEF Sound, TypeExits
<1>2. PICK n : n = depth - 1
  OBVIOUS
<1>3. /\ n \in 0 .. MaxDepth /\ depth' = n /\ depth = n + 1
      /\ frame' \in [Frames -> FrameType]
      /\ \A f \in 0 .. n : frame'[f] = frame[f]
  BY <1>1, <1>2, DeadIsFrame DEF TypeExits, Cut
<1>4. TypeExits'
  BY <1>1, <1>3 DEF TypeExits, IsBelow
<1>5. \A f \in 0 .. n : Linked(f)' = Linked(f) /\ Pending(f)' = Pending(f)
  BY <1>3 DEF Linked, Pending
<1>6. Links'
  <2>1. IsBelow(uwp_frame, depth + 1)'
    <3>1. PICK u : u = uwp_frame'
      OBVIOUS
    <3>2. u \in 0 .. n /\ (u = 0 \/ Linked(u)) /\ \A g \in u + 1 .. n : ~Linked(g)
      BY <1>1, <1>3, <3>1 DEF IsBelow
    <3>3. (u = 0 \/ Linked(u)') /\ \A g \in u + 1 .. n : ~Linked(g)'
      BY <1>3, <1>5, <3>2
    <3> QED
      BY <1>3, <3>1, <3>2, <3>3 DEF IsBelow, Linked
  <2>2. ASSUME NEW a \in 1 .. n PROVE IsBelow(frame[a].link, a)'
    <3>1. IsBelow(frame'[a].link, a)
      BY <1>1, <1>3 DEF Links
    <3> QED
      BY <1>1, <1>3, <1>5, <3>1 DEF IsBelow
  <2> QED
    BY <1>3, <2>1, <2>2 DEF Links
<1>7. Destined'
  <2> SUFFICES ASSUME NEW a \in 1 .. n, TopPending(a)'
               PROVE  /\ frame'[frame'[a].link].ultimate = frame'[a].goal
                      /\ frame'[frame'[a].goal].values = frame'[a].wanted
    BY <1>3 DEF Destined
  <2>1. a \in InForce /\ TopPending(a)
    BY <1>1, <1>3, <1>5 DEF TopPending
  <2>2. frame[a].link \in 0 .. n /\ frame[a].goal \in 0 .. n
    BY <1>1, <1>3, <2>1 DEF Links, IsBelow, Sound, Goals, TopPending
  <2> QED
    BY <1>3, <2>1, <2>2 DEF Sound, Destined
<1>8. Goals'
  <2> SUFFICES ASSUME NEW a \in 1 .. n, Pending(a)'
               PROVE  frame'[a].goal \in 1 .. a - 1 /\ frame'[frame'[a].goal].phase = "exit"
    BY <1>3 DEF Goals
  <2>1. a \in InForce /\ Pending(a)
    BY <1>1, <1>3, <1>5
  <2>2. frame[a].goal \in 1 .. a - 1 /\ frame[frame[a].goal].phase = "exit"
    BY <2>1 DEF Sound, Goals
  <2>3. frame[a].goal \in 0 .. n /\ a \in 0 .. n
    BY <1>1, <1>3, <2>1, <2>2
  <2> QED
    BY <1>3, <2>2, <2>3
<1>9. Nested'
  BY <1>1, <1>3, <1>5 DEF Sound, Nested
<1>10. FellThrough'
  <2> SUFFICES ASSUME NEW b \in 1 .. n, frame'[b].phase = "fell"
               PROVE  /\ frame'[b].values = frame'[b].wanted
                      /\ (\A c \in b + 1 .. n : Pending(c)' => frame'[c].link # b) => frame'[b].ultimate = 0
    BY <1>3 DEF FellThrough
  <2>1. frame'[b] = frame[b] /\ b \in InForce
    BY <1>1, <1>3
  <2>2. ASSUME \A c \in b + 1 .. n : Pending(c)' => frame'[c].link # b
        PROVE  \A c \in b + 1 .. depth : Pending(c) => frame[c].link # b
    BY <1>1, <1>3, <1>5, <2>1, <2>2
  <2> QED
    BY <2>1, <2>2 DEF Sound, FellThrough
<1> QED
  BY <1>3, <1>4, <1>6, <1>7, <1>8, <1>9, <1>10 DEF Sound

(* A clause that was fallen through to, at its end.                         *)
LEMMA FallenFrame ==
  ASSUME NEW r \in FrameType, NEW v \in Returned
  PROVE  LET fallen == [[r EXCEPT !.values = v, !.ultimate = 0] EXCEPT !.phase = "fell", !.wanted = v]
         IN  /\ fallen \in FrameType /\ fallen.phase = "fell" /\ fallen.values = v
             /\ fallen.wanted = v /\ fallen.ultimate = 0 /\ fallen.link = r.link
<1> DEFINE given == [r EXCEPT !.values = v]
           valued == [given EXCEPT !.ultimate = 0]
           ended == [valued EXCEPT !.phase = "fell"]
           fallen == [ended EXCEPT !.wanted = v]
<1>1. given \in FrameType /\ given.values = v /\ given.link = r.link
  BY DEF FrameType
<1>2. valued \in FrameType /\ valued.values = v /\ valued.ultimate = 0 /\ valued.link = r.link
  <2> HIDE DEF given
  <2> QED
    BY <1>1, ExitAssumption DEF FrameType, Frames
<1>3. /\ ended \in FrameType /\ ended.phase = "fell" /\ ended.values = v
      /\ ended.ultimate = 0 /\ ended.link = r.link
  <2> HIDE DEF valued
  <2> QED
    BY <1>2 DEF FrameType, Phases
<1>4. /\ fallen \in FrameType /\ fallen.phase = "fell" /\ fallen.values = v
      /\ fallen.wanted = v /\ fallen.ultimate = 0 /\ fallen.link = r.link
  <2> HIDE DEF ended
  <2> QED
    BY <1>3 DEF FrameType
<1>5. fallen = [[r EXCEPT !.values = v, !.ultimate = 0] EXCEPT !.phase = "fell", !.wanted = v]
  OBVIOUS
<1> QED
  BY <1>4, <1>5

(* The body of a block with a cleanup clause ends.                          *)
LEMMA FallThroughKeeps ==
  ASSUME Sound, FALL_THROUGH_UNWIND
  PROVE  Sound'
<1> USE ExitAssumption DEF Frames, NULL, InForce
<1>1. /\ TypeExits /\ Links /\ MaxDepth \in Nat /\ depth \in 1 .. MaxDepth /\ result \in Returned
      /\ uwp_frame = depth /\ frame[depth].phase = "body" /\ frame \in [Frames -> FrameType]
  BY TopFrame DEF FALL_THROUGH_UNWIND, Linked, Sound, TypeExits
<1>2. PICK n : n = depth
  OBVIOUS
<1>3. /\ frame' \in [Frames -> FrameType] /\ n \in 1 .. MaxDepth /\ depth' = n
      /\ uwp_frame' = n /\ result' = result
      /\ \A f \in Frames \ {n} : frame'[f] = frame[f]
      /\ frame'[n].phase = "fell" /\ frame'[n].values = result /\ frame'[n].wanted = result
      /\ frame'[n].ultimate = 0 /\ frame'[n].link = frame[n].link
  <2> DEFINE valued == [frame[n] EXCEPT !.values = result, !.ultimate = 0]
             fallen == [valued EXCEPT !.phase = "fell", !.wanted = result]
  <2>1. frame' = [frame EXCEPT ![n] = fallen]
    BY <1>1, <1>2 DEF FALL_THROUGH_UNWIND
  <2>2. /\ fallen \in FrameType /\ fallen.phase = "fell" /\ fallen.values = result
        /\ fallen.wanted = result /\ fallen.ultimate = 0 /\ fallen.link = frame[n].link
    <3>1. frame[n] \in FrameType
      BY <1>1, <1>2
    <3>2. result \in Returned
      BY <1>1
    <3> QED
      BY <3>1, <3>2, FallenFrame
  <2> HIDE DEF fallen
  <2> QED
    BY <1>1, <1>2, <2>1, <2>2 DEF FALL_THROUGH_UNWIND
<1>4. TypeExits'
  BY <1>1, <1>2, <1>3 DEF TypeExits
<1>5. \A f \in 0 .. n : Linked(f)' = Linked(f) /\ Pending(f)' = Pending(f)
  <2>1. \A f \in 0 .. n - 1 : frame'[f] = frame[f]
    BY <1>1, <1>2, <1>3
  <2> QED
    BY <1>1, <1>2, <1>3, <2>1 DEF Linked, Pending
<1>6. Links'
  <2>1. IsBelow(uwp_frame, depth + 1)'
    BY <1>1, <1>2, <1>3, <1>5 DEF Links, IsBelow
  <2>2. ASSUME NEW a \in 1 .. n PROVE IsBelow(frame[a].link, a)'
    <3>1. frame'[a].link = frame[a].link /\ IsBelow(frame[a].link, a)
      BY <1>1, <1>2, <1>3 DEF Links
    <3> QED
      BY <1>1, <1>2, <1>5, <3>1 DEF IsBelow
  <2> QED
    BY <1>3, <2>1, <2>2 DEF Links
<1>7. \A a \in 1 .. n : Pending(a)' => a \in 1 .. n - 1 /\ Pending(a) /\ frame'[a] = frame[a]
  BY <1>1, <1>2, <1>3, <1>5 DEF Pending
<1>8. Destined'
  <2> SUFFICES ASSUME NEW a \in 1 .. n, TopPending(a)'
               PROVE  /\ frame'[frame'[a].link].ultimate = frame'[a].goal
                      /\ frame'[frame'[a].goal].values = frame'[a].wanted
    BY <1>3 DEF Destined
  <2>1. a \in 1 .. n - 1 /\ TopPending(a) /\ frame'[a] = frame[a] /\ a \in InForce
    BY <1>1, <1>2, <1>3, <1>5, <1>7 DEF TopPending
  <2>2. frame[a].link \in 0 .. n - 1 /\ frame[a].goal \in 0 .. n - 1
    BY <1>1, <1>3, <2>1 DEF Links, IsBelow, Sound, Goals, TopPending
  <2> QED
    BY <1>3, <2>1, <2>2 DEF Sound, Destined
<1>9. Goals'
  <2> SUFFICES ASSUME NEW a \in 1 .. n, Pending(a)'
               PROVE  frame'[a].goal \in 1 .. a - 1 /\ frame'[frame'[a].goal].phase = "exit"
    BY <1>3 DEF Goals
  <2>1. a \in 1 .. n - 1 /\ Pending(a) /\ frame'[a] = frame[a] /\ a \in InForce
    BY <1>1, <1>2, <1>7
  <2>2. frame[a].goal \in 1 .. a - 1 /\ frame[frame[a].goal].phase = "exit"
    BY <2>1 DEF Sound, Goals
  <2>3. frame[a].goal \in Frames \ {n}
    BY <1>1, <1>3, <2>1, <2>2
  <2> QED
    BY <1>3, <2>1, <2>2, <2>3
<1>10. Nested'
  <2> SUFFICES ASSUME NEW a \in 1 .. n, NEW c \in 1 .. n, a < c, Pending(c)'
               PROVE  /\ Pending(a)' => frame'[c].goal < a
                      /\ frame'[a].phase = "fell" => frame'[c].goal > a
    BY <1>3 DEF Nested
  <2>1. a \in 1 .. n - 1 /\ c \in 1 .. n - 1 /\ Pending(c) /\ frame'[c] = frame[c] /\ frame'[a] = frame[a]
    BY <1>1, <1>2, <1>3, <1>7
  <2> QED
    BY <1>1, <1>2, <1>5, <2>1 DEF Sound, Nested
<1>11. FellThrough'
  <2> SUFFICES ASSUME NEW b \in 1 .. n - 1, frame'[b].phase = "fell"
               PROVE  /\ frame'[b].values = frame'[b].wanted
                      /\ (\A c \in b + 1 .. n : Pending(c)' => frame'[c].link # b) => frame'[b].ultimate = 0
    BY <1>1, <1>3 DEF FellThrough
  <2>1. frame'[b] = frame[b] /\ b \in InForce
    BY <1>1, <1>2, <1>3
  <2>2. ASSUME \A c \in b + 1 .. n : Pending(c)' => frame'[c].link # b
        PROVE  \A c \in b + 1 .. depth : Pending(c) => frame[c].link # b
    <3> SUFFICES ASSUME NEW c \in b + 1 .. depth, Pending(c) PROVE frame[c].link # b
      OBVIOUS
    <3>1. c \in b + 1 .. n /\ c \in 0 .. n /\ c # n
      BY <1>1, <1>2 DEF Pending
    <3>2. Pending(c)' /\ frame'[c] = frame[c]
      BY <1>1, <1>3, <1>5, <3>1
    <3> QED
      BY <2>2, <3>1, <3>2
  <2> QED
    BY <2>1, <2>2 DEF Sound, FellThrough
<1> QED
  BY <1>4, <1>6, <1>8, <1>9, <1>10, <1>11 DEF Sound

(* A step that starts the cleanup clause of the topmost linked frame.       *)
LEMMA StartedOnce ==
  ASSUME depth \in Nat, depth' \in 0 .. depth, frame[depth'].phase = "body",
         \A a \in depth' + 1 .. depth : ~Linked(a),
         \A a \in 1 .. depth' - 1 : frame'[a].phase = frame[a].phase
  PROVE  CleanupsRunOnce
<1> SUFFICES ASSUME NEW a \in 1 .. depth
             PROVE  /\ a > depth' => frame[a].phase # "body"
                    /\ a <= depth' /\ frame[a].phase \in Cleanups => frame'[a].phase = frame[a].phase
  BY DEF CleanupsRunOnce, InForce
<1>1. CASE a > depth'
  <2>1. a \in depth' + 1 .. depth /\ ~(a <= depth')
    BY <1>1
  <2>2. ~Linked(a)
    BY <2>1
  <2>3. frame[a].phase # "body"
    BY <2>2, Zenon DEF Linked
  <2> QED
    BY <2>1, <2>3
<1>2. CASE a = depth'
  BY <1>2 DEF Cleanups
<1>3. CASE a < depth'
  <2>1. a \in 1 .. depth' - 1 /\ ~(a > depth')
    BY <1>3
  <2> QED
    BY <2>1
<1> QED
  BY <1>1, <1>2, <1>3

(* The end of a cleanup clause: the block returns what its body returned,   *)
(* or the exit that unwound to it goes on.                                  *)
LEMMA ContinueKeeps ==
  ASSUME Sound, CONTINUE_UNWIND
  PROVE  /\ Sound'
         /\ depth \in InForce
         /\ IF frame[depth].phase = "fell"
              THEN depth' = depth - 1 /\ result' = frame[depth].wanted
              ELSE Towards(frame[depth].goal, frame[depth].wanted)
         /\ CleanupsRunOnce
<1> USE ExitAssumption DEF Frames, NULL, InForce
<1>1. /\ TypeExits /\ Links /\ MaxDepth \in Nat /\ depth \in 1 .. MaxDepth /\ depth \in InForce
      /\ frame[depth].phase \in {"fell", "unwound"}
  BY DEF CONTINUE_UNWIND, Cleanups, Sound, TypeExits
<1>2. CASE frame[depth].phase = "fell"
  <2>1. uwp_frame = depth /\ ~Pending(depth)
    BY <1>1, <1>2, TopFrame DEF Linked, Pending
  <2>2. frame[depth].ultimate = 0 /\ frame[depth].values = frame[depth].wanted
    BY <1>1, <1>2 DEF Sound, FellThrough
  <2>3. ReturnFromCleanup
    BY <2>1, <2>2 DEF CONTINUE_UNWIND
  <2>4. /\ depth' = depth - 1 /\ frame' = Cut(frame, depth - 1)
        /\ result' = frame[depth].wanted /\ uwp_frame' = frame[depth].link
    BY <2>1, <2>2, <2>3 DEF ReturnFromCleanup
  <2>5. IsBelow(uwp_frame', depth) /\ frame[depth].wanted \in Returned
    <3>1. frame[depth] \in FrameType
      BY <1>1 DEF TypeExits
    <3> QED
      BY <1>1, <2>4, <3>1 DEF Links, FrameType
  <2>6. Sound' /\ \A a \in 1 .. depth' : frame'[a].phase = frame[a].phase
    BY <1>1, <2>1, <2>4, <2>5, LeaveKeeps
  <2>7. CleanupsRunOnce
    <3> SUFFICES ASSUME NEW a \in 1 .. depth
                 PROVE  /\ a > depth' => frame[a].phase # "body"
                        /\ a <= depth' /\ frame[a].phase \in Cleanups => frame'[a].phase = frame[a].phase
      BY DEF CleanupsRunOnce
    <3>1. a > depth' => a = depth
      BY <1>1, <2>4
    <3> QED
      BY <1>1, <1>2, <2>4, <2>6, <3>1
  <2> QED
    BY <1>1, <1>2, <2>4, <2>6, <2>7
<1>3. CASE frame[depth].phase = "unwound"
  <2>1. PICK t, v : t = frame[depth].goal /\ v = frame[depth].wanted
    OBVIOUS
  <2>2. ~Linked(depth) /\ Pending(depth) /\ TopPending(depth) /\ uwp_frame = frame[depth].link
    <3>1. ~Linked(depth) /\ Pending(depth)
      BY <1>3 DEF Linked, Pending
    <3> QED
      BY <1>1, <3>1, TopFrame DEF TopPending
  <2>3. t \in 1 .. depth - 1 /\ frame[t].phase = "exit" /\ t \in InForce
    BY <1>1, <2>1, <2>2 DEF Sound, Goals
  <2>4. frame[uwp_frame].ultimate = t /\ frame[t].values = v
    BY <1>1, <2>1, <2>2 DEF Sound, Destined
  <2>5. nlx_step(t, frame, v)
    BY <2>1, <2>3, <2>4 DEF CONTINUE_UNWIND
  <2>6. frame = [frame EXCEPT ![t].values = v] /\ v \in Returned
    <3>1. frame \in [Frames -> FrameType] /\ t \in Frames
      BY <1>1, <2>3 DEF TypeExits
    <3>2. [frame[t] EXCEPT !.values = v] = frame[t] /\ v \in Returned
      <4>1. frame[t] \in FrameType /\ frame[t].values = v
        BY <2>4, <3>1
      <4> QED
        BY <4>1 DEF FrameType
    <3> QED
      BY <3>1, <3>2
  <2>7. /\ \A a \in 1 .. depth - 1 : Pending(a) => t < a
        /\ \A a \in 1 .. depth - 1 : frame[a].phase = "fell" => t > a
    BY <1>1, <2>1, <2>2 DEF Sound, Nested
  <2>8. uwp_frame \in 0 .. depth - 1
    BY <1>1, <2>2 DEF Links, IsBelow
  <2>9. CASE Land(t, frame)
    <3>1. Land(t, [frame EXCEPT ![t].values = v]) /\ \A a \in 1 .. t - 1 : ~Pending(a)
      <4>1. Land(t, [frame EXCEPT ![t].values = v])
        BY <2>6, <2>9
      <4> QED
        BY <1>1, <2>3, <2>7, <4>1
    <3>2. /\ Sound' /\ depth' = t - 1 /\ result' = v
          /\ \A a \in t .. depth : ~Linked(a)
          /\ \A a \in 1 .. depth' : frame'[a].phase = frame[a].phase
      BY <2>3, <2>6, <3>1, LandKeeps
    <3>3. Towards(t, v)
      BY <3>2 DEF Towards
    <3>4. CleanupsRunOnce
      BY <1>1, <2>3, <3>2 DEF CleanupsRunOnce, Linked
    <3> QED
      BY <1>1, <1>3, <2>1, <3>2, <3>3, <3>4
  <2>10. CASE Unwind(t, frame, v)
    <3>1. Unwind(t, [frame EXCEPT ![t].values = v], v)
      BY <2>6, <2>10
    <3>2. /\ \A b \in t + 1 .. uwp_frame : frame[b].phase # "fell"
          /\ \A a \in 1 .. uwp_frame - 1 : Pending(a) => t < a
      BY <1>1, <2>3, <2>7, <2>8
    <3>3. /\ Sound' /\ depth' = uwp_frame /\ t < depth' /\ frame[depth'].phase = "body"
          /\ frame'[depth'].phase = "unwound" /\ frame'[depth'].goal = t /\ frame'[depth'].wanted = v
          /\ \A a \in depth' + 1 .. depth : ~Linked(a)
          /\ \A a \in 1 .. depth' - 1 : frame'[a].phase = frame[a].phase
      BY <2>3, <2>6, <3>1, <3>2, UnwindKeeps
    <3>4. Towards(t, v)
      BY <3>3 DEF Towards
    <3>5. CleanupsRunOnce
      BY <1>1, <2>8, <3>3, StartedOnce
    <3> QED
      BY <1>1, <1>3, <2>1, <3>3, <3>4, <3>5
  <2> QED
    BY <2>5, <2>9, <2>10 DEF nlx_step
<1> QED
  BY <1>1, <1>2, <1>3

(* An exit that is not of the kinds of Trouble.                             *)
LEMMA ExitKeeps ==
  ASSUME Sound, NEW t \in Exits, NLX(t), ~troubled'
  PROVE  Sound' /\ Towards(t, result) /\ CleanupsRunOnce
<1> USE ExitAssumption DEF Frames, NULL, InForce
<1>1. /\ TypeExits /\ Links /\ MaxDepth \in Nat /\ depth \in 0 .. MaxDepth /\ result \in Returned
      /\ t \in 1 .. depth /\ t \in InForce /\ frame[t].phase = "exit"
  BY DEF Sound, TypeExits, Exits
<1>2. ~Trouble(t) /\ nlx_step(t, [frame EXCEPT ![t].values = result], result)
  BY DEF NLX
<1>3. uwp_frame \in 0 .. depth
  BY <1>1 DEF Links, IsBelow
<1>4. CASE Land(t, [frame EXCEPT ![t].values = result])
  <2>1. \A a \in 1 .. t - 1 : ~Pending(a)
    BY <1>2 DEF Trouble, Pending
  <2>2. /\ Sound' /\ depth' = t - 1 /\ result' = result
        /\ \A a \in t .. depth : ~Linked(a)
        /\ \A a \in 1 .. depth' : frame'[a].phase = frame[a].phase
    BY <1>1, <1>4, <2>1, LandKeeps
  <2>3. Towards(t, result)
    BY <2>2 DEF Towards
  <2>4. CleanupsRunOnce
    BY <1>1, <2>2 DEF CleanupsRunOnce, Linked
  <2> QED
    BY <2>2, <2>3, <2>4
<1>5. CASE Unwind(t, [frame EXCEPT ![t].values = result], result)
  <2>1. /\ \A b \in t + 1 .. uwp_frame : frame[b].phase # "fell"
        /\ \A a \in 1 .. uwp_frame - 1 : Pending(a) => t < a
    <3>1. \A b \in t + 1 .. uwp_frame : frame[b].phase # "fell"
      BY <1>1, <1>2, <1>3 DEF Trouble
    <3>2. ASSUME NEW a \in 1 .. uwp_frame - 1, Pending(a) PROVE t < a
      BY <1>1, <1>2, <1>3, <3>2 DEF Trouble, Pending
    <3> QED
      BY <3>1, <3>2
  <2>2. /\ Sound' /\ depth' = uwp_frame /\ t < depth' /\ frame[depth'].phase = "body"
        /\ frame'[depth'].phase = "unwound" /\ frame'[depth'].goal = t /\ frame'[depth'].wanted = result
        /\ \A a \in depth' + 1 .. depth : ~Linked(a)
        /\ \A a \in 1 .. depth' - 1 : frame'[a].phase = frame[a].phase
    BY <1>1, <1>5, <2>1, UnwindKeeps
  <2>3. Towards(t, result)
    BY <2>2 DEF Towards
  <2>4. CleanupsRunOnce
    BY <1>1, <1>3, <2>2, StartedOnce
  <2> QED
    BY <2>2, <2>3, <2>4
<1> QED
  BY <1>2, <1>4, <1>5 DEF nlx_step

(* No block is in force at first.                                           *)
LEMMA ExitInit == InitExits => ExitInv
<1> SUFFICES ASSUME InitExits PROVE ExitInv
  OBVIOUS
<1> USE ExitAssumption DEF Frames, InForce
<1>1. depth = 0 /\ uwp_frame = 0 /\ troubled = FALSE /\ result \in Returned
      /\ frame = [f \in Frames |-> Dead]
  BY DEF InitExits
<1>2. frame \in [Frames -> FrameType] /\ frame[0] = Dead
  BY <1>1, DeadIsFrame
<1>3. TypeExits
  <2>1. Dead.phase = "dead"
    BY DEF Dead, NewFrame
  <2> QED
    BY <1>1, <1>2, <2>1 DEF TypeExits
<1>4. Links /\ Destined /\ Goals /\ Nested /\ FellThrough
  BY <1>1 DEF Links, IsBelow, Destined, Goals, Nested, FellThrough
<1> QED
  BY <1>1, <1>3, <1>4 DEF ExitInv, Sound

(* Every step keeps the invariant, starts cleanup clauses once and takes    *)
(* exits to where they go.                                                  *)
LEMMA ExitNext ==
  ASSUME ExitInv, [NextExits]_nlxVars
  PROVE  ExitInv' /\ (~troubled' => UNCHANGED nlxVars \/ CleanupsRunOnce)
<1> USE ExitAssumption DEF Frames, NULL, InForce
<1>1. CASE UNCHANGED nlxVars
  BY <1>1 DEF nlxVars, ExitInv, Sound, TypeExits, Links, IsBelow, Linked, Destined, TopPending, Pending,
              Goals, Nested, FellThrough
<1>2. CASE NextExits
  <2>1. Sound /\ TypeExits /\ Links /\ MaxDepth \in Nat /\ depth \in 0 .. MaxDepth /\ result \in Returned
    BY <1>2 DEF NextExits, ExitInv, Sound, TypeExits
  <2>2. CASE SETUP_EXIT_FRAME
    <3>1. Sound'
      BY <2>1, <2>2, EnterKeeps DEF SETUP_EXIT_FRAME
    <3>2. CleanupsRunOnce
      BY <2>1, <2>2 DEF SETUP_EXIT_FRAME, CleanupsRunOnce, TypeExits
    <3> QED
      BY <1>2, <2>2, <3>1, <3>2 DEF ExitInv, SETUP_EXIT_FRAME
  <2>3. CASE SETUP_UNWIND_FRAME
    <3>1. Sound'
      BY <2>1, <2>3, EnterKeeps DEF SETUP_UNWIND_FRAME
    <3>2. CleanupsRunOnce
      BY <2>1, <2>3 DEF SETUP_UNWIND_FRAME, CleanupsRunOnce, TypeExits
    <3> QED
      BY <1>2, <2>3, <3>1, <3>2 DEF ExitInv, SETUP_UNWIND_FRAME
  <2>4. CASE LeaveExit
    <3>1. /\ depth > 0 /\ ~Pending(depth) /\ depth' = depth - 1 /\ frame' = Cut(frame, depth - 1)
          /\ result' = result /\ uwp_frame' = frame[depth].link /\ frame[depth].phase = "exit"
      BY <2>1, <2>4, TopFrame DEF LeaveExit, Pending, Linked
    <3>2. IsBelow(uwp_frame', depth)
      BY <2>1, <3>1 DEF Links
    <3>3. Sound' /\ \A a \in 1 .. depth' : frame'[a].phase = frame[a].phase
      BY <2>1, <3>1, <3>2, LeaveKeeps
    <3>4. CleanupsRunOnce
      <4> SUFFICES ASSUME NEW a \in 1 .. depth
                   PROVE  /\ a > depth' => frame[a].phase # "body"
                          /\ a <= depth' /\ frame[a].phase \in Cleanups => frame'[a].phase = frame[a].phase
        BY DEF CleanupsRunOnce
      <4>1. a > depth' => a = depth
        BY <2>1, <3>1
      <4> QED
        BY <2>1, <3>1, <3>3, <4>1
    <3> QED
      BY <1>2, <2>4, <3>3, <3>4 DEF ExitInv, LeaveExit
  <2>5. CASE Compute
    <3>1. depth' = depth /\ uwp_frame' = uwp_frame /\ frame' = frame /\ troubled' = troubled /\ result' \in Returned
      BY <2>5 DEF Compute
    <3>2. Sound'
      BY <2>1, <3>1 DEF Sound, TypeExits, Links, IsBelow, Linked, Destined, TopPending, Pending,
                        Goals, Nested, FellThrough
    <3>3. CleanupsRunOnce
      BY <2>1, <3>1 DEF CleanupsRunOnce
    <3> QED
      BY <1>2, <3>1, <3>2, <3>3 DEF ExitInv
  <2>6. CASE FALL_THROUGH_UNWIND
    <3>1. Sound'
      BY <2>1, <2>6, FallThroughKeeps
    <3>2. CleanupsRunOnce
      <4>1. depth' = depth /\ uwp_frame = depth /\ frame[depth].phase = "body"
        BY <2>1, <2>6, TopFrame DEF FALL_THROUGH_UNWIND, Linked
      <4>2. \A a \in 1 .. depth - 1 : frame'[a] = frame[a]
        BY <2>1, <2>6, <4>1 DEF FALL_THROUGH_UNWIND, TypeExits
      <4>3. ASSUME NEW a \in 1 .. depth PROVE ~(a > depth') /\ (a # depth => frame'[a] = frame[a])
        BY <2>1, <4>1, <4>2
      <4> QED
        BY <4>1, <4>3 DEF CleanupsRunOnce, Cleanups
    <3> QED
      BY <1>2, <2>6, <3>1, <3>2 DEF ExitInv, FALL_THROUGH_UNWIND
  <2>7. CASE CONTINUE_UNWIND
    <3>1. Sound' /\ CleanupsRunOnce
      BY <2>1, <2>7, ContinueKeeps
    <3> QED
      BY <1>2, <2>7, <3>1 DEF ExitInv, CONTINUE_UNWIND
  <2>8. ASSUME NEW t \in Exits, NLX(t) PROVE ExitInv' /\ (~troubled' => CleanupsRunOnce)
    <3>1. troubled' \in BOOLEAN
      BY <2>8 DEF NLX, Trouble
    <3>2. ~troubled' => Sound' /\ CleanupsRunOnce
      BY <2>1, <2>8, ExitKeeps
    <3> QED
      BY <3>1, <3>2 DEF ExitInv
  <2> QED
    BY <1>2, <2>2, <2>3, <2>4, <2>5, <2>6, <2>7, <2>8 DEF NextExits
<1> QED
  BY <1>1, <1>2

(* The invariant that the theorems below follow from.                       *)
THEOREM ExitInvariant == SpecExits => []ExitInv
<1>1. ExitInv /\ [NextExits]_nlxVars => ExitInv'
  BY ExitNext
<1> QED
  BY ExitInit, <1>1, PTL DEF SpecExits

(* The chain of frames stays among the blocks in force ...                  *)
LEMMA ChainInForce ==
  ASSUME Sound
  PROVE  Chain \subseteq 0 .. depth
<1> USE ExitAssumption DEF Frames, NULL, InForce, Blocks
<1>1. Links /\ MaxDepth \in Nat /\ depth \in 0 .. MaxDepth /\ uwp_frame \in 0 .. depth
  BY DEF Sound, TypeExits, Links, IsBelow
<1> DEFINE S == 0 .. depth
<1>2. S \in SUBSET (Frames \cup {NULL}) /\ uwp_frame \in S
  BY <1>1
<1>3. \A g \in S \cap Blocks : frame[g].link \in S
  BY <1>1 DEF Links, IsBelow
<1> QED
  BY <1>2, <1>3 DEF Chain

(* ... and reaches every frame that was current when a block was entered.   *)
LEMMA ChainComplete ==
  ASSUME Sound, NEW t \in InForce
  PROVE  frame[t].link \in Chain
<1> USE ExitAssumption DEF Frames, NULL, InForce, Blocks
<1>1. PICK x : x = frame[t].link
  OBVIOUS
<1>2. /\ Links /\ MaxDepth \in Nat /\ depth \in 0 .. MaxDepth /\ t \in 1 .. depth
      /\ IsBelow(uwp_frame, depth + 1) /\ IsBelow(x, t)
  BY <1>1 DEF Sound, TypeExits, Links
<1>3. x \in 0 .. depth /\ x <= uwp_frame /\ uwp_frame \in 0 .. depth
  BY <1>2 DEF IsBelow
<1> SUFFICES ASSUME NEW S \in SUBSET (Frames \cup {NULL}), uwp_frame \in S,
                    \A g \in S \cap Blocks : frame[g].link \in S
             PROVE  x \in S
  BY <1>1, <1>2, <1>3 DEF Chain
<1> DEFINE T == {m \in S : x <= m /\ m <= depth}
<1>4. T \subseteq Nat /\ T # {}
  <2>1. uwp_frame \in T
    BY <1>2, <1>3
  <2>2. \A m \in T : m \in Nat
    BY <1>2, <1>3
  <2> QED
    BY <2>1, <2>2
<1>5. PICK m \in T : \A y \in T : m <= y
  BY <1>4, Least
<1>6. m \in 0 .. depth /\ x <= m /\ m \in S
  BY <1>2, <1>3, <1>4, <1>5
<1>7. ASSUME m # x PROVE FALSE
  <2>1. m \in 1 .. depth /\ m \in Blocks /\ x < m
    BY <1>2, <1>3, <1>6, <1>7
  <2>2. frame[m].link \in S /\ IsBelow(frame[m].link, m)
    BY <1>2, <1>6, <2>1 DEF Links
  <2>3. x <= frame[m].link /\ frame[m].link < m
    BY <1>2, <1>3, <2>1, <2>2 DEF IsBelow
  <2>4. frame[m].link \in Nat
    BY <1>2, <2>1, <2>2 DEF IsBelow
  <2>5. frame[m].link \in T
    BY <1>2, <1>6, <2>1, <2>2, <2>3, <2>4
  <2>6. m <= frame[m].link
    BY <1>5, <2>5
  <2> QED
    BY <1>6, <2>3, <2>4, <2>6
<1> QED
  BY <1>6, <1>7

(* Before every exit, the frames that a build with VERIFY_NLX looks for are *)
(* there, however deep the blocks are nested.                               *)
THEOREM FramesAreVerified == SpecExits => []FramesVerified
<1>1. ExitInv => FramesVerified
  <2> SUFFICES ASSUME ExitInv, ~troubled PROVE FramesVerified
    BY DEF FramesVerified
  <2>1. Sound /\ depth \in Nat
    BY ExitAssumption DEF ExitInv, Sound, TypeExits, Frames
  <2>2. Chain \subseteq 0 .. depth
    BY <2>1, ChainInForce
  <2>3. verify_nlx_stack
    BY <2>1, <2>2 DEF verify_nlx_stack, NULL
  <2>4. \A t \in Exits : verify_nlx_bef(t)
    BY <2>1, ChainComplete DEF Exits, verify_nlx_bef
  <2> QED
    BY <2>2, <2>3, <2>4 DEF FramesVerified
<1> QED
  BY ExitInvariant, <1>1, PTL

(* Cleanup clauses run once and exits arrive with their values, for blocks  *)
(* nested in any way, as long as no exit of the kinds of Trouble is taken.  *)
THEOREM ExitsAreUnwound == SpecExits => ExitsUnwind
<1>1. ASSUME ExitInv, [NextExits]_nlxVars
      PROVE  [~troubled' => CleanupsRunOnce /\ ExitsArrive]_nlxVars
  <2> SUFFICES ASSUME NextExits, ~troubled', ~UNCHANGED nlxVars PROVE CleanupsRunOnce /\ ExitsArrive
    BY <1>1
  <2>1. Sound
    BY <1>1 DEF ExitInv, NextExits
  <2>2. CleanupsRunOnce
    BY <1>1, ExitNext
  <2>3. ExitsArrive
    <3>1. ASSUME CONTINUE_UNWIND
          PROVE  IF frame[depth].phase = "fell"
                   THEN depth' = depth - 1 /\ result' = frame[depth].wanted
                   ELSE Towards(frame[depth].goal, frame[depth].wanted)
      BY <2>1, <3>1, ContinueKeeps
    <3>2. ASSUME NEW t \in Exits, NLX(t) PROVE Towards(t, result)
      BY <2>1, <3>2, ExitKeeps
    <3> QED
      BY <3>1, <3>2 DEF ExitsArrive
  <2> QED
    BY <2>2, <2>3
<1> QED
  BY ExitInvariant, <1>1, PTL DEF SpecExits, ExitsUnwind

(***************************************************************************)
(* Division of words                                                       *)
(*                                                                         *)
(* The quotient that the hardware truncates leaves a remainder smaller     *)
(* than the divisor (Truncated), and is far enough from the ends of the    *)
(* range to be adjusted by one whenever the remainder is not zero          *)
(* (QuotientFits): so no adjustment that is due wraps around.  Where       *)
(* round/ adjusts a quotient it should have left alone the result belongs  *)
(* to no rounded quotient, with wraparound or without (RoundOdd and        *)
(* RoundLeast), which makes the exceptions in RoundsWrong exact.           *)
(***************************************************************************)

(* Quotient and remainder of the integers, and that they are the only ones. *)
LEMMA DivMod ==
  ASSUME NEW a \in Int, NEW b \in Nat \ {0}
  PROVE  a \div b \in Int /\ a % b \in 0 .. b - 1 /\ a = b * (a \div b) + (a % b)
OBVIOUS

(* Multiples of b are b apart.                                              *)
LEMMA Larger ==
  ASSUME NEW b \in Nat, NEW d \in Int, NEW k \in Int, d < k
  PROVE  b * d + b <= b * k
<1>1. PICK e \in Nat : k = d + 1 + e
  <2>1. k - d - 1 \in Nat /\ k = d + 1 + (k - d - 1)
    OBVIOUS
  <2> QED
    BY <2>1
<1>2. b * k = b * d + b + b * e
  BY <1>1
<1>3. b * e >= 0 /\ b * e \in Int /\ b * d \in Int
  OBVIOUS
<1> QED
  BY <1>2, <1>3

(* A number is divided in one way only.                                     *)
LEMMA DivUnique ==
  ASSUME NEW b \in Nat \ {0}, NEW k \in Int, NEW s \in 0 .. b - 1
  PROVE  (b * k + s) \div b = k /\ (b * k + s) % b = s
<1>1. PICK n : n = b * k + s
  OBVIOUS
<1>2. PICK d, m : d = n \div b /\ m = n % b
  OBVIOUS
<1>3. n \in Int /\ d \in Int /\ m \in 0 .. b - 1 /\ n = b * d + m /\ b * d \in Int /\ b * k \in Int
  BY <1>1, <1>2, DivMod
<1>4. ~(d < k)
  BY <1>1, <1>3, Larger
<1>5. ~(k < d)
  BY <1>1, <1>3, Larger
<1> QED
  BY <1>1, <1>2, <1>3, <1>4, <1>5

(* The range of words in the terms of a quarter of the modulus.             *)
LEMMA WordRange ==
  \E h \in Nat \ {0} : Modulus = 4 * h /\ MaxWord = 2 * h - 1 /\ MinWord = -(2 * h)
<1>1. PICK k \in Nat \ {0} : HalfModulus = 2 * k
  <2>1. HalfModulus = 2 * (HalfModulus \div 2) /\ HalfModulus \div 2 \in Nat \ {0}
    BY WordAssumption
  <2> QED
    BY <2>1
<1>2. PICK h : h = k * k
  OBVIOUS
<1>3. h \in Nat \ {0} /\ Modulus = 4 * h
  <2>1. Modulus = 4 * (k * k)
    BY <1>1 DEF Modulus
  <2>2. k * k \in Nat
    OBVIOUS
  <2>3. k * k >= k
    <3>1. k * 0 + k <= k * k
      BY Larger
    <3>2. k * 0 = 0
      OBVIOUS
    <3> QED
      BY <2>2, <3>1, <3>2
  <2> QED
    BY <1>2, <2>1, <2>2, <2>3
<1> QED
  BY <1>3 DEF MaxWord, MinWord

(* A word is not changed by wrapping around.                                *)
LEMMA WrapIdentity ==
  ASSUME NEW n \in Words
  PROVE  DMINT(n) = n
<1>1. PICK h \in Nat \ {0} : Modulus = 4 * h /\ MaxWord = 2 * h - 1 /\ MinWord = -(2 * h)
  BY WordRange
<1>2. n + 2 * h \in 0 .. Modulus - 1 /\ n \in Int /\ Modulus \in Nat \ {0}
  BY <1>1 DEF Words
<1>3. Modulus * 0 = 0
  BY <1>2
<1>4. (n + 2 * h) % Modulus = n + 2 * h
  BY <1>2, <1>3, DivUnique, Modulus * 0 + (n + 2 * h) = n + 2 * h, SMTT(30)
<1> QED
  BY <1>1, <1>2, <1>4 DEF DMINT

(* Truncating division.                                                     *)
LEMMA Truncated ==
  ASSUME NEW x \in Int, NEW y \in Int, y # 0,
         NEW q, NEW r, q = Quotient(x, y), r = x - y * q
  PROVE  /\ q \in Int /\ r \in Int /\ x = q * y + r /\ Abs(r) < Abs(y)
         /\ r = 0 \/ (r < 0) = (x < 0)
         /\ Abs(x) = Abs(y) * Abs(q) + Abs(r)
         /\ q > 0 => (x < 0) = (y < 0)
         /\ q < 0 => (x < 0) # (y < 0)
<1>1. PICK a, b : a = Abs(x) /\ b = Abs(y)
  OBVIOUS
<1>2. a \in Nat /\ b \in Nat \ {0}
  BY <1>1 DEF Abs
<1>3. PICK d, m : d = a \div b /\ m = a % b
  OBVIOUS
<1>4. d \in Nat /\ m \in 0 .. b - 1 /\ a = b * d + m
  <2>1. a \div b \in Nat
    BY <1>2
  <2> QED
    BY <1>2, <1>3, <2>1, DivMod
<1>5. q = IF (x < 0) # (y < 0) THEN -d ELSE d
  BY <1>1, <1>3 DEF Quotient
<1>6. y * q = IF x < 0 THEN -(b * d) ELSE b * d
  <2>1. CASE x < 0 /\ y < 0
    BY <1>1, <1>4, <1>5, <2>1 DEF Abs
  <2>2. CASE x < 0 /\ ~(y < 0)
    BY <1>1, <1>4, <1>5, <2>2 DEF Abs
  <2>3. CASE ~(x < 0) /\ y < 0
    BY <1>1, <1>4, <1>5, <2>3 DEF Abs
  <2>4. CASE ~(x < 0) /\ ~(y < 0)
    BY <1>1, <1>4, <1>5, <2>4 DEF Abs
  <2> QED
    BY <2>1, <2>2, <2>3, <2>4
<1>7. b * d \in Nat /\ q \in Int /\ Abs(q) = d
  BY <1>2, <1>4, <1>5 DEF Abs
<1>8. r = IF x < 0 THEN -m ELSE m
  BY <1>1, <1>4, <1>6, <1>7 DEF Abs
<1>9. r \in Int /\ Abs(r) = m
  BY <1>4, <1>8 DEF Abs
<1>10. y * q = q * y
  BY <1>7
<1> QED
  BY <1>1, <1>2, <1>4, <1>5, <1>6, <1>7, <1>8, <1>9, <1>10

(* Quotients of words are far enough from the ends of the range to be       *)
(* adjusted by one when there is a remainder.                               *)
LEMMA QuotientFits ==
  ASSUME NEW x \in Words, NEW y \in Words, ~Traps(x, y),
         NEW q, NEW r, q = Quotient(x, y), r = x - y * q
  PROVE  /\ q \in Words /\ r \in Words
         /\ r # 0 => q - 1 \in Words /\ q + 1 \in Words
<1>1. PICK h \in Nat \ {0} : Modulus = 4 * h /\ MaxWord = 2 * h - 1 /\ MinWord = -(2 * h)
  BY WordRange
<1>2. x \in Int /\ y \in Int /\ y # 0 /\ ~(x = -(2 * h) /\ y = -1) /\ x \in -(2 * h) .. 2 * h - 1 /\ y \in -(2 * h) .. 2 * h - 1
  BY <1>1 DEF Words, Traps
<1>3. /\ q \in Int /\ r \in Int /\ Abs(r) < Abs(y) /\ Abs(x) = Abs(y) * Abs(q) + Abs(r)
      /\ r = 0 \/ (r < 0) = (x < 0)
      /\ q > 0 => (x < 0) = (y < 0)
      /\ q < 0 => (x < 0) # (y < 0)
  <2>1. q \in Int /\ r \in Int /\ Abs(r) < Abs(y)
    BY <1>2, Truncated
  <2>2. Abs(x) = Abs(y) * Abs(q) + Abs(r)
    BY <1>2, Truncated
  <2>3. r = 0 \/ (r < 0) = (x < 0)
    BY <1>2, Truncated
  <2>4. q > 0 => (x < 0) = (y < 0)
    BY <1>2, Truncated
  <2>5. q < 0 => (x < 0) # (y < 0)
    BY <1>2, Truncated
  <2> QED
    BY <2>1, <2>2, <2>3, <2>4, <2>5
<1>4. PICK a, b, d, m : a = Abs(x) /\ b = Abs(y) /\ d = Abs(q) /\ m = Abs(r)
  OBVIOUS
<1>5. a \in 0 .. 2 * h /\ b \in Nat \ {0} /\ d \in Nat /\ m \in Nat /\ a = b * d + m /\ b * d \in Nat
  BY <1>2, <1>3, <1>4 DEF Abs
<1>6. d <= a /\ m <= a
  <2>1. b * d >= d
    <3>1. CASE d = 0
      BY <3>1, <1>5
    <3>2. CASE d > 0
      <4>1. d * 0 + d <= d * b
        BY <1>5, Larger
      <4> QED
        BY <1>5, <4>1
    <3> QED
      BY <1>5, <3>1, <3>2
  <2> QED
    BY <1>5, <2>1
<1>7. q \in Words
  <2>1. CASE d < 2 * h
    BY <1>1, <1>3, <1>4, <2>1 DEF Words, Abs
  <2>2. CASE d = 2 * h
    <3>1. a = 2 * h /\ x = -(2 * h)
      BY <1>2, <1>4, <1>5, <1>6, <2>2 DEF Abs
    <3>2. ASSUME q > 0 PROVE FALSE
      <4>1. y < 0 /\ b > 1
        BY <1>2, <1>3, <1>4, <3>1, <3>2 DEF Abs
      <4>2. d * 1 + d <= d * b
        BY <1>5, <4>1, Larger
      <4>3. b * d = d * b
        BY <1>5
      <4> QED
        BY <1>5, <2>2, <3>1, <4>2, <4>3
    <3> QED
      BY <1>1, <1>3, <1>4, <2>2, <3>2 DEF Words, Abs
  <2> QED
    BY <1>5, <1>6, <2>1, <2>2
<1>8. r \in Words
  BY <1>1, <1>2, <1>3, <1>4, <1>5, <1>6 DEF Words, Abs
<1>9. ASSUME r # 0 PROVE q - 1 \in Words /\ q + 1 \in Words
  <2>1. b > 1 /\ m > 0
    BY <1>3, <1>4, <1>9 DEF Abs
  <2>2. d * 1 + d <= d * b
    BY <1>5, <2>1, Larger
  <2>3. 2 * d < a
    BY <1>5, <2>1, <2>2
  <2> QED
    BY <1>1, <1>3, <1>4, <1>5, <2>3 DEF Words, Abs
<1> QED
  BY <1>7, <1>8, <1>9

(* A multiple is divided exactly.                                           *)
LEMMA QuotientOfMultiple ==
  ASSUME NEW k \in Int, NEW y \in Int, y # 0
  PROVE  Quotient(k * y, y) = k
<1>1. PICK q, r, n : n = k * y /\ q = Quotient(n, y) /\ r = n - y * q
  OBVIOUS
<1>2. n \in Int /\ q \in Int /\ r \in Int /\ n = q * y + r /\ Abs(r) < Abs(y)
  BY <1>1, Truncated
<1>3. PICK b \in Nat \ {0} : b = Abs(y)
  BY DEF Abs
<1>4. PICK e \in Int : e = k - q
  BY <1>2
<1>5. PICK j \in Nat : j = Abs(e)
  BY <1>4 DEF Abs
<1>6. b * j = Abs(r)
  <2>1. (k - q) * y = r
    BY <1>1, <1>2
  <2> QED
    BY <1>2, <1>3, <1>4, <1>5, <2>1 DEF Abs
<1>7. ~(0 < j)
  <2>1. ASSUME 0 < j PROVE b * 0 + b <= b * j
    BY <2>1, Larger
  <2> QED
    BY <1>2, <1>3, <1>6, <2>1
<1> QED
  BY <1>1, <1>2, <1>4, <1>5, <1>7 DEF Abs

(* A quotient adjusted by one, and the remainder with it.                   *)
LEMMA AdjustedDown ==
  ASSUME NEW x \in Words, NEW y \in Words, ~Traps(x, y), NEW q, NEW r,
         q = Quotient(x, y), r = x - y * q, r # 0, r + y \in Words
  PROVE  /\ Down(ldiv(x, y), y) = [quot |-> q - 1, rem |-> r + y]
         /\ x = (q - 1) * y + (r + y)
<1>1. q - 1 \in Words
  BY QuotientFits
<1>2. q \in Int /\ r \in Int /\ x = q * y + r /\ x \in Int /\ y \in Int
  <2>1. x \in Int /\ y \in Int /\ y # 0
    BY DEF Words, Traps
  <2> QED
    BY <2>1, Truncated
<1>3. Down(ldiv(x, y), y) = [quot |-> q - 1, rem |-> r + y]
  <2>1. ldiv(x, y).quot = q /\ ldiv(x, y).rem = r
    BY DEF ldiv
  <2>2. DMINT(q - 1) = q - 1 /\ DMINT(r + y) = r + y
    BY <1>1, WrapIdentity
  <2> QED
    BY <2>1, <2>2 DEF Down
<1>4. x = (q - 1) * y + (r + y)
  BY <1>2
<1> QED
  BY <1>3, <1>4

(* The same in the other direction.                                         *)
LEMMA AdjustedUp ==
  ASSUME NEW x \in Words, NEW y \in Words, ~Traps(x, y), NEW q, NEW r,
         q = Quotient(x, y), r = x - y * q, r # 0, r - y \in Words
  PROVE  /\ Up(ldiv(x, y), y) = [quot |-> q + 1, rem |-> r - y]
         /\ x = (q + 1) * y + (r - y)
<1>1. q + 1 \in Words
  BY QuotientFits
<1>2. q \in Int /\ r \in Int /\ x = q * y + r /\ x \in Int /\ y \in Int
  <2>1. x \in Int /\ y \in Int /\ y # 0
    BY DEF Words, Traps
  <2> QED
    BY <2>1, Truncated
<1>3. Up(ldiv(x, y), y) = [quot |-> q + 1, rem |-> r - y]
  <2>1. ldiv(x, y).quot = q /\ ldiv(x, y).rem = r
    BY DEF ldiv
  <2>2. DMINT(q + 1) = q + 1 /\ DMINT(r - y) = r - y
    BY <1>1, WrapIdentity
  <2> QED
    BY <2>1, <2>2 DEF Up
<1>4. x = (q + 1) * y + (r - y)
  BY <1>2
<1> QED
  BY <1>3, <1>4

(* A remainder and a divisor do not add up to more than a word.             *)
LEMMA OppositeSigns ==
  ASSUME NEW h \in Nat, NEW y \in -(2 * h) .. 2 * h - 1, NEW r \in Int, Abs(r) < Abs(y)
  PROVE  /\ (r > 0 /\ y < 0) \/ (r < 0 /\ y > 0) => r + y \in -(2 * h) .. 2 * h - 1
         /\ (r > 0 /\ y > 0) \/ (r < 0 /\ y < 0) => r - y \in -(2 * h) .. 2 * h - 1
BY DEF Abs

(* What truncation leaves, in the terms the adjustments test.               *)
LEMMA Remainder ==
  ASSUME NEW x \in Words, NEW y \in Words, ~Traps(x, y), NEW q, NEW r,
         q = Quotient(x, y), r = x - y * q
  PROVE  /\ x \in Int /\ y \in Int /\ y # 0 /\ q \in Int /\ r \in Int
         /\ x = q * y + r /\ Abs(r) < Abs(y)
         /\ ldiv(x, y) = [quot |-> q, rem |-> r]
         /\ (r > 0 /\ y < 0) \/ (r < 0 /\ y > 0) => r + y \in Words
         /\ (r > 0 /\ y > 0) \/ (r < 0 /\ y < 0) => r - y \in Words
<1>1. x \in Int /\ y \in Int /\ y # 0
  BY DEF Words, Traps
<1>2. q \in Int /\ r \in Int /\ x = q * y + r /\ Abs(r) < Abs(y)
  BY <1>1, Truncated
<1>3. PICK h \in Nat \ {0} : Modulus = 4 * h /\ MaxWord = 2 * h - 1 /\ MinWord = -(2 * h)
  BY WordRange
<1>4. /\ (r > 0 /\ y < 0) \/ (r < 0 /\ y > 0) => r + y \in Words
      /\ (r > 0 /\ y > 0) \/ (r < 0 /\ y < 0) => r - y \in Words
  <2>1. y \in -(2 * h) .. 2 * h - 1 /\ Abs(r) < Abs(y) /\ Words = -(2 * h) .. 2 * h - 1
    BY <1>2, <1>3 DEF Words
  <2> QED
    BY <1>2, <2>1, OppositeSigns
<1>5. ldiv(x, y) = [quot |-> q, rem |-> r]
  BY DEF ldiv
<1> QED
  BY <1>1, <1>2, <1>4, <1>5

(* A quotient and a remainder as the operation promises them.               *)
Exact(op, w, x, y) == w.quot \in Int /\ w.rem \in Int /\ Rounded(op, w.quot, w.rem, x, y)

(* divide and truncate/.                                                    *)
LEMMA TruncateExact ==
  ASSUME NEW x \in Words, NEW y \in Words, ~Traps(x, y), NEW op \in {"truncateS", "divide"}
  PROVE  Exact(op, ldiv(x, y), x, y)
<1>1. PICK q, r : q = Quotient(x, y) /\ r = x - y * q
  OBVIOUS
<1>2. q \in Int /\ r \in Int /\ x = q * y + r /\ Abs(r) < Abs(y) /\ ldiv(x, y) = [quot |-> q, rem |-> r]
  BY <1>1, Remainder
<1>3. r = 0 \/ (r < 0) = (x < 0)
  <2>1. x \in Int /\ y \in Int /\ y # 0
    BY <1>1, Remainder
  <2> QED
    BY <1>1, <2>1, Truncated
<1> QED
  BY <1>2, <1>3 DEF Exact, Rounded

(* floor/.                                                                  *)
LEMMA FloorExact ==
  ASSUME NEW x \in Words, NEW y \in Words, ~Traps(x, y)
  PROVE  Exact("floorS", Floor(ldiv(x, y), y), x, y)
<1>1. PICK q, r : q = Quotient(x, y) /\ r = x - y * q
  OBVIOUS
<1>2. /\ x \in Int /\ y \in Int /\ y # 0 /\ q \in Int /\ r \in Int /\ x = q * y + r /\ Abs(r) < Abs(y)
      /\ ldiv(x, y) = [quot |-> q, rem |-> r]
  BY <1>1, Remainder
<1>3. PICK w : w = Floor(ldiv(x, y), y)
  OBVIOUS
<1>4. CASE (r > 0 /\ y < 0) \/ (r < 0 /\ y > 0)
  <2>1. w = Down(ldiv(x, y), y)
    BY <1>2, <1>3, <1>4 DEF Floor
  <2>2. r + y \in Words /\ r # 0
    BY <1>1, <1>2, <1>4, Remainder
  <2>3. w = [quot |-> q - 1, rem |-> r + y] /\ x = (q - 1) * y + (r + y)
    BY <1>1, <2>1, <2>2, AdjustedDown
  <2>4. 0 <= (r + y) * Sign(y) /\ (r + y) * Sign(y) < Abs(y)
    BY <1>2, <1>4 DEF Sign, Abs
  <2>5. w.quot = q - 1 /\ w.rem = r + y
    BY <2>3
  <2> QED
    BY <1>2, <1>3, <2>3, <2>4, <2>5 DEF Exact, Rounded
<1>5. CASE ~((r > 0 /\ y < 0) \/ (r < 0 /\ y > 0))
  <2>1. w = [quot |-> q, rem |-> r]
    BY <1>2, <1>3, <1>5 DEF Floor
  <2>2. 0 <= r * Sign(y) /\ r * Sign(y) < Abs(y)
    BY <1>2, <1>5 DEF Sign, Abs
  <2> QED
    BY <1>2, <1>3, <2>1, <2>2 DEF Exact, Rounded
<1> QED
  BY <1>4, <1>5

(* ceiling/.                                                                *)
LEMMA CeilingExact ==
  ASSUME NEW x \in Words, NEW y \in Words, ~Traps(x, y)
  PROVE  Exact("ceilingS", Ceiling(ldiv(x, y), y), x, y)
<1>1. PICK q, r : q = Quotient(x, y) /\ r = x - y * q
  OBVIOUS
<1>2. /\ x \in Int /\ y \in Int /\ y # 0 /\ q \in Int /\ r \in Int /\ x = q * y + r /\ Abs(r) < Abs(y)
      /\ ldiv(x, y) = [quot |-> q, rem |-> r]
  BY <1>1, Remainder
<1>3. PICK w : w = Ceiling(ldiv(x, y), y)
  OBVIOUS
<1>4. CASE (r > 0 /\ y > 0) \/ (r < 0 /\ y < 0)
  <2>1. w = Up(ldiv(x, y), y)
    BY <1>2, <1>3, <1>4 DEF Ceiling
  <2>2. r - y \in Words /\ r # 0
    BY <1>1, <1>2, <1>4, Remainder
  <2>3. w = [quot |-> q + 1, rem |-> r - y] /\ x = (q + 1) * y + (r - y)
    BY <1>1, <2>1, <2>2, AdjustedUp
  <2>4. -Abs(y) < (r - y) * Sign(y) /\ (r - y) * Sign(y) <= 0
    BY <1>2, <1>4 DEF Sign, Abs
  <2>5. w.quot = q + 1 /\ w.rem = r - y
    BY <2>3
  <2> QED
    BY <1>2, <1>3, <2>3, <2>4, <2>5 DEF Exact, Rounded
<1>5. CASE ~((r > 0 /\ y > 0) \/ (r < 0 /\ y < 0))
  <2>1. w = [quot |-> q, rem |-> r]
    BY <1>2, <1>3, <1>5 DEF Ceiling
  <2>2. -Abs(y) < r * Sign(y) /\ r * Sign(y) <= 0
    BY <1>2, <1>5 DEF Sign, Abs
  <2> QED
    BY <1>2, <1>3, <2>1, <2>2 DEF Exact, Rounded
<1> QED
  BY <1>4, <1>5

(* round/ by a divisor that has an absolute value: threshold is half of it, *)
(* rounded down.                                                            *)
LEMMA Threshold ==
  ASSUME NEW y \in Words, y # MinWord, y # 0
  PROVE  \E t \in Nat : /\ Quotient(labs(y), 2) = t
                        /\ \/ Abs(y) = 2 * t /\ y % 2 = 0
                           \/ Abs(y) = 2 * t + 1 /\ y % 2 = 1
<1>1. y \in Int
  <2>1. PICK h \in Nat \ {0} : Modulus = 4 * h /\ MaxWord = 2 * h - 1 /\ MinWord = -(2 * h)
    BY WordRange
  <2> QED
    BY <2>1 DEF Words
<1>2. labs(y) = Abs(y)
  BY DEF labs
<1>3. PICK b \in Nat : b = Abs(y)
  BY <1>1 DEF Abs
<1>4. Quotient(b, 2) = b \div 2
  BY <1>3 DEF Quotient, Abs
<1>5. b \div 2 \in Nat /\ (b = 2 * (b \div 2) \/ b = 2 * (b \div 2) + 1)
  BY <1>3
<1>6. b = y \/ b = -y
  BY <1>1, <1>3 DEF Abs
<1>7. (b = 2 * (b \div 2) => y % 2 = 0) /\ (b = 2 * (b \div 2) + 1 => y % 2 = 1)
  BY <1>1, <1>3, <1>5, <1>6
<1> QED
  BY <1>2, <1>3, <1>4, <1>5, <1>7

(* The neighbours of an odd quotient are even.                              *)
LEMMA Parity ==
  ASSUME NEW q \in Int
  PROVE  /\ q % 2 = 1 => (q + 1) % 2 = 0 /\ (q - 1) % 2 = 0
         /\ q % 2 # 1 => q % 2 = 0
OBVIOUS

(* round/ to the nearest, and of two to the even one.                       *)
LEMMA RoundUsual ==
  ASSUME NEW x \in Words, NEW y \in Words, ~Traps(x, y), y # MinWord, ~RoundsWrong(ldiv(x, y), y)
  PROVE  Exact("roundS", Round(ldiv(x, y), y), x, y)
<1>1. PICK q, r : q = Quotient(x, y) /\ r = x - y * q
  OBVIOUS
<1>2. /\ x \in Int /\ y \in Int /\ y # 0 /\ q \in Int /\ r \in Int /\ x = q * y + r /\ Abs(r) < Abs(y)
      /\ ldiv(x, y) = [quot |-> q, rem |-> r]
  BY <1>1, Remainder
<1>3. PICK t \in Nat : /\ Quotient(labs(y), 2) = t
                       /\ \/ Abs(y) = 2 * t /\ y % 2 = 0
                          \/ Abs(y) = 2 * t + 1 /\ y % 2 = 1
  BY <1>2, Threshold
<1>4. PICK w : w = Round(ldiv(x, y), y)
  OBVIOUS
<1>5. ~(y % 2 = 1 /\ q % 2 = 1 /\ 2 * Abs(r) = Abs(y) - 1)
  BY <1>2 DEF RoundsWrong
<1>6. CASE r > t \/ (r = t /\ q % 2 = 1)
  <2>1. r > 0 /\ (2 * r = Abs(y) => q % 2 = 1) /\ 2 * r >= Abs(y)
    BY <1>2, <1>3, <1>5, <1>6 DEF Abs
  <2>2. CASE y < 0
    <3>1. w = Down(ldiv(x, y), y)
      BY <1>2, <1>3, <1>4, <1>6, <2>2 DEF Round
    <3>2. r + y \in Words /\ r # 0
      BY <1>1, <1>2, <2>1, <2>2, Remainder
    <3>3. w = [quot |-> q - 1, rem |-> r + y] /\ x = (q - 1) * y + (r + y)
      BY <1>1, <3>1, <3>2, AdjustedDown
    <3>4. 2 * Abs(r + y) <= Abs(y) /\ (2 * Abs(r + y) = Abs(y) => (q - 1) % 2 = 0)
      BY <1>2, <2>1, <2>2, Parity DEF Abs
    <3>5. w.quot = q - 1 /\ w.rem = r + y
      BY <3>3
    <3> QED
      BY <1>2, <1>4, <3>3, <3>4, <3>5 DEF Exact, Rounded
  <2>3. CASE y > 0
    <3>1. w = Up(ldiv(x, y), y)
      BY <1>2, <1>3, <1>4, <1>6, <2>3 DEF Round
    <3>2. r - y \in Words /\ r # 0
      BY <1>1, <1>2, <2>1, <2>3, Remainder
    <3>3. w = [quot |-> q + 1, rem |-> r - y] /\ x = (q + 1) * y + (r - y)
      BY <1>1, <3>1, <3>2, AdjustedUp
    <3>4. 2 * Abs(r - y) <= Abs(y) /\ (2 * Abs(r - y) = Abs(y) => (q + 1) % 2 = 0)
      BY <1>2, <2>1, <2>3, Parity DEF Abs
    <3>5. w.quot = q + 1 /\ w.rem = r - y
      BY <3>3
    <3> QED
      BY <1>2, <1>4, <3>3, <3>4, <3>5 DEF Exact, Rounded
  <2> QED
    BY <1>2, <2>2, <2>3
<1>7. CASE ~(r > t \/ (r = t /\ q % 2 = 1)) /\ (r < -t \/ (r = -t /\ q % 2 = 1))
  <2>1. r < 0 /\ (-(2 * r) = Abs(y) => q % 2 = 1) /\ -(2 * r) >= Abs(y)
    BY <1>2, <1>3, <1>5, <1>7 DEF Abs
  <2>2. CASE y < 0
    <3>1. w = Up(ldiv(x, y), y)
      BY <1>2, <1>3, <1>4, <1>7, <2>2 DEF Round
    <3>2. r - y \in Words /\ r # 0
      BY <1>1, <1>2, <2>1, <2>2, Remainder
    <3>3. w = [quot |-> q + 1, rem |-> r - y] /\ x = (q + 1) * y + (r - y)
      BY <1>1, <3>1, <3>2, AdjustedUp
    <3>4. 2 * Abs(r - y) <= Abs(y) /\ (2 * Abs(r - y) = Abs(y) => (q + 1) % 2 = 0)
      BY <1>2, <2>1, <2>2, Parity DEF Abs
    <3>5. w.quot = q + 1 /\ w.rem = r - y
      BY <3>3
    <3> QED
      BY <1>2, <1>4, <3>3, <3>4, <3>5 DEF Exact, Rounded
  <2>3. CASE y > 0
    <3>1. w = Down(ldiv(x, y), y)
      BY <1>2, <1>3, <1>4, <1>7, <2>3 DEF Round
    <3>2. r + y \in Words /\ r # 0
      BY <1>1, <1>2, <2>1, <2>3, Remainder
    <3>3. w = [quot |-> q - 1, rem |-> r + y] /\ x = (q - 1) * y + (r + y)
      BY <1>1, <3>1, <3>2, AdjustedDown
    <3>4. 2 * Abs(r + y) <= Abs(y) /\ (2 * Abs(r + y) = Abs(y) => (q - 1) % 2 = 0)
      BY <1>2, <2>1, <2>3, Parity DEF Abs
    <3>5. w.quot = q - 1 /\ w.rem = r + y
      BY <3>3
    <3> QED
      BY <1>2, <1>4, <3>3, <3>4, <3>5 DEF Exact, Rounded
  <2> QED
    BY <1>2, <2>2, <2>3
<1>8. CASE ~(r > t \/ (r = t /\ q % 2 = 1)) /\ ~(r < -t \/ (r = -t /\ q % 2 = 1))
  <2>1. w = [quot |-> q, rem |-> r]
    BY <1>2, <1>3, <1>4, <1>8 DEF Round
  <2>2. 2 * Abs(r) <= Abs(y) /\ (2 * Abs(r) = Abs(y) => q % 2 = 0)
    BY <1>2, <1>3, <1>8, Parity DEF Abs
  <2> QED
    BY <1>2, <1>4, <2>1, <2>2 DEF Exact, Rounded
<1> QED
  BY <1>6, <1>7, <1>8

(* The remainder that belongs to a quotient is the only one.                *)
LEMMA OwnRemainder ==
  ASSUME NEW q \in Int, NEW r \in Int, NEW s \in Int, NEW x \in Int, NEW y \in Int,
         x = q * y + r, 2 * Abs(r) > Abs(y) \/ (2 * Abs(r) = Abs(y) /\ q % 2 = 1)
  PROVE  ~Rounded("roundS", q, s, x, y)
<1>1. SUFFICES ASSUME Rounded("roundS", q, s, x, y) PROVE FALSE
  OBVIOUS
<1>2. x = q * y + s /\ 2 * Abs(s) <= Abs(y) /\ (2 * Abs(s) = Abs(y) => q % 2 = 0)
  BY <1>1 DEF Rounded
<1>3. s = r
  BY <1>2
<1>4. PICK a, b : a = Abs(r) /\ b = Abs(y)
  OBVIOUS
<1>5. a \in Int /\ b \in Int
  BY <1>4 DEF Abs
<1> QED
  BY <1>2, <1>3, <1>4, <1>5

(* A word wrapped around is another word.                                   *)
LEMMA WrapNeighbour ==
  ASSUME NEW n \in Words
  PROVE  /\ DMINT(n + 1) \in Int /\ DMINT(n + 1) # n
         /\ DMINT(n - 1) \in Int /\ DMINT(n - 1) # n
<1>1. PICK h \in Nat \ {0} : Modulus = 4 * h /\ MaxWord = 2 * h - 1 /\ MinWord = -(2 * h)
  BY WordRange
<1>2. n \in -(2 * h) .. 2 * h - 1 /\ Modulus \in Nat \ {0}
  BY <1>1 DEF Words
<1>3. PICK m \in Nat \ {0} : m = Modulus
  BY <1>2
<1>4. m * 0 = 0 /\ m * 1 = m /\ m * (-1) = -m
  OBVIOUS
<1>5. (n + 1 + 2 * h) % m # n + 2 * h /\ (n + 1 + 2 * h) % m \in Int
  <2>1. CASE n + 1 + 2 * h < m
    <3>1. (m * 0 + (n + 1 + 2 * h)) % m = n + 1 + 2 * h
      BY <1>1, <1>2, <1>3, <2>1, DivUnique, SMTT(30)
    <3> QED
      BY <1>2, <1>4, <3>1
  <2>2. CASE ~(n + 1 + 2 * h < m)
    <3>1. n + 1 + 2 * h = m /\ n + 2 * h # 0
      BY <1>1, <1>2, <1>3, <2>2
    <3>2. (m * 1 + 0) % m = 0
      BY DivUnique
    <3> QED
      BY <1>2, <1>4, <3>1, <3>2
  <2> QED
    BY <2>1, <2>2
<1>6. (n - 1 + 2 * h) % m # n + 2 * h /\ (n - 1 + 2 * h) % m \in Int
  <2>1. CASE 0 <= n - 1 + 2 * h
    <3>1. n - 1 + 2 * h \in 0 .. m - 1
      BY <1>1, <1>2, <1>3, <2>1
    <3>2. (m * 0 + (n - 1 + 2 * h)) % m = n - 1 + 2 * h
      BY <3>1, DivUnique
    <3> QED
      BY <1>2, <1>4, <3>2
  <2>2. CASE ~(0 <= n - 1 + 2 * h)
    <3>1. n + 2 * h = 0 /\ n - 1 + 2 * h = -1 /\ m > 1
      BY <1>1, <1>2, <1>3, <2>2
    <3>2. (m * (-1) + (m - 1)) % m = m - 1
      BY DivUnique
    <3>3. m * (-1) + (m - 1) = -1
      BY <1>4
    <3> QED
      BY <1>2, <3>1, <3>2, <3>3
  <2> QED
    BY <2>1, <2>2
<1>7. /\ DMINT(n + 1) = ((n + 1 + 2 * h) % m) - 2 * h
      /\ DMINT(n - 1) = ((n - 1 + 2 * h) % m) - 2 * h
  <2>1. (n + 1) - MinWord = n + 1 + 2 * h /\ n - 1 - MinWord = n - 1 + 2 * h
    BY <1>1, <1>2
  <2>2. \A a \in Int : a + MinWord = a - 2 * h
    BY <1>1
  <2>3. DMINT(n + 1) = ((n + 1 + 2 * h) % m) + MinWord
    <3>1. DMINT(n + 1) = (((n + 1) - MinWord) % Modulus) + MinWord
      BY DEF DMINT
    <3> QED
      BY <1>3, <2>1, <3>1, Zenon
  <2>4. DMINT(n - 1) = ((n - 1 + 2 * h) % m) + MinWord
    <3>1. DMINT(n - 1) = ((n - 1 - MinWord) % Modulus) + MinWord
      BY DEF DMINT
    <3> QED
      BY <1>3, <2>1, <3>1, Zenon
  <2> QED
    BY <1>5, <1>6, <2>2, <2>3, <2>4
<1> QED
  BY <1>2, <1>5, <1>6, <1>7

(* round/ by an odd divisor, the remainder just below half of it, away from *)
(* the least word.                                                          *)
LEMMA RoundOdd ==
  ASSUME NEW x \in Words, NEW y \in Words, ~Traps(x, y), y # MinWord, RoundsWrong(ldiv(x, y), y),
         NEW s \in Int
  PROVE  /\ Round(ldiv(x, y), y).quot \in Int
         /\ ~Rounded("roundS", Round(ldiv(x, y), y).quot, s, x, y)
<1>1. PICK q, r : q = Quotient(x, y) /\ r = x - y * q
  OBVIOUS
<1>2. /\ x \in Int /\ y \in Int /\ y # 0 /\ q \in Int /\ r \in Int /\ x = q * y + r /\ Abs(r) < Abs(y)
      /\ ldiv(x, y) = [quot |-> q, rem |-> r]
  BY <1>1, Remainder
<1>3. PICK t \in Nat : /\ Quotient(labs(y), 2) = t
                       /\ \/ Abs(y) = 2 * t /\ y % 2 = 0
                          \/ Abs(y) = 2 * t + 1 /\ y % 2 = 1
  BY <1>2, Threshold
<1>4. PICK w : w = Round(ldiv(x, y), y)
  OBVIOUS
<1>5. y % 2 = 1 /\ q % 2 = 1 /\ 2 * Abs(r) = Abs(y) - 1
  BY <1>2 DEF RoundsWrong
<1>6. Abs(y) = 2 * t + 1 /\ Abs(r) = t
  BY <1>2, <1>3, <1>5 DEF Abs
<1>7. (r >= 0 => r = t) /\ (r < 0 => r = -t /\ t > 0)
  BY <1>2, <1>6 DEF Abs
<1>8. /\ (r >= 0) = (y > 0) => w = Up(ldiv(x, y), y)
      /\ (r >= 0) # (y > 0) => w = Down(ldiv(x, y), y)
  <2>1. CASE r >= 0
    BY <1>2, <1>3, <1>4, <1>5, <1>7, <2>1 DEF Round
  <2>2. CASE r < 0
    BY <1>2, <1>3, <1>4, <1>5, <1>7, <2>2 DEF Round
  <2> QED
    BY <1>2, <2>1, <2>2
<1>9. CASE t = 0
  <2>1. r = 0 /\ (y = 1 \/ y = -1)
    BY <1>2, <1>6, <1>9 DEF Abs
  <2>2. q \in Words
    BY <1>1, QuotientFits
  <2>3. w.quot \in Int /\ w.quot # q
    <3>1. w.quot = DMINT(q + 1) \/ w.quot = DMINT(q - 1)
      BY <1>2, <1>8 DEF Up, Down
    <3> QED
      BY <2>2, <3>1, WrapNeighbour
  <2>4. PICK p \in Int : p = w.quot
    BY <2>3
  <2>5. PICK e \in Int : e = (q - p) * y /\ x = p * y + e
    <3>1. (q - p) * y \in Int /\ x = p * y + (q - p) * y
      BY <1>2, <2>1, <2>4
    <3> QED
      BY <3>1
  <2>6. e = q - p \/ e = p - q
    BY <1>2, <2>1, <2>4, <2>5
  <2>7. 2 * Abs(e) > Abs(y)
    <3>1. e # 0
      BY <1>2, <2>3, <2>4, <2>6
    <3>2. Abs(y) = 1
      BY <2>1 DEF Abs
    <3>3. Abs(e) \in Int /\ Abs(e) >= 1
      BY <3>1 DEF Abs
    <3> QED
      BY <3>2, <3>3
  <2>8. ~Rounded("roundS", p, s, x, y)
    BY <1>2, <2>5, <2>7, OwnRemainder
  <2> QED
    BY <1>4, <2>4, <2>8
<1>10. CASE t > 0 /\ (r >= 0) = (y > 0)
  <2>1. (r > 0 /\ y > 0) \/ (r < 0 /\ y < 0)
    BY <1>2, <1>7, <1>10
  <2>2. r # 0 /\ r - y \in Words
    BY <1>1, <1>2, <2>1, Remainder
  <2>3. w = [quot |-> q + 1, rem |-> r - y] /\ x = (q + 1) * y + (r - y)
    BY <1>1, <1>8, <1>10, <2>2, AdjustedUp
  <2>4. 2 * Abs(r - y) > Abs(y)
    BY <1>2, <1>6, <2>1 DEF Abs
  <2>5. q + 1 \in Int /\ r - y \in Int
    BY <1>2
  <2>6. ~Rounded("roundS", q + 1, s, x, y)
    BY <1>2, <2>3, <2>4, <2>5, OwnRemainder
  <2> QED
    BY <1>4, <2>3, <2>5, <2>6
<1>11. CASE t > 0 /\ (r >= 0) # (y > 0)
  <2>1. (r > 0 /\ y < 0) \/ (r < 0 /\ y > 0)
    BY <1>2, <1>7, <1>11
  <2>2. r # 0 /\ r + y \in Words
    BY <1>1, <1>2, <2>1, Remainder
  <2>3. w = [quot |-> q - 1, rem |-> r + y] /\ x = (q - 1) * y + (r + y)
    BY <1>1, <1>8, <1>11, <2>2, AdjustedDown
  <2>4. 2 * Abs(r + y) > Abs(y)
    BY <1>2, <1>6, <2>1 DEF Abs
  <2>5. q - 1 \in Int /\ r + y \in Int
    BY <1>2
  <2>6. ~Rounded("roundS", q - 1, s, x, y)
    BY <1>2, <2>3, <2>4, <2>5, OwnRemainder
  <2> QED
    BY <1>4, <2>3, <2>5, <2>6
<1> QED
  BY <1>9, <1>10, <1>11

(* round/ by the least word.                                                *)
LEMMA RoundLeast ==
  ASSUME NEW x \in Words, NEW y \in Words, ~Traps(x, y), y = MinWord, NEW s \in Int
  PROVE  /\ ~RoundsWrong(ldiv(x, y), y) => Exact("roundS", Round(ldiv(x, y), y), x, y)
         /\ RoundsWrong(ldiv(x, y), y) =>
              /\ Round(ldiv(x, y), y).quot \in Int
              /\ ~Rounded("roundS", Round(ldiv(x, y), y).quot, s, x, y)
<1>1. PICK q, r : q = Quotient(x, y) /\ r = x - y * q
  OBVIOUS
<1>2. /\ x \in Int /\ y \in Int /\ y # 0 /\ q \in Int /\ r \in Int /\ x = q * y + r /\ Abs(r) < Abs(y)
      /\ ldiv(x, y) = [quot |-> q, rem |-> r]
  BY <1>1, Remainder
<1>3. PICK h \in Nat \ {0} : Modulus = 4 * h /\ MaxWord = 2 * h - 1 /\ MinWord = -(2 * h)
  BY WordRange
<1>4. y = -(2 * h) /\ Abs(y) = 2 * h /\ x \in -(2 * h) .. 2 * h - 1 /\ Words = -(2 * h) .. 2 * h - 1 /\ y < 0
  BY <1>3 DEF Words, Abs
<1>5. PICK t \in Int : Quotient(labs(y), 2) = t /\ t = -h /\ -t = h
  <2>1. labs(y) = -(2 * h)
    BY <1>4 DEF labs
  <2>2. Abs(-(2 * h)) = 2 * h /\ Abs(2) = 2 /\ (2 * h) \div 2 = h
    BY DEF Abs
  <2>3. Quotient(labs(y), 2) = -h
    BY <2>1, <2>2 DEF Quotient
  <2> QED
    BY <2>3
<1>6. q = IF x = y THEN 1 ELSE 0
  <2>1. CASE x = y
    <3>1. Quotient(1 * y, y) = 1
      BY <1>2, QuotientOfMultiple
    <3>2. 1 * y = y
      BY <1>2
    <3> QED
      BY <1>1, <2>1, <3>1, <3>2
  <2>2. CASE x # y
    <3>1. Abs(x) \in 0 .. 2 * h - 1
      BY <1>4, <2>2 DEF Abs
    <3>2. (2 * h * 0 + Abs(x)) \div (2 * h) = 0
      BY <3>1, DivUnique
    <3>3. Abs(x) \div Abs(y) = 0
      BY <1>4, <3>1, <3>2
    <3> QED
      BY <1>1, <2>2, <3>3 DEF Quotient
  <2> QED
    BY <2>1, <2>2
<1>7. r = IF x = y THEN 0 ELSE x
  BY <1>1, <1>2, <1>6
<1>8. PICK w : w = Round(ldiv(x, y), y)
  OBVIOUS
<1>9. RoundsWrong(ldiv(x, y), y) <=> (2 * Abs(r) <= 2 * h /\ ~(2 * r = 2 * h /\ q % 2 = 1))
  <2>1. y % 2 # 1 /\ -MinWord = 2 * h
    BY <1>3, <1>4
  <2> QED
    BY <1>2, <2>1 DEF RoundsWrong
<1>10. CASE x = y
  <2>1. q = 1 /\ r = 0 /\ RoundsWrong(ldiv(x, y), y)
    BY <1>6, <1>7, <1>9, <1>10 DEF Abs
  <2>2. w = Down(ldiv(x, y), y)
    <3>1. r > t /\ ldiv(x, y).rem = r /\ y < 0
      BY <1>2, <1>4, <1>5, <2>1
    <3> QED
      BY <1>5, <1>8, <3>1 DEF Round
  <2>3. w.quot = 0
    <3>1. DMINT(q - 1) = 0
      BY <1>4, <2>1, WrapIdentity
    <3> QED
      BY <1>2, <2>2, <3>1 DEF Down
  <2>4. x = 0 * y + x /\ 2 * Abs(x) > Abs(y)
    BY <1>2, <1>4, <1>10 DEF Abs
  <2>5. ~Rounded("roundS", 0, s, x, y)
    BY <1>2, <2>4, OwnRemainder
  <2> QED
    BY <1>8, <2>1, <2>3, <2>5
<1>11. CASE x # y /\ x > -h
  <2>1. q = 0 /\ r = x
    BY <1>6, <1>7, <1>11
  <2>2. w = Down(ldiv(x, y), y)
    <3>1. r > t /\ ldiv(x, y).rem = r /\ y < 0
      BY <1>2, <1>4, <1>5, <1>11, <2>1
    <3> QED
      BY <1>5, <1>8, <3>1 DEF Round
  <2>3. w = [quot |-> -1, rem |-> DMINT(x - 2 * h)]
    <3>1. DMINT(q - 1) = -1 /\ r + y = x - 2 * h
      BY <1>2, <1>4, <2>1, WrapIdentity
    <3> QED
      BY <1>2, <2>2, <3>1 DEF Down
  <2>4. PICK p, e \in Int : p = -1 /\ p % 2 = 1 /\ e = x - 2 * h /\ x = p * y + e
    <3>1. PICK p \in Int : p = -1
      OBVIOUS
    <3>2. (2 * p + 1) % 2 = 1
      BY DivUnique
    <3>3. 2 * p + 1 = p /\ x - 2 * h \in Int /\ x = p * y + (x - 2 * h)
      BY <1>2, <1>4, <3>1
    <3> QED
      BY <3>1, <3>2, <3>3
  <2>5. CASE x > h
    <3>1. DMINT(x - 2 * h) = x - 2 * h
      BY <1>4, <2>5, WrapIdentity
    <3>2. 2 * Abs(e) < Abs(y)
      BY <1>4, <2>4, <2>5 DEF Abs
    <3>3. ~RoundsWrong(ldiv(x, y), y)
      BY <1>4, <1>9, <2>1, <2>5 DEF Abs
    <3>4. w.quot = p /\ w.rem = e
      BY <2>3, <2>4, <3>1
    <3> QED
      BY <1>2, <1>8, <2>4, <3>2, <3>3, <3>4 DEF Exact, Rounded
  <2>6. CASE x <= h
    <3>1. RoundsWrong(ldiv(x, y), y)
      BY <1>4, <1>9, <1>11, <2>1, <2>6 DEF Abs
    <3>2. 2 * Abs(e) >= Abs(y) /\ Abs(e) \in Int /\ Abs(y) \in Int
      BY <1>4, <2>4, <2>6 DEF Abs
    <3>3. ~Rounded("roundS", p, s, x, y)
      BY <1>2, <2>4, <3>2, OwnRemainder
    <3>4. w.quot = p
      BY <2>3, <2>4
    <3> QED
      BY <1>8, <2>4, <3>1, <3>3, <3>4
  <2> QED
    BY <1>2, <2>5, <2>6
<1>12. CASE x # y /\ x <= -h
  <2>1. q = 0 /\ r = x
    BY <1>6, <1>7, <1>12
  <2>2. w = Up(ldiv(x, y), y)
    <3>1. /\ ~(r > t) /\ ~(r = t /\ q % 2 = 1) /\ r < -t /\ y < 0
          /\ ldiv(x, y).rem = r /\ ldiv(x, y).quot = q
      BY <1>2, <1>4, <1>5, <1>12, <2>1
    <3> QED
      BY <1>5, <1>8, <3>1 DEF Round
  <2>3. w = [quot |-> 1, rem |-> x + 2 * h]
    <3>1. q + 1 = 1 /\ r - y = x + 2 * h /\ 1 \in Words /\ x + 2 * h \in Words
      BY <1>2, <1>4, <1>12, <2>1
    <3>2. DMINT(q + 1) = 1 /\ DMINT(r - y) = x + 2 * h
      BY <3>1, WrapIdentity
    <3> QED
      BY <1>2, <2>2, <3>2 DEF Up
  <2>4. PICK p, e \in Int : p = 1 /\ p % 2 = 1 /\ e = x + 2 * h /\ x = p * y + e
    <3>1. 1 \in Int /\ 1 % 2 = 1 /\ x + 2 * h \in Int /\ x = 1 * y + (x + 2 * h)
      BY <1>2, <1>4
    <3> QED
      BY <3>1
  <2>5. CASE x < -h
    <3>1. 2 * Abs(e) < Abs(y)
      BY <1>4, <1>12, <2>4, <2>5 DEF Abs
    <3>2. ~RoundsWrong(ldiv(x, y), y)
      BY <1>4, <1>9, <2>1, <2>5 DEF Abs
    <3>3. w.quot = p /\ w.rem = e
      BY <2>3, <2>4
    <3> QED
      <4>1. 2 * Abs(e) <= Abs(y) /\ 2 * Abs(e) # Abs(y)
        BY <1>2, <2>4, <3>1 DEF Abs
      <4> QED
        BY <1>2, <1>8, <2>4, <3>2, <3>3, <4>1 DEF Exact, Rounded
  <2>6. CASE x = -h
    <3>1. RoundsWrong(ldiv(x, y), y)
      BY <1>4, <1>9, <2>1, <2>6 DEF Abs
    <3>2. 2 * Abs(e) = Abs(y)
      BY <1>4, <2>4, <2>6 DEF Abs
    <3>3. ~Rounded("roundS", p, s, x, y)
      BY <1>2, <2>4, <3>2, OwnRemainder
    <3>4. w.quot = p
      BY <2>3, <2>4
    <3> QED
      BY <1>8, <2>4, <3>1, <3>3, <3>4
  <2> QED
    BY <1>2, <1>12, <2>5, <2>6
<1> QED
  BY <1>2, <1>10, <1>11, <1>12

(* Where round/ goes wrong it still returns a number.                       *)
LEMMA RoundIsInteger ==
  ASSUME NEW x \in Words, NEW y \in Words, ~Traps(x, y)
  PROVE  Round(ldiv(x, y), y).rem \in Int
<1>1. PICK q, r : q = Quotient(x, y) /\ r = x - y * q
  OBVIOUS
<1>2. y \in Int /\ q \in Int /\ r \in Int /\ ldiv(x, y) = [quot |-> q, rem |-> r]
  BY <1>1, Remainder
<1>3. \A n \in Int : DMINT(n) \in Int
  <2>1. PICK h \in Nat \ {0} : Modulus = 4 * h /\ MaxWord = 2 * h - 1 /\ MinWord = -(2 * h)
    BY WordRange
  <2>2. MinWord \in Int /\ Modulus \in Nat \ {0}
    BY <2>1
  <2> QED
    BY <2>2 DEF DMINT
<1>4. DMINT(r + y) \in Int /\ DMINT(r - y) \in Int
  BY <1>2, <1>3
<1>5. /\ Down(ldiv(x, y), y).rem \in Int /\ Up(ldiv(x, y), y).rem \in Int
      /\ ldiv(x, y).rem \in Int
  BY <1>2, <1>4 DEF Down, Up
<1>6. Round(ldiv(x, y), y) \in {Down(ldiv(x, y), y), Up(ldiv(x, y), y), ldiv(x, y)}
  BY DEF Round
<1> QED
  BY <1>5, <1>6

------------------------------------------------------------------------------
(* A call of one of the divisions of a word has two words and a form.       *)
WordInv ==
  word.op \in Divisions /\ word.size = "single" =>
    word.x \in Words /\ word.y \in Words /\ word.form \in Forms

(* The result, whichever of the two values is returned.                     *)
LEMMA DivisionIsExact ==
  ASSUME word.op \in Divisions, word.form \in Forms, word.x \in Words, word.y \in Words,
         ~Traps(word.x, word.y),
         NEW o, o = Form(Adjusted(ldiv(word.x, word.y), word.y)),
         NEW q, q = IF word.form = "remainder" THEN Quotient(word.x - o[1], word.y) ELSE o[1],
         NEW r, r = IF word.form = "quotient" THEN word.x - q * word.y ELSE o[Len(o)]
  PROVE  RoundedUnless(word.op = "roundS" /\ RoundsWrong(ldiv(word.x, word.y), word.y),
                       word.op, q, r, word.x, word.y)
<1>1. PICK x \in Words, y \in Words : x = word.x /\ y = word.y
  OBVIOUS
<1>2. PICK z, w : z = ldiv(x, y) /\ w = Adjusted(z, y)
  OBVIOUS
<1>3. x \in Int /\ y \in Int /\ y # 0 /\ ~Traps(x, y)
  BY <1>1, Remainder
<1>4. /\ word.form = "quotient" => o = <<w.quot>>
      /\ word.form = "remainder" => o = <<w.rem>>
      /\ word.form \in {"both", "byref"} => o = <<w.quot, w.rem>>
  BY <1>1, <1>2 DEF Form
<1>5. /\ word.form = "quotient" => q = w.quot /\ r = x - q * y
      /\ word.form = "remainder" => q = Quotient(x - w.rem, y) /\ r = w.rem
      /\ word.form \in {"both", "byref"} => q = w.quot /\ r = w.rem
  <2>1. CASE word.form = "quotient"
    BY <1>1, <1>4, <2>1
  <2>2. CASE word.form = "remainder"
    BY <1>1, <1>4, <2>2
  <2>3. CASE word.form \in {"both", "byref"}
    <3>1. o = <<w.quot, w.rem>>
      BY <1>4, <2>3
    <3>2. o[1] = w.quot /\ o[Len(o)] = w.rem
      BY <3>1
    <3>3. word.form # "quotient" /\ word.form # "remainder"
      BY <2>3
    <3> QED
      BY <3>2, <3>3
  <2> QED
    BY <2>1, <2>2, <2>3
<1>6. CASE word.op = "roundS" /\ RoundsWrong(z, y)
  <2>1. w = Round(z, y)
    BY <1>2, <1>6 DEF Adjusted
  <2>2. w.quot \in Int /\ w.rem \in Int
    <3>1. CASE y = MinWord
      BY <1>1, <1>2, <1>3, <1>6, <2>1, <3>1, RoundLeast, RoundIsInteger
    <3>2. CASE y # MinWord
      BY <1>1, <1>2, <1>3, <1>6, <2>1, <3>2, RoundOdd, RoundIsInteger
    <3> QED
      BY <3>1, <3>2
  <2>3. \A s \in Int : ~Rounded("roundS", w.quot, s, x, y)
    <3>1. CASE y = MinWord
      BY <1>1, <1>2, <1>3, <1>6, <2>1, <3>1, RoundLeast
    <3>2. CASE y # MinWord
      BY <1>1, <1>2, <1>3, <1>6, <2>1, <3>2, RoundOdd
    <3> QED
      BY <3>1, <3>2
  <2>4. word.form # "remainder" => q = w.quot /\ r \in Int
    <3>1. x - w.quot * y \in Int
      BY <1>3, <2>2
    <3> QED
      BY <1>5, <2>2, <3>1 DEF Forms
  <2>5. word.form # "remainder" => ~Rounded(word.op, q, r, x, y)
    BY <1>6, <2>3, <2>4
  <2> QED
    BY <1>1, <1>2, <1>6, <2>5 DEF RoundedUnless
<1>7. CASE ~(word.op = "roundS" /\ RoundsWrong(z, y))
  <2>1. Exact(word.op, w, x, y)
    <3>1. CASE word.op \in {"truncateS", "divide"}
      <4>1. w = z
        BY <1>2, <3>1 DEF Adjusted
      <4> QED
        BY <1>2, <1>3, <3>1, <4>1, TruncateExact
    <3>2. CASE word.op = "floorS"
      <4>1. w = Floor(z, y)
        BY <1>2, <3>2 DEF Adjusted
      <4> QED
        BY <1>2, <1>3, <3>2, <4>1, FloorExact
    <3>3. CASE word.op = "ceilingS"
      <4>1. w = Ceiling(z, y)
        BY <1>2, <3>3 DEF Adjusted
      <4> QED
        BY <1>2, <1>3, <3>3, <4>1, CeilingExact
    <3>4. CASE word.op = "roundS"
      <4>1. w = Round(z, y)
        BY <1>2, <3>4 DEF Adjusted
      <4>2. CASE y = MinWord
        BY <1>2, <1>3, <1>7, <3>4, <4>1, <4>2, RoundLeast, 0 \in Int
      <4>3. CASE y # MinWord
        BY <1>2, <1>3, <1>7, <3>4, <4>1, <4>3, RoundUsual
      <4> QED
        BY <4>2, <4>3
    <3> QED
      BY <3>1, <3>2, <3>3, <3>4 DEF Divisions
  <2>2. w.quot \in Int /\ w.rem \in Int /\ x = w.quot * y + w.rem
    BY <2>1 DEF Exact, Rounded
  <2>3. q = w.quot /\ r = w.rem
    <3>1. CASE word.form = "quotient"
      BY <1>3, <1>5, <2>2, <3>1
    <3>2. CASE word.form = "remainder"
      <4>1. x - w.rem = w.quot * y
        BY <1>3, <2>2
      <4>2. Quotient(w.quot * y, y) = w.quot
        BY <1>3, <2>2, QuotientOfMultiple
      <4> QED
        BY <1>5, <3>2, <4>1, <4>2
    <3>3. CASE word.form \in {"both", "byref"}
      BY <1>5, <3>3
    <3> QED
      BY <3>1, <3>2, <3>3 DEF Forms
  <2>4. Rounded(word.op, q, r, x, y)
    BY <2>1, <2>3 DEF Exact
  <2> QED
    BY <1>1, <1>2, <1>7, <2>4 DEF RoundedUnless
<1> QED
  BY <1>6, <1>7

(* Every call of a division starts with two words.                          *)
LEMMA WordInit ==
  InitWords => WordInv /\ QuotientsAreExact
<1> SUFFICES ASSUME InitWords PROVE WordInv /\ QuotientsAreExact
  OBVIOUS
<1>1. QuotientsAreExact
  BY DEF InitWords, QuotientsAreExact
<1>2. Operands \subseteq Words /\ Edges \subseteq Words
  BY OperandAssumption DEF AssumptionOnOperands
<1>3. WordInv
  <2>1. ASSUME NEW op \in Divisions \cup {"unsigned_divide"}, NEW form \in Forms, NEW x \in Operands, NEW y \in Edges,
               word = Call(op, "single", form, x, 0, y)
        PROVE  WordInv
    BY <1>2, <2>1 DEF Call, WordInv
  <2>2. ASSUME NEW op, NEW form, NEW x, NEW high, NEW y, word = Call(op, "double", form, x, high, y)
        PROVE  WordInv
    BY <2>2 DEF Call, WordInv
  <2>3. ASSUME NEW op \in Unary \cup Binary \cup Shifts \cup References, NEW form, NEW x, NEW high, NEW y,
               word = Call(op, "single", form, x, high, y)
        PROVE  WordInv
    <3>1. op \notin Divisions
      BY DEF Divisions, Unary, Binary, Shifts, References
    <3>2. word.op = op
      BY <2>3 DEF Call
    <3> QED
      BY <3>1, <3>2 DEF WordInv
  <2>4. \/ \E op \in Divisions \cup {"unsigned_divide"}, form \in Forms, x \in Operands, y \in Edges :
             word = Call(op, "single", form, x, 0, y)
        \/ \E op, form, x, high, y : word = Call(op, "double", form, x, high, y)
        \/ \E op \in Unary \cup Binary \cup Shifts \cup References : \E form, x, high, y :
             word = Call(op, "single", form, x, high, y)
    BY Zenon DEF InitWords
  <2> QED
    BY <2>1, <2>2, <2>3, <2>4
<1> QED
  BY <1>1, <1>3

(* Only the division primitives answer such a call.                         *)
LEMMA WordNext ==
  WordInv /\ QuotientsAreExact /\ [NextWords]_wordVars => WordInv' /\ QuotientsAreExact'
<1> SUFFICES ASSUME WordInv, QuotientsAreExact, [NextWords]_wordVars
             PROVE  WordInv' /\ QuotientsAreExact'
  OBVIOUS
<1>1. word' = word
  BY DEF NextWords, wordVars
<1>2. WordInv'
  BY <1>1 DEF WordInv
<1>3. CASE UNCHANGED wordVars
  BY <1>2, <1>3 DEF wordVars, QuotientsAreExact, RoundedUnless
<1>4. CASE ~(word.op \in Divisions /\ word.size = "single")
  BY <1>1, <1>2, <1>4 DEF QuotientsAreExact
<1>5. CASE NextWords /\ word.op \in Divisions /\ word.size = "single"
  <2>1. word.x \in Words /\ word.y \in Words /\ word.form \in Forms
    BY <1>5 DEF WordInv
  <2>2. DivideSingle
    <3>1. word.op \notin Unary \cup Binary \cup Shifts \cup {"unsigned_divide", "unsigned_double_divide"}
      BY <1>5 DEF Divisions, Unary, Binary, Shifts
    <3>2. word.form # "reference"
      BY <2>1 DEF Forms
    <3> QED
      BY <1>5, <3>1, <3>2
      DEF NextWords, PrimitiveDivision, PrimitiveDoubleDivision, PrimitiveUnsignedDivision,
          PrimitiveUnsignedDivisionMacros, PrimitiveDivisionByref, PrimitiveArithmetic, PrimitiveShift,
          PrimitiveArithmeticByref
  <2>3. CASE Traps(word.x, word.y) /\ answer' = "trap"
    BY <1>1, <1>2, <2>3 DEF QuotientsAreExact
  <2>4. CASE ~Traps(word.x, word.y) /\ Return(Form(Adjusted(ldiv(word.x, word.y), word.y)))
    <3>1. PICK q : q = IF word.form = "remainder" THEN Quotient(word.x - out'[1], word.y) ELSE out'[1]
      OBVIOUS
    <3>2. PICK r : r = IF word.form = "quotient" THEN word.x - q * word.y ELSE out'[Len(out')]
      OBVIOUS
    <3>3. answer' = "values" /\ out' = Form(Adjusted(ldiv(word.x, word.y), word.y))
      BY <2>4 DEF Return
    <3>4. RoundedUnless(word.op = "roundS" /\ RoundsWrong(ldiv(word.x, word.y), word.y),
                        word.op, q, r, word.x, word.y)
      BY <1>5, <2>1, <2>4, <3>1, <3>2, <3>3, DivisionIsExact
    <3> QED
      BY <1>1, <1>2, <2>4, <3>1, <3>2, <3>3, <3>4 DEF QuotientsAreExact, RoundedUnless
  <2> QED
    BY <2>2, <2>3, <2>4 DEF DivideSingle, Divide
<1> QED
  BY <1>3, <1>4, <1>5

(* floor/, ceiling/, truncate/ and divide return the quotient rounded as    *)
(* they say with the remainder that belongs to it, for every pair of words  *)
(* of every size; round/ does for all but the pairs RoundsWrong names, and  *)
(* for those it does not (primitive_machine_word_floorS and its siblings).  *)
THEOREM QuotientsExact ==
  SpecWords => []QuotientsAreExact
<1>1. InitWords => WordInv /\ QuotientsAreExact
  BY WordInit
<1>2. WordInv /\ QuotientsAreExact /\ [NextWords]_wordVars => WordInv' /\ QuotientsAreExact'
  BY WordNext
<1> QED
  BY <1>1, <1>2, PTL DEF SpecWords

(***************************************************************************)
(* RecursiveLock is correct for any set of threads and any nesting depth.  *)
(* The invariants are inductive together: that the runtime's count is the  *)
(* owner's nesting depth bounds the count, and that a thread in the wait   *)
(* loop owns nothing keeps the claim at the end of the loop, which does    *)
(* not look at the owner, from adding to somebody's depth.                 *)
(***************************************************************************)
USE RecursiveAssumption

RecIInv == TypeOK /\ DepthMatchesCount /\ NoLostSignal

\* A claim by a thread that may claim, from the program or from the wait loop.
LEMMA RecClaimKeeps ==
  ASSUME RecIInv, NEW t \in Thread, Claim(t), nesting[t] < MaxNesting,
         recursion_count = 0 \/ (owner = t /\ pc[t] = "program")
  PROVE  RecIInv'
<1>1. /\ recursion_count' \in 0 .. MaxNesting /\ recursion_count' # 0
      /\ nesting' \in [Thread -> 0 .. MaxNesting]
  BY DEF RecIInv, TypeOK, DepthMatchesCount, Owned, Claim
<1>2. TypeOK'
  BY <1>1 DEF RecIInv, TypeOK, Claim
<1>3. DepthMatchesCount'
  <2> SUFFICES ASSUME NEW u \in Thread
               PROVE  (nesting[u] = IF Owned(u) THEN recursion_count ELSE 0)'
    BY DEF DepthMatchesCount
  <2>1. CASE u = t
    BY <2>1, <1>1 DEF RecIInv, TypeOK, DepthMatchesCount, Owned, Claim
  <2>2. CASE u # t
    BY <2>2, <1>1 DEF RecIInv, TypeOK, DepthMatchesCount, Owned, Claim
  <2> QED
    BY <2>1, <2>2
<1>4. NoLostSignal'
  <2>1. ASSUME NEW u \in Thread, pc'[u] # "program"
        PROVE  ~Owned(u)'
    BY <2>1 DEF RecIInv, TypeOK, Owned, Claim
  <2> QED
    BY <2>1, <1>1 DEF NoLostSignal
<1> QED
  BY <1>2, <1>3, <1>4 DEF RecIInv

\* A thread that moves between the program and the wait loop without touching the
\* lock keeps the invariant when it owns nothing, and either the lock is owned or
\* it leaves somebody awake.
LEMMA RecMoveKeeps ==
  ASSUME RecIInv, NEW t \in Thread, NEW p \in {"program", "asleep", "awake"},
         pc' = [pc EXCEPT ![t] = p], ~Owned(t), timed' \in [Thread -> BOOLEAN],
         UNCHANGED <<owner, recursion_count, nesting>>,
         recursion_count # 0 \/ p = "awake" \/ (p = "program" /\ pc[t] = "asleep")
  PROVE  RecIInv'
<1>1. TypeOK'
  BY DEF RecIInv, TypeOK
<1>2. DepthMatchesCount'
  BY DEF RecIInv, DepthMatchesCount, Owned
<1>3. \A u \in Thread : pc'[u] # "program" => ~Owned(u)'
  BY DEF RecIInv, TypeOK, NoLostSignal, Owned
<1>4. (recursion_count = 0 /\ In("asleep") # {} => In("awake") # {})'
  <2> SUFFICES ASSUME recursion_count = 0, In("asleep")' # {}
               PROVE  In("awake")' # {}
    OBVIOUS
  <2>1. CASE p = "awake"
    BY <2>1 DEF In, RecIInv, TypeOK
  <2>2. CASE p = "program" /\ pc[t] = "asleep"
    BY <2>2 DEF In, RecIInv, TypeOK, NoLostSignal
  <2> QED
    BY <2>1, <2>2
<1> QED
  BY <1>1, <1>2, <1>3, <1>4 DEF RecIInv, NoLostSignal

LEMMA RecReleaseKeeps ==
  ASSUME RecIInv, NEW t \in Thread, Release(t)
  PROVE  RecIInv'
<1>1. /\ recursion_count' \in 0 .. MaxNesting /\ recursion_count \in Nat \ {0}
      /\ recursion_count' = recursion_count - 1
      /\ nesting' \in [Thread -> 0 .. MaxNesting]
      /\ owner = t /\ owner' = t
  BY DEF RecIInv, TypeOK, DepthMatchesCount, Owned, Release
<1>2. /\ pc' \in [Thread -> {"program", "asleep", "awake"}]
      /\ \A u \in Thread : pc'[u] # "program" => pc[u] # "program"
  BY DEF RecIInv, TypeOK, Release, In
<1>3. TypeOK'
  BY <1>1, <1>2 DEF RecIInv, TypeOK, Release
<1>4. DepthMatchesCount'
  <2> SUFFICES ASSUME NEW u \in Thread
               PROVE  (nesting[u] = IF Owned(u) THEN recursion_count ELSE 0)'
    BY DEF DepthMatchesCount
  <2>1. CASE u = t
    BY <2>1, <1>1 DEF RecIInv, TypeOK, DepthMatchesCount, Owned, Release
  <2>2. CASE u # t
    BY <2>2, <1>1 DEF RecIInv, TypeOK, DepthMatchesCount, Owned, Release
  <2> QED
    BY <2>1, <2>2
<1>5. \A u \in Thread : pc'[u] # "program" => ~Owned(u)'
  BY <1>1, <1>2 DEF RecIInv, NoLostSignal, Owned, Release
<1>6. (recursion_count = 0 /\ In("asleep") # {} => In("awake") # {})'
  <2> SUFFICES ASSUME recursion_count' = 0, In("asleep")' # {}
               PROVE  In("awake")' # {}
    OBVIOUS
  <2>1. recursion_count = 1
    BY <1>1
  <2>2. In("asleep") # {}
    BY <2>1 DEF Release, In
  <2>3. PICK u \in In("asleep") : pc' = [pc EXCEPT ![u] = "awake"]
    BY <2>1, <2>2 DEF Release
  <2> QED
    BY <2>3 DEF In, RecIInv, TypeOK
<1> QED
  BY <1>3, <1>4, <1>5, <1>6 DEF RecIInv, NoLostSignal

LEMMA RecInitIInv ==
  Init => RecIInv
  BY DEF Init, RecIInv, TypeOK, DepthMatchesCount, NoLostSignal, Owned, In

LEMMA RecNextIInv ==
  RecIInv /\ [Next]_vars => RecIInv'
<1> SUFFICES ASSUME RecIInv, [Next]_vars
             PROVE  RecIInv'
  OBVIOUS
<1>1. CASE UNCHANGED vars
  BY <1>1 DEF vars, RecIInv, TypeOK, DepthMatchesCount, NoLostSignal, Owned, In
<1>2. ASSUME NEW t \in Thread, WaitFor(t)
      PROVE  RecIInv'
  <2>1. CASE (recursion_count = 0 \/ owner = t) /\ Claim(t)
    BY <2>1, <1>2, RecClaimKeeps DEF WaitFor
  <2>2. CASE recursion_count # 0 /\ owner # t /\ pc' = [pc EXCEPT ![t] = "asleep"]
    <3>1. pc' # [pc EXCEPT ![t] = "program"]
      BY <2>2 DEF RecIInv, TypeOK
    <3>2. PICK b \in BOOLEAN : timed' = [timed EXCEPT ![t] = b]
      BY <1>2, <2>2, <3>1 DEF WaitFor, Claim
    <3>3. timed' \in [Thread -> BOOLEAN]
      BY <3>2 DEF RecIInv, TypeOK
    <3>4. UNCHANGED <<owner, recursion_count, nesting>>
      BY <1>2, <2>2, <3>1 DEF WaitFor, Claim
    <3>5. ~Owned(t)
      BY <2>2 DEF Owned
    <3> QED
      BY <2>2, <3>3, <3>4, <3>5, RecMoveKeeps
  <2> QED
    BY <2>1, <2>2, <1>2 DEF WaitFor
<1>3. ASSUME NEW t \in Thread, Retry(t)
      PROVE  RecIInv'
  <2>1. ~Owned(t) /\ nesting[t] = 0 /\ nesting[t] < MaxNesting
    BY <1>3 DEF Retry, RecIInv, NoLostSignal, DepthMatchesCount
  <2>2. CASE recursion_count = 0 /\ Claim(t)
    BY <2>1, <2>2, RecClaimKeeps
  <2>3. CASE recursion_count # 0
    BY <2>1, <2>3, <1>3, RecMoveKeeps DEF Retry, RecIInv, TypeOK
  <2> QED
    BY <2>2, <2>3, <1>3 DEF Retry
<1>4. ASSUME NEW t \in Thread, SpuriousWakeup(t)
      PROVE  RecIInv'
  BY <1>4, RecMoveKeeps DEF SpuriousWakeup, RecIInv, TypeOK, NoLostSignal
<1>5. ASSUME NEW t \in Thread, TimedOut(t)
      PROVE  RecIInv'
  BY <1>5, RecMoveKeeps DEF TimedOut, RecIInv, TypeOK, NoLostSignal
<1>6. ASSUME NEW t \in Thread, Release(t)
      PROVE  RecIInv'
  BY <1>6, RecReleaseKeeps
<1> QED
  BY <1>1, <1>2, <1>3, <1>4, <1>5, <1>6 DEF Next

\* The invariants of the recursive lock hold together, for every set of threads.
THEOREM RecInvariance ==
  Spec => []RecIInv
  BY RecInitIInv, RecNextIInv, PTL DEF Spec

\* The lock's fields have their types: the count never becomes negative, whatever
\* releases the program tries.
THEOREM RecTypeCorrect ==
  Spec => []TypeOK
  BY RecInvariance, PTL DEF RecIInv

\* Mutual exclusion with nesting: the count of the runtime is the nesting depth
\* of the owner and every other thread has depth zero.
THEOREM RecMutualExclusion ==
  Spec => []DepthMatchesCount
  BY RecInvariance, PTL DEF RecIInv

\* No thread waits for itself and no signal of a freed lock is lost.
THEOREM RecSignalsNotLost ==
  Spec => []NoLostSignal
  BY RecInvariance, PTL DEF RecIInv

(***************************************************************************)
(* Allocation                                                              *)
(***************************************************************************)

(* What the name of a primitive says of its options, over every collector.  *)
NameSays(name, options) ==
  /\ "s" \in options <=> name[2] = "s"
  /\ "s1" \in options <=> name[2] \in {"s1", "s2"} \/ name[1] \in {"exact_awl", "weak_awl"}
  /\ "s2" \in options <=> name[2] = "s2"
  /\ "r" \in options <=> name[3] # ""
  /\ "rf" \in options <=> name[3] = "rf" /\ name[1] # "leaf"
  /\ "uf" \in options <=> name[3] \in {"rbf", "rbfz"} \/ (name[3] = "rf" /\ name[1] = "leaf")
  /\ "zt" \in options <=> name[3] = "rbfz"
  /\ "rt" \in options <=> name[3] = "rt"
  /\ "copy" \in options <=> name[2] = "copy" /\ name[3] = ""
  /\ "copyfixed" \in options <=> name[2] = "copy" /\ name[3] # ""
  /\ "null" \in options <=> name[2] = "copy" /\ name[3] # ""
  /\ name[1] = "wrapper" => name[2] # "copy" /\ name[3] # "rt"

(* How the memory of the pools of a collector comes, and whether it is      *)
(* scanned and moves.                                                       *)
PoolSays(collected, name, pool) ==
  /\ pool.moving = (collected = "mps" /\ name[1] # "wrapper")
  /\ pool.scanned = \/ collected = "boehm" /\ name[1] \notin {"leaf", "wrapper"}
                    \/ collected = "mps" /\ name[1] # "leaf"
  /\ pool.fresh = IF collected = "boehm" /\ name[1] \notin {"leaf", "wrapper"} THEN Zero ELSE Junk

Says(collected, name, prim) == NameSays(name, prim.options) /\ PoolSays(collected, name, prim.pool)

LEMMA Numbers ==
  ASSUME NEW j \in 1 .. 31
  PROVE  j = 1 \/ j = 2 \/ j = 3 \/ j = 4 \/ j = 5 \/ j = 6 \/ j = 7 \/ j = 8 \/ j = 9 \/
         j = 10 \/ j = 11 \/ j = 12 \/ j = 13 \/ j = 14 \/ j = 15 \/ j = 16 \/ j = 17 \/
         j = 18 \/ j = 19 \/ j = 20 \/ j = 21 \/ j = 22 \/ j = 23 \/ j = 24 \/ j = 25 \/
         j = 26 \/ j = 27 \/ j = 28 \/ j = 29 \/ j = 30 \/ j = 31
OBVIOUS

LEMMA BoehmSays ==
  ASSUME NEW j \in DOMAIN PrimitiveNames
  PROVE  Says("boehm", PrimitiveNames[j], Boehm!Primitives[j])
<1> DEFINE Right(i) == Says("boehm", PrimitiveNames[i], Boehm!Primitives[i])
<1>1. Right(1) /\ Right(2) /\ Right(3) /\ Right(4) /\ Right(5) /\ Right(6) /\ Right(7) /\
      Right(8) /\ Right(9) /\ Right(10) /\ Right(11) /\ Right(12) /\ Right(13) /\
      Right(14) /\ Right(15) /\ Right(16) /\ Right(17) /\ Right(18) /\ Right(19) /\
      Right(20) /\ Right(21) /\ Right(22) /\ Right(23) /\ Right(24) /\ Right(25) /\
      Right(26) /\ Right(27) /\ Right(28) /\ Right(29) /\ Right(30) /\ Right(31)
  BY ZenonT(120)
  DEF Says, NameSays, PoolSays, PrimitiveNames, Boehm!Primitives, Boehm!AllocInternal, Zero, Junk,
      Word, Boehm!Zero, Boehm!Junk, Boehm!Word, Boehm!primitive_alloc, Boehm!primitive_alloc_s1,
      Boehm!primitive_alloc_s2, Boehm!primitive_alloc_s, Boehm!primitive_alloc_r,
      Boehm!primitive_alloc_rf, Boehm!primitive_alloc_s_r, Boehm!primitive_alloc_s_rf,
      Boehm!primitive_alloc_s_rbf, Boehm!primitive_alloc_s_rbfz, Boehm!primitive_alloc_rbfz,
      Boehm!primitive_alloc_s_rb, Boehm!primitive_alloc_leaf, Boehm!primitive_alloc_leaf_s_r,
      Boehm!primitive_alloc_leaf_s1, Boehm!primitive_alloc_leaf_s2, Boehm!primitive_alloc_leaf_s,
      Boehm!primitive_alloc_leaf_r, Boehm!primitive_alloc_leaf_s_rbf, Boehm!primitive_alloc_leaf_rf,
      Boehm!primitive_alloc_leaf_s_rbfz, Boehm!primitive_alloc_leaf_rbfz,
      Boehm!primitive_alloc_leaf_s_rb, Boehm!primitive_alloc_exact_awl_s_r,
      Boehm!primitive_alloc_weak_awl_s_r, Boehm!primitive_alloc_exact_awl_rf,
      Boehm!primitive_alloc_weak_awl_rf, Boehm!primitive_alloc_wrapper_s_r,
      Boehm!primitive_alloc_rt, Boehm!primitive_copy, Boehm!primitive_copy_r,
      Boehm!MMAllocateObject, Boehm!MMAllocateLeaf, Boehm!MMAllocateExactAWL,
      Boehm!MMAllocateWeakAWL, Boehm!MMAllocateWrapper, Boehm!MMAllocateLeafObject,
      Boehm!MMAllocateLeafRepeated, Boehm!MMAllocateLeafTerminated
<1>2. j \in 1 .. 31
  BY DEF PrimitiveNames
<1> QED
  BY <1>1, <1>2, Numbers

LEMMA MallocSays ==
  ASSUME NEW j \in DOMAIN PrimitiveNames
  PROVE  Says("malloc", PrimitiveNames[j], Malloc!Primitives[j])
<1> DEFINE Right(i) == Says("malloc", PrimitiveNames[i], Malloc!Primitives[i])
<1>1. Right(1) /\ Right(2) /\ Right(3) /\ Right(4) /\ Right(5) /\ Right(6) /\ Right(7) /\
      Right(8) /\ Right(9) /\ Right(10) /\ Right(11) /\ Right(12) /\ Right(13) /\
      Right(14) /\ Right(15) /\ Right(16) /\ Right(17) /\ Right(18) /\ Right(19) /\
      Right(20) /\ Right(21) /\ Right(22) /\ Right(23) /\ Right(24) /\ Right(25) /\
      Right(26) /\ Right(27) /\ Right(28) /\ Right(29) /\ Right(30) /\ Right(31)
  BY ZenonT(120)
  DEF Says, NameSays, PoolSays, PrimitiveNames, Malloc!Primitives, Malloc!AllocInternal, Zero, Junk,
      Word, Malloc!Zero, Malloc!Junk, Malloc!Word, Malloc!primitive_alloc,
      Malloc!primitive_alloc_s1, Malloc!primitive_alloc_s2, Malloc!primitive_alloc_s,
      Malloc!primitive_alloc_r, Malloc!primitive_alloc_rf, Malloc!primitive_alloc_s_r,
      Malloc!primitive_alloc_s_rf, Malloc!primitive_alloc_s_rbf, Malloc!primitive_alloc_s_rbfz,
      Malloc!primitive_alloc_rbfz, Malloc!primitive_alloc_s_rb, Malloc!primitive_alloc_leaf,
      Malloc!primitive_alloc_leaf_s_r, Malloc!primitive_alloc_leaf_s1,
      Malloc!primitive_alloc_leaf_s2, Malloc!primitive_alloc_leaf_s, Malloc!primitive_alloc_leaf_r,
      Malloc!primitive_alloc_leaf_s_rbf, Malloc!primitive_alloc_leaf_rf,
      Malloc!primitive_alloc_leaf_s_rbfz, Malloc!primitive_alloc_leaf_rbfz,
      Malloc!primitive_alloc_leaf_s_rb, Malloc!primitive_alloc_exact_awl_s_r,
      Malloc!primitive_alloc_weak_awl_s_r, Malloc!primitive_alloc_exact_awl_rf,
      Malloc!primitive_alloc_weak_awl_rf, Malloc!primitive_alloc_wrapper_s_r,
      Malloc!primitive_alloc_rt, Malloc!primitive_copy, Malloc!primitive_copy_r,
      Malloc!MMAllocateObject, Malloc!MMAllocateLeaf, Malloc!MMAllocateExactAWL,
      Malloc!MMAllocateWeakAWL, Malloc!MMAllocateWrapper, Malloc!MMAllocateLeafObject,
      Malloc!MMAllocateLeafRepeated, Malloc!MMAllocateLeafTerminated
<1>2. j \in 1 .. 31
  BY DEF PrimitiveNames
<1> QED
  BY <1>1, <1>2, Numbers

LEMMA MPSSays ==
  ASSUME NEW j \in DOMAIN PrimitiveNames
  PROVE  Says("mps", PrimitiveNames[j], MPS!Primitives[j])
<1> DEFINE Right(i) == Says("mps", PrimitiveNames[i], MPS!Primitives[i])
<1>1. Right(1) /\ Right(2) /\ Right(3) /\ Right(4) /\ Right(5) /\ Right(6) /\ Right(7) /\
      Right(8) /\ Right(9) /\ Right(10) /\ Right(11) /\ Right(12) /\ Right(13) /\
      Right(14) /\ Right(15) /\ Right(16) /\ Right(17) /\ Right(18) /\ Right(19) /\
      Right(20) /\ Right(21) /\ Right(22) /\ Right(23) /\ Right(24) /\ Right(25) /\
      Right(26) /\ Right(27) /\ Right(28) /\ Right(29) /\ Right(30) /\ Right(31)
  BY ZenonT(120)
  DEF Says, NameSays, PoolSays, PrimitiveNames, MPS!Primitives, MPS!AllocInternal, Zero, Junk, Word,
      MPS!Zero, MPS!Junk, MPS!Word, MPS!primitive_alloc, MPS!primitive_alloc_s1,
      MPS!primitive_alloc_s2, MPS!primitive_alloc_s, MPS!primitive_alloc_r, MPS!primitive_alloc_rf,
      MPS!primitive_alloc_s_r, MPS!primitive_alloc_s_rf, MPS!primitive_alloc_s_rbf,
      MPS!primitive_alloc_s_rbfz, MPS!primitive_alloc_rbfz, MPS!primitive_alloc_s_rb,
      MPS!primitive_alloc_leaf, MPS!primitive_alloc_leaf_s_r, MPS!primitive_alloc_leaf_s1,
      MPS!primitive_alloc_leaf_s2, MPS!primitive_alloc_leaf_s, MPS!primitive_alloc_leaf_r,
      MPS!primitive_alloc_leaf_s_rbf, MPS!primitive_alloc_leaf_rf, MPS!primitive_alloc_leaf_s_rbfz,
      MPS!primitive_alloc_leaf_rbfz, MPS!primitive_alloc_leaf_s_rb,
      MPS!primitive_alloc_exact_awl_s_r, MPS!primitive_alloc_weak_awl_s_r,
      MPS!primitive_alloc_exact_awl_rf, MPS!primitive_alloc_weak_awl_rf,
      MPS!primitive_alloc_wrapper_s_r, MPS!primitive_alloc_rt, MPS!primitive_copy,
      MPS!primitive_copy_r, MPS!MMReserveObject, MPS!MMReserveLeaf, MPS!MMReserveExactAWL,
      MPS!MMReserveWeakAWL, MPS!MMReserveWrapper, MPS!MMReserveLeafObject,
      MPS!MMReserveLeafRepeated, MPS!MMReserveLeafTerminated
<1>2. j \in 1 .. 31
  BY DEF PrimitiveNames
<1> QED
  BY <1>1, <1>2, Numbers

LEMMA ChosenSays ==
  ASSUME collector \in {"boehm", "malloc", "mps"},
         NEW j \in DOMAIN PrimitiveNames, asked.prim = PrimitiveNames[j]
  PROVE  Says(collector, asked.prim, Chosen)
<1> DEFINE i == CHOOSE k \in DOMAIN PrimitiveNames : PrimitiveNames[k] = asked.prim
<1>1. i \in DOMAIN PrimitiveNames /\ PrimitiveNames[i] = asked.prim
  BY Zenon
<1> HIDE DEF i
<1>2. Chosen = CASE collector = "boehm" -> Boehm!Primitives[i]
                 [] collector = "malloc" -> Malloc!Primitives[i]
                 [] collector = "mps" -> MPS!Primitives[i]
  BY Zenon DEF Chosen, Primitive, i
<1>3. CASE collector = "boehm"
  <2>1. Chosen = Boehm!Primitives[i]
    BY <1>2, <1>3
  <2> QED
    BY <1>1, <1>3, <2>1, BoehmSays, Zenon
<1>4. CASE collector = "malloc"
  <2>1. Chosen = Malloc!Primitives[i]
    BY <1>2, <1>4
  <2> QED
    BY <1>1, <1>4, <2>1, MallocSays, Zenon
<1>5. CASE collector = "mps"
  <2>1. Chosen = MPS!Primitives[i]
    BY <1>2, <1>5
  <2> QED
    BY <1>1, <1>5, <2>1, MPSSays, Zenon
<1> QED
  BY <1>3, <1>4, <1>5

(* A word that is neither a reference nor memory nobody wrote.              *)
Plain(cell) == cell.is \notin {"reference", "junk"}

(* A cell as the collector may find it: what it has to find written is not  *)
(* junk, and a reference is to where the object is now.                     *)
SoundWord(cell, at, needed) ==
  /\ cell.is = "reference" => cell.n = at
  /\ needed => cell # Junk

Needed(q, a, i) == q.fn # "direct" /\ (i < Header(a) \/ q.type = "object")
SoundCells(q, a, o, at) == \A i \in DOMAIN o.cells : SoundWord(o.cells[i], at, Needed(q, a, i))
PlainCells(o) == \A i \in DOMAIN o.cells : Plain(o.cells[i])

LEMMA PlainIsSound ==
  ASSUME NEW cell, NEW at, NEW needed \in BOOLEAN, Plain(cell)
  PROVE  SoundWord(cell, at, needed)
<1>1. Junk.is = "junk"
  BY DEF Junk, Word
<1> QED
  BY <1>1 DEF Plain, SoundWord

LEMMA ReferenceIsSound ==
  ASSUME NEW at, NEW needed
  PROVE  SoundWord(Reference(at), at, needed) /\ Reference(at).is = "reference"
BY DEF Reference, Junk, Word, SoundWord

LEMMA WordsArePlain ==
  /\ Plain(Zero) /\ Plain(Null) /\ Plain(Wrapper) /\ Plain(Fill) /\ Plain(Data1) /\ Plain(Data2)
  /\ Plain(Assoc) /\ Plain(RepeatedFill) /\ Plain(LocalAddress) /\ Plain(Schema) /\ Plain(Beyond)
  /\ Plain(Signature) /\ ~Plain(Junk)
  /\ \A i : Plain(Captured(i)) /\ Plain(SizeSlot(i)) /\ Plain(Character(i))
BY DEF Plain, Zero, Null, Wrapper, Fill, Data1, Data2, Assoc, RepeatedFill, LocalAddress, Schema, Beyond,
       Signature, Junk, Word, Captured, SizeSlot, Character

(* A write, one cell at a time.                                             *)
LEMMA WriteCells ==
  ASSUME NEW o, NEW first, NEW count, NEW value
  PROVE  /\ DOMAIN Write(o, first, count, value).cells = DOMAIN o.cells
         /\ \A i \in DOMAIN o.cells :
              Write(o, first, count, value).cells[i] = IF i >= first /\ i < first + count THEN value ELSE o.cells[i]
BY DEF Write

IsObject(o) == o = [cells |-> o.cells, overrun |-> o.overrun]

LEMMA RecordsAreObjects ==
  ASSUME NEW cells, NEW overrun
  PROVE  IsObject([cells |-> cells, overrun |-> overrun])
BY DEF IsObject

LEMMA WriteIsObject ==
  ASSUME NEW o, NEW first, NEW count, NEW value
  PROVE  IsObject(Write(o, first, count, value))
BY RecordsAreObjects, Zenon DEF Write

(* The arguments of a primitive, and the cells it writes before it commits. *)
Arguable(a) ==
  /\ a.size_in_words \in Nat /\ a.no_to_fill \in Nat /\ a.rep_size \in Nat /\ a.rep_size_slot \in Nat
  /\ Plain(a.fill) /\ Plain(a.s1) /\ Plain(a.s2) /\ Plain(a.rep_fill)

Covered(options, a, i) ==
  \/ i = 0
  \/ "s" \in options /\ i >= 1 /\ i <= a.no_to_fill
  \/ "s1" \in options /\ i = 1
  \/ "s2" \in options /\ i = 2
  \/ "r" \in options /\ i = a.rep_size_slot
  \/ "rf" \in options /\ i > a.rep_size_slot /\ i <= a.rep_size_slot + a.rep_size

NoReferences(options) == "copy" \notin options /\ "copyfixed" \notin options /\ "rt" \notin options

WellWritten(o, prim, a, at, made) ==
  /\ DOMAIN made.cells = DOMAIN o.cells
  /\ \A i \in DOMAIN o.cells :
       /\ SoundWord(made.cells[i], at, o.cells[i].is # "junk" \/ Covered(prim.options, a, i))
       /\ NoReferences(prim.options) => made.cells[i].is # "reference"

LEMMA InitialisedCells ==
  ASSUME NEW prim, NEW a, NEW at, NEW o, Arguable(a),
         \A i \in DOMAIN o.cells : i \in Nat /\ o.cells[i].is # "reference"
  PROVE  /\ IsObject(Initialised(o, prim, a, at))
         /\ WellWritten(o, prim, a, at, Initialised(o, prim, a, at))
<1> DEFINE on(option) == option \in prim.options
           o0 == Write(o, 0, 1, Wrapper)
           o1 == If(on("copy"), o0, 1, a.size_in_words - 1, Reference(at))
           o2 == If(on("copyfixed"), o1, 1, a.rep_size_slot - 1, Reference(at))
           o3 == If(on("s"), o2, 1, a.no_to_fill, a.fill)
           o4 == If(on("s1"), o3, 1, 1, a.s1)
           o5 == If(on("s2"), o4, 2, 1, a.s2)
           o6 == If(on("r") /\ a.rep_size_slot # 0, o5, a.rep_size_slot, 1, SizeSlot(a.rep_size))
           o7 == If(on("null"), o6, a.rep_size_slot + 1, a.rep_size, Null)
           o8 == If(on("rt"), o7, a.rep_size_slot + 1, a.rep_size, Reference(at))
           o9 == If(on("rf"), o8, a.rep_size_slot + 1, a.rep_size, a.rep_fill)
<1>1. Initialised(o, prim, a, at) = o9
  BY Zenon DEF Initialised
<1> HIDE DEF o0, o1, o2, o3, o4, o5, o6, o7, o8, o9
<1>d0. DOMAIN o0.cells = DOMAIN o.cells
  BY WriteCells DEF o0
<1>d1. DOMAIN o1.cells = DOMAIN o.cells
  BY WriteCells, <1>d0 DEF If, o1
<1>d2. DOMAIN o2.cells = DOMAIN o.cells
  BY WriteCells, <1>d1 DEF If, o2
<1>d3. DOMAIN o3.cells = DOMAIN o.cells
  BY WriteCells, <1>d2 DEF If, o3
<1>d4. DOMAIN o4.cells = DOMAIN o.cells
  BY WriteCells, <1>d3 DEF If, o4
<1>d5. DOMAIN o5.cells = DOMAIN o.cells
  BY WriteCells, <1>d4 DEF If, o5
<1>d6. DOMAIN o6.cells = DOMAIN o.cells
  BY WriteCells, <1>d5 DEF If, o6
<1>d7. DOMAIN o7.cells = DOMAIN o.cells
  BY WriteCells, <1>d6 DEF If, o7
<1>d8. DOMAIN o8.cells = DOMAIN o.cells
  BY WriteCells, <1>d7 DEF If, o8
<1>d9. DOMAIN o9.cells = DOMAIN o.cells
  BY WriteCells, <1>d8 DEF If, o9
<1>e0. IsObject(o0)
  BY WriteIsObject, Zenon DEF o0
<1>e1. IsObject(o1)
  BY <1>e0, WriteIsObject, Zenon DEF If, o1
<1>e2. IsObject(o2)
  BY <1>e1, WriteIsObject, Zenon DEF If, o2
<1>e3. IsObject(o3)
  BY <1>e2, WriteIsObject, Zenon DEF If, o3
<1>e4. IsObject(o4)
  BY <1>e3, WriteIsObject, Zenon DEF If, o4
<1>e5. IsObject(o5)
  BY <1>e4, WriteIsObject, Zenon DEF If, o5
<1>e6. IsObject(o6)
  BY <1>e5, WriteIsObject, Zenon DEF If, o6
<1>e7. IsObject(o7)
  BY <1>e6, WriteIsObject, Zenon DEF If, o7
<1>e8. IsObject(o8)
  BY <1>e7, WriteIsObject, Zenon DEF If, o8
<1>e9. IsObject(o9)
  BY <1>e8, WriteIsObject, Zenon DEF If, o9
<1>3. SUFFICES ASSUME NEW i \in DOMAIN o.cells
               PROVE  /\ SoundWord(o9.cells[i], at, o.cells[i].is # "junk" \/ Covered(prim.options, a, i))
                      /\ NoReferences(prim.options) => o9.cells[i].is # "reference"
  BY <1>1, <1>d9, <1>e9, Zenon DEF WellWritten
<1>i. i \in Nat /\ o.cells[i].is # "reference"
  BY Zenon
<1> DEFINE Within(first, count) == i >= first /\ i < first + count
<1>c0. o0.cells[i] = IF Within(0, 1) THEN Wrapper ELSE o.cells[i]
  BY WriteCells DEF o0
<1>c1. o1.cells[i] = IF on("copy") /\ Within(1, a.size_in_words - 1) THEN Reference(at) ELSE o0.cells[i]
  BY WriteCells, <1>d0 DEF If, o1
<1>c2. o2.cells[i] = IF on("copyfixed") /\ Within(1, a.rep_size_slot - 1) THEN Reference(at) ELSE o1.cells[i]
  BY WriteCells, <1>d1 DEF If, o2
<1>c3. o3.cells[i] = IF on("s") /\ Within(1, a.no_to_fill) THEN a.fill ELSE o2.cells[i]
  BY WriteCells, <1>d2 DEF If, o3
<1>c4. o4.cells[i] = IF on("s1") /\ Within(1, 1) THEN a.s1 ELSE o3.cells[i]
  BY WriteCells, <1>d3 DEF If, o4
<1>c5. o5.cells[i] = IF on("s2") /\ Within(2, 1) THEN a.s2 ELSE o4.cells[i]
  BY WriteCells, <1>d4 DEF If, o5
<1>c6. o6.cells[i] = IF (on("r") /\ a.rep_size_slot # 0) /\ Within(a.rep_size_slot, 1)
                     THEN SizeSlot(a.rep_size) ELSE o5.cells[i]
  BY WriteCells, <1>d5 DEF If, o6
<1>c7. o7.cells[i] = IF on("null") /\ Within(a.rep_size_slot + 1, a.rep_size) THEN Null ELSE o6.cells[i]
  BY WriteCells, <1>d6 DEF If, o7
<1>c8. o8.cells[i] = IF on("rt") /\ Within(a.rep_size_slot + 1, a.rep_size) THEN Reference(at) ELSE o7.cells[i]
  BY WriteCells, <1>d7 DEF If, o8
<1>c9. o9.cells[i] = IF on("rf") /\ Within(a.rep_size_slot + 1, a.rep_size) THEN a.rep_fill ELSE o8.cells[i]
  BY WriteCells, <1>d8 DEF If, o9
<1>2. /\ Reference(at).is = "reference" /\ Reference(at).n = at
      /\ Plain(Wrapper) /\ Plain(Null) /\ Plain(SizeSlot(a.rep_size))
  BY WordsArePlain DEF Reference
<1>4. o9.cells[i].is = "reference" => o9.cells[i].n = at
  BY <1>i, <1>2, <1>c0, <1>c1, <1>c2, <1>c3, <1>c4, <1>c5, <1>c6, <1>c7, <1>c8, <1>c9 DEF Arguable, Plain
<1>5. NoReferences(prim.options) => o9.cells[i].is # "reference"
  BY <1>i, <1>2, <1>c0, <1>c1, <1>c2, <1>c3, <1>c4, <1>c5, <1>c6, <1>c7, <1>c8, <1>c9
  DEF Arguable, Plain, NoReferences
<1>k1. ASSUME o.cells[i].is # "junk" \/ i = 0 PROVE o0.cells[i].is # "junk"
  BY <1>k1, <1>2, <1>c0 DEF Plain
<1>k2. ASSUME o0.cells[i].is # "junk" PROVE o2.cells[i].is # "junk"
  BY <1>k2, <1>2, <1>c1, <1>c2
<1>k3. ASSUME o2.cells[i].is # "junk" \/ (on("s") /\ i >= 1 /\ i <= a.no_to_fill)
       PROVE  o3.cells[i].is # "junk"
  BY <1>k3, <1>i, <1>c3 DEF Plain, Arguable
<1>k4. ASSUME o3.cells[i].is # "junk" \/ (on("s1") /\ i = 1)
       PROVE  o4.cells[i].is # "junk"
  BY <1>k4, <1>i, <1>c4 DEF Plain, Arguable
<1>k5. ASSUME o4.cells[i].is # "junk" \/ (on("s2") /\ i = 2)
       PROVE  o5.cells[i].is # "junk"
  BY <1>k5, <1>i, <1>c5 DEF Plain, Arguable
<1>k6. ASSUME o5.cells[i].is # "junk" \/ (on("r") /\ i = a.rep_size_slot /\ i # 0)
       PROVE  o6.cells[i].is # "junk"
  BY <1>k6, <1>2, <1>i, <1>c6 DEF Plain, Arguable
<1>k7. ASSUME o6.cells[i].is # "junk" PROVE o8.cells[i].is # "junk"
  BY <1>k7, <1>2, <1>c7, <1>c8 DEF Plain
<1>k8. ASSUME o8.cells[i].is # "junk" \/ (on("rf") /\ i > a.rep_size_slot
                                            /\ i <= a.rep_size_slot + a.rep_size)
       PROVE  o9.cells[i].is # "junk"
  BY <1>k8, <1>i, <1>c9 DEF Plain, Arguable
<1>6. o.cells[i].is # "junk" \/ Covered(prim.options, a, i) => o9.cells[i].is # "junk"
  BY <1>k1, <1>k2, <1>k3, <1>k4, <1>k5, <1>k6, <1>k7, <1>k8 DEF Covered
<1> QED
  BY <1>4, <1>5, <1>6 DEF SoundWord, Junk, Word

(* The same by the name of the primitive.                                   *)
CoveredByName(name, a, i) ==
  \/ i = 0
  \/ name[2] = "s" /\ i >= 1 /\ i <= a.no_to_fill
  \/ name[2] \in {"s1", "s2"} /\ i = 1
  \/ name[2] = "s2" /\ i = 2
  \/ name[3] \in {"r", "rf", "rbf"} /\ i = a.rep_size_slot
  \/ name[3] = "rf" /\ name[1] # "leaf" /\ i > a.rep_size_slot /\ i <= a.rep_size_slot + a.rep_size

LEMMA NamesCover ==
  ASSUME NEW name, NEW options, NEW a, NEW i, NameSays(name, options), CoveredByName(name, a, i)
  PROVE  Covered(options, a, i)
BY Zenon DEF NameSays, CoveredByName, Covered

LEMMA PrimFields ==
  ASSUME NEW name, NEW size, NEW q
  PROVE  LET a == Prim(name, size, q)
         IN  /\ a.prim = name /\ a.size = size /\ a.size_in_words = size \div 8 /\ a.no_to_fill = q.slots
             /\ a.rep_size = q.repeated /\ a.rep_size_slot = q.offset
             /\ Plain(a.fill) /\ Plain(a.s1) /\ Plain(a.s2) /\ Plain(a.rep_fill)
BY WordsArePlain DEF Prim, WordSize

IsName(name) == \E j \in DOMAIN PrimitiveNames : PrimitiveNames[j] = name

LEMMA Names ==
  /\ IsName(<<"main", "", "">>) /\ IsName(<<"main", "s1", "">>) /\ IsName(<<"main", "s2", "">>)
  /\ IsName(<<"main", "", "rf">>) /\ IsName(<<"main", "s", "rf">>) /\ IsName(<<"main", "s", "rbf">>)
  /\ IsName(<<"leaf", "", "r">>) /\ IsName(<<"leaf", "s", "rbf">>) /\ IsName(<<"leaf", "", "rf">>)
  /\ IsName(<<"leaf", "s", "rbfz">>) /\ IsName(<<"leaf", "", "rbfz">>)
  /\ IsName(<<"exact_awl", "s", "r">>) /\ IsName(<<"weak_awl", "s", "r">>) /\ IsName(<<"wrapper", "s", "r">>)
<1>1. DOMAIN PrimitiveNames = 1 .. 31
  BY DEF PrimitiveNames
<1>2. /\ PrimitiveNames[1] = <<"main", "", "">> /\ PrimitiveNames[2] = <<"main", "s1", "">>
      /\ PrimitiveNames[3] = <<"main", "s2", "">> /\ PrimitiveNames[6] = <<"main", "", "rf">>
      /\ PrimitiveNames[8] = <<"main", "s", "rf">> /\ PrimitiveNames[9] = <<"main", "s", "rbf">>
      /\ PrimitiveNames[18] = <<"leaf", "", "r">> /\ PrimitiveNames[19] = <<"leaf", "s", "rbf">>
      /\ PrimitiveNames[20] = <<"leaf", "", "rf">> /\ PrimitiveNames[21] = <<"leaf", "s", "rbfz">>
      /\ PrimitiveNames[22] = <<"leaf", "", "rbfz">> /\ PrimitiveNames[24] = <<"exact_awl", "s", "r">>
      /\ PrimitiveNames[25] = <<"weak_awl", "s", "r">> /\ PrimitiveNames[28] = <<"wrapper", "s", "r">>
  BY Zenon DEF PrimitiveNames
<1>3. /\ 1 \in 1 .. 31 /\ 2 \in 1 .. 31 /\ 3 \in 1 .. 31 /\ 6 \in 1 .. 31 /\ 8 \in 1 .. 31
      /\ 9 \in 1 .. 31 /\ 18 \in 1 .. 31 /\ 19 \in 1 .. 31 /\ 20 \in 1 .. 31 /\ 21 \in 1 .. 31
      /\ 22 \in 1 .. 31 /\ 24 \in 1 .. 31 /\ 25 \in 1 .. 31 /\ 28 \in 1 .. 31
  OBVIOUS
<1> QED
  BY <1>1, <1>2, <1>3, Zenon DEF IsName

LEMMA UnitSizes ==
  /\ UnitSize("object") = 8 /\ UnitSize("byte") = 1 /\ UnitSize("double_byte") = 2
  /\ UnitSize("single_float") = 4 /\ UnitSize("double_float") = 8 /\ UnitSize("word") = 8
  /\ \A type : UnitSize(type) \in {1, 2, 4, 8}
BY Zenon DEF UnitSize, WordSize

(* A primitive and its arguments fit a request: it is one of the collectors, *)
(* and when the collector scans what it allocates, the cells that have to be *)
(* written are.                                                              *)
Extent(q, a) == Header(a) + (a.size - Header(a) * WordSize) \div UnitSize(q.type)
Fit(q, a) ==
  /\ IsName(a.prim) /\ Arguable(a)
  /\ a.size \in Nat /\ Extent(q, a) \in Int
  /\ q.fn \notin {"direct", "closure"} /\ a.prim[1] # "leaf" =>
       \A i \in Nat : i < Extent(q, a) /\ (i < Header(a) \/ q.type = "object") => CoveredByName(a.prim, a, i)

LEMMA Dispatch ==
  ASSUME NEW q
  PROVE  /\ q.fn = "byte_terminated" => PrimitiveCall(q) = ByteAllocateFilledTerminated(q)
         /\ q.fn = "byte" => PrimitiveCall(q) = ByteFilled("main", q)
         /\ q.fn = "byte_leaf" => PrimitiveCall(q) = ByteFilled("leaf", q)
         /\ q.fn = "object" => PrimitiveCall(q) = RepeatedAllocator("main", q)
         /\ q.fn = "raw" => PrimitiveCall(q) = RepeatedAllocator("leaf", q)
         /\ q.fn = "word" => PrimitiveCall(q) = WordAllocateFilled(q)
         /\ q.fn \in {"filled", "c_pointer"} => PrimitiveCall(q) = AllocateFilled(q)
         /\ q.fn = "awl" => PrimitiveCall(q) = InAwlPool("exact_awl", 1, q)
         /\ q.fn = "weak_awl" => PrimitiveCall(q) = InAwlPool("weak_awl", 0, q)
         /\ q.fn = "wrapper" => PrimitiveCall(q) = AllocateWrapper(q)
         /\ q.fn = "vector" => PrimitiveCall(q) = MakeDylanVector(q)
         /\ q.fn = "string" => PrimitiveCall(q) = RawAsString(q)
         /\ q.fn = "closure" => PrimitiveCall(q) = Allocate(q)
         /\ q.fn = "direct" => PrimitiveCall(q) = Direct(q)
BY Zenon DEF PrimitiveCall, ByteAllocateLeafFilledTerminated, ByteAllocateFilled, ByteAllocateLeafFilled,
     ObjectAllocateFilled, RawAllocateFilled, AllocateInAwlPool, AllocateWeakInAwlPool, WrapCPointer

(* Each kind of request fits.                                               *)
LEMMA InstancesFit ==
  ASSUME NEW n \in Nat
  PROVE  Fit(Simple("object", n), PrimitiveCall(Simple("object", n)))
<1> DEFINE q == Simple("object", n)
           a == PrimitiveCall(q)
<1>1. q.fn = "object" /\ q.type = "object" /\ q.words = 1 + n /\ q.bytes = 0 /\ q.slots = n
      /\ q.repeated = 0 /\ q.offset = 0
  BY DEF Simple, Ask
<1> HIDE DEF q
<1>2. a = RepeatedAllocator("main", q)
  BY <1>1, Dispatch, Zenon
<1> HIDE DEF a
<1>3. CASE n = 0
  <2>1. a = Prim(<<"main", "", "rf">>, q.words * WordSize + q.repeated * UnitSize(q.type), q)
    <3>1. q.slots = 0
      BY <1>3, <1>1
    <3> QED
      BY <3>1, <1>2, Zenon DEF RepeatedAllocator
  <2>2. IsName(a.prim) /\ a.prim[1] = "main" /\ a.prim[3] = "rf"
    <3> DEFINE nm == <<"main", "", "rf">>
    <3>1. a = Prim(nm, q.words * WordSize + q.repeated * UnitSize(q.type), q)
      BY <2>1, Zenon
    <3>2. IsName(nm)
      BY Names, Zenon
    <3>3. nm[1] = "main" /\ nm[3] = "rf"
      BY Zenon
    <3> HIDE DEF nm
    <3>4. a.prim = nm
      BY <3>1 DEF Prim
    <3> QED
      BY <3>2, <3>3, <3>4
  <2>3. /\ a.size = 8 /\ a.size_in_words = a.size \div 8
        /\ a.no_to_fill = n /\ a.rep_size = 0 /\ a.rep_size_slot = 0
        /\ Plain(a.fill) /\ Plain(a.s1) /\ Plain(a.s2) /\ Plain(a.rep_fill)
    <3> DEFINE nm == <<"main", "", "rf">>
    <3>1. a = Prim(nm, q.words * WordSize + q.repeated * UnitSize(q.type), q)
      BY <2>1, Zenon
    <3> HIDE DEF nm
    <3> QED
      BY <1>3, <3>1, <1>1, UnitSizes, WordsArePlain DEF Prim, WordSize, round_up_to_word
  <2>4. Header(a) = 1 + n /\ Extent(q, a) = 1 + n
    BY <1>3, <2>3, <1>1, UnitSizes DEF Header, Extent, WordSize
  <2>5. Arguable(a) /\ a.size \in Nat
    BY <1>3, <2>3 DEF Arguable
  <2>6. ASSUME NEW i \in Nat, i < Extent(q, a), i < Header(a) \/ q.type = "object"
       PROVE  CoveredByName(a.prim, a, i)
    BY <1>3, <2>2, <2>3, <2>4, <2>6, <1>1 DEF CoveredByName
  <2> QED
    BY <2>2, <2>4, <2>5, <2>6 DEF Fit, q, a
<1>4. CASE n # 0
  <2>1. a = Prim(<<"main", "s", "rf">>, q.words * WordSize + q.repeated * UnitSize(q.type), q)
    <3>1. q.slots # 0
      BY <1>4, <1>1
    <3> QED
      BY <3>1, <1>2, Zenon DEF RepeatedAllocator
  <2>2. IsName(a.prim) /\ a.prim[1] = "main" /\ a.prim[2] = "s" /\ a.prim[3] = "rf"
    <3> DEFINE nm == <<"main", "s", "rf">>
    <3>1. a = Prim(nm, q.words * WordSize + q.repeated * UnitSize(q.type), q)
      BY <2>1, Zenon
    <3>2. IsName(nm)
      BY Names, Zenon
    <3>3. nm[1] = "main" /\ nm[2] = "s" /\ nm[3] = "rf"
      BY Zenon
    <3> HIDE DEF nm
    <3>4. a.prim = nm
      BY <3>1 DEF Prim
    <3> QED
      BY <3>2, <3>3, <3>4
  <2>3. /\ a.size = 8 * (1 + n) /\ a.size_in_words = a.size \div 8
        /\ a.no_to_fill = n /\ a.rep_size = 0 /\ a.rep_size_slot = 0
        /\ Plain(a.fill) /\ Plain(a.s1) /\ Plain(a.s2) /\ Plain(a.rep_fill)
    <3> DEFINE nm == <<"main", "s", "rf">>
    <3>1. a = Prim(nm, q.words * WordSize + q.repeated * UnitSize(q.type), q)
      BY <2>1, Zenon
    <3> HIDE DEF nm
    <3> QED
      BY <1>4, <3>1, <1>1, UnitSizes, WordsArePlain DEF Prim, WordSize, round_up_to_word
  <2>4. Header(a) = 1 + n /\ Extent(q, a) = 1 + n
    BY <1>4, <2>3, <1>1, UnitSizes DEF Header, Extent, WordSize
  <2>5. Arguable(a) /\ a.size \in Nat
    BY <1>4, <2>3 DEF Arguable
  <2>6. ASSUME NEW i \in Nat, i < Extent(q, a), i < Header(a) \/ q.type = "object"
       PROVE  CoveredByName(a.prim, a, i)
    BY <1>4, <2>2, <2>3, <2>4, <2>6, <1>1 DEF CoveredByName
  <2> QED
    BY <2>2, <2>4, <2>5, <2>6 DEF Fit, q, a
<1> QED
  BY <1>1, <1>3, <1>4 DEF q, a

LEMMA ObjectsFit ==
  ASSUME NEW n \in Nat, NEW r \in Nat
  PROVE  Fit(Repeated("object", "object", n, r), PrimitiveCall(Repeated("object", "object", n, r)))
<1> DEFINE q == Repeated("object", "object", n, r)
           a == PrimitiveCall(q)
<1>1. q.fn = "object" /\ q.type = "object" /\ q.words = 2 + n /\ q.bytes = 0 /\ q.slots = n
      /\ q.repeated = r /\ q.offset = n + 1
  BY DEF Repeated, Ask
<1> HIDE DEF q
<1>2. a = RepeatedAllocator("main", q)
  BY <1>1, Dispatch, Zenon
<1> HIDE DEF a
<1>3. CASE n = 0
  <2>1. a = Prim(<<"main", "", "rf">>, q.words * WordSize + q.repeated * UnitSize(q.type), q)
    <3>1. q.slots = 0
      BY <1>3, <1>1
    <3> QED
      BY <3>1, <1>2, Zenon DEF RepeatedAllocator
  <2>2. IsName(a.prim) /\ a.prim[1] = "main" /\ a.prim[3] = "rf"
    <3> DEFINE nm == <<"main", "", "rf">>
    <3>1. a = Prim(nm, q.words * WordSize + q.repeated * UnitSize(q.type), q)
      BY <2>1, Zenon
    <3>2. IsName(nm)
      BY Names, Zenon
    <3>3. nm[1] = "main" /\ nm[3] = "rf"
      BY Zenon
    <3> HIDE DEF nm
    <3>4. a.prim = nm
      BY <3>1 DEF Prim
    <3> QED
      BY <3>2, <3>3, <3>4
  <2>3. /\ a.size = 8 * (2 + r) /\ a.size_in_words = a.size \div 8
        /\ a.no_to_fill = n /\ a.rep_size = r /\ a.rep_size_slot = n + 1
        /\ Plain(a.fill) /\ Plain(a.s1) /\ Plain(a.s2) /\ Plain(a.rep_fill)
    <3> DEFINE nm == <<"main", "", "rf">>
    <3>1. a = Prim(nm, q.words * WordSize + q.repeated * UnitSize(q.type), q)
      BY <2>1, Zenon
    <3> HIDE DEF nm
    <3> QED
      BY <1>3, <3>1, <1>1, UnitSizes, WordsArePlain DEF Prim, WordSize, round_up_to_word
  <2>4. Header(a) = n + 2 /\ Extent(q, a) = n + 2 + r
    BY <1>3, <2>3, <1>1, UnitSizes DEF Header, Extent, WordSize
  <2>5. Arguable(a) /\ a.size \in Nat
    BY <1>3, <2>3 DEF Arguable
  <2>6. ASSUME NEW i \in Nat, i < Extent(q, a), i < Header(a) \/ q.type = "object"
       PROVE  CoveredByName(a.prim, a, i)
    BY <1>3, <2>2, <2>3, <2>4, <2>6, <1>1 DEF CoveredByName
  <2> QED
    BY <2>2, <2>4, <2>5, <2>6 DEF Fit, q, a
<1>4. CASE n # 0
  <2>1. a = Prim(<<"main", "s", "rf">>, q.words * WordSize + q.repeated * UnitSize(q.type), q)
    <3>1. q.slots # 0
      BY <1>4, <1>1
    <3> QED
      BY <3>1, <1>2, Zenon DEF RepeatedAllocator
  <2>2. IsName(a.prim) /\ a.prim[1] = "main" /\ a.prim[2] = "s" /\ a.prim[3] = "rf"
    <3> DEFINE nm == <<"main", "s", "rf">>
    <3>1. a = Prim(nm, q.words * WordSize + q.repeated * UnitSize(q.type), q)
      BY <2>1, Zenon
    <3>2. IsName(nm)
      BY Names, Zenon
    <3>3. nm[1] = "main" /\ nm[2] = "s" /\ nm[3] = "rf"
      BY Zenon
    <3> HIDE DEF nm
    <3>4. a.prim = nm
      BY <3>1 DEF Prim
    <3> QED
      BY <3>2, <3>3, <3>4
  <2>3. /\ a.size = 8 * (2 + n + r) /\ a.size_in_words = a.size \div 8
        /\ a.no_to_fill = n /\ a.rep_size = r /\ a.rep_size_slot = n + 1
        /\ Plain(a.fill) /\ Plain(a.s1) /\ Plain(a.s2) /\ Plain(a.rep_fill)
    <3> DEFINE nm == <<"main", "s", "rf">>
    <3>1. a = Prim(nm, q.words * WordSize + q.repeated * UnitSize(q.type), q)
      BY <2>1, Zenon
    <3> HIDE DEF nm
    <3> QED
      BY <1>4, <3>1, <1>1, UnitSizes, WordsArePlain DEF Prim, WordSize, round_up_to_word
  <2>4. Header(a) = n + 2 /\ Extent(q, a) = n + 2 + r
    BY <1>4, <2>3, <1>1, UnitSizes DEF Header, Extent, WordSize
  <2>5. Arguable(a) /\ a.size \in Nat
    BY <1>4, <2>3 DEF Arguable
  <2>6. ASSUME NEW i \in Nat, i < Extent(q, a), i < Header(a) \/ q.type = "object"
       PROVE  CoveredByName(a.prim, a, i)
    BY <1>4, <2>2, <2>3, <2>4, <2>6, <1>1 DEF CoveredByName
  <2> QED
    BY <2>2, <2>4, <2>5, <2>6 DEF Fit, q, a
<1> QED
  BY <1>1, <1>3, <1>4 DEF q, a

LEMMA VectorsFit ==
  ASSUME NEW r \in Nat
  PROVE  Fit(Repeated("vector", "object", 0, r), PrimitiveCall(Repeated("vector", "object", 0, r)))
<1> DEFINE q == Repeated("vector", "object", 0, r)
           a == PrimitiveCall(q)
<1>1. q.fn = "vector" /\ q.type = "object" /\ q.words = 2 /\ q.bytes = 0 /\ q.slots = 0
      /\ q.repeated = r /\ q.offset = 1
  BY DEF Repeated, Ask
<1> HIDE DEF q
<1>2. a = MakeDylanVector(q)
  BY <1>1, Dispatch, Zenon
<1> HIDE DEF a
<1>3. a = Prim(<<"main", "", "rf">>, (q.repeated + 2) * WordSize, q)
  BY <1>2, Zenon DEF MakeDylanVector
<1>4. IsName(a.prim) /\ a.prim[1] = "main" /\ a.prim[3] = "rf"
  <2> DEFINE nm == <<"main", "", "rf">>
  <2>1. a = Prim(nm, (q.repeated + 2) * WordSize, q)
    BY <1>3, Zenon
  <2>2. IsName(nm)
    BY Names, Zenon
  <2>3. nm[1] = "main" /\ nm[3] = "rf"
    BY Zenon
  <2> HIDE DEF nm
  <2>4. a.prim = nm
    BY <2>1 DEF Prim
  <2> QED
    BY <2>2, <2>3, <2>4
<1>5. /\ a.size = 8 * (2 + r) /\ a.size_in_words = a.size \div 8
      /\ a.no_to_fill = 0 /\ a.rep_size = r /\ a.rep_size_slot = 1
      /\ Plain(a.fill) /\ Plain(a.s1) /\ Plain(a.s2) /\ Plain(a.rep_fill)
  <2> DEFINE nm == <<"main", "", "rf">>
  <2>1. a = Prim(nm, (q.repeated + 2) * WordSize, q)
    BY <1>3, Zenon
  <2> HIDE DEF nm
  <2> QED
    BY <2>1, <1>1, UnitSizes, WordsArePlain DEF Prim, WordSize, round_up_to_word
<1>6. Header(a) = 2 /\ Extent(q, a) = 2 + r
  BY <1>5, <1>1, UnitSizes DEF Header, Extent, WordSize
<1>7. Arguable(a) /\ a.size \in Nat
  BY <1>5 DEF Arguable
<1>8. ASSUME NEW i \in Nat, i < Extent(q, a), i < Header(a) \/ q.type = "object"
     PROVE  CoveredByName(a.prim, a, i)
  BY <1>4, <1>5, <1>6, <1>8, <1>1 DEF CoveredByName
<1> QED
  BY <1>4, <1>6, <1>7, <1>8 DEF Fit, q, a

LEMMA RawFit ==
  ASSUME NEW n \in Nat, NEW r \in Nat, NEW type \in {"double_byte", "single_float", "double_float"}
  PROVE  Fit(Repeated("raw", type, n, r), PrimitiveCall(Repeated("raw", type, n, r)))
<1> DEFINE q == Repeated("raw", type, n, r)
           a == PrimitiveCall(q)
<1>1. q.fn = "raw" /\ q.type = type /\ q.words = 2 + n /\ q.bytes = 0 /\ q.slots = n
      /\ q.repeated = r /\ q.offset = n + 1
  BY DEF Repeated, Ask
<1> HIDE DEF q
<1>2. a = RepeatedAllocator("leaf", q)
  BY <1>1, Dispatch, Zenon
<1> HIDE DEF a
<1>u. r * UnitSize(type) \in Nat /\ UnitSize(type) \in {2, 4, 8}
  BY UnitSizes
<1>3. CASE n = 0
  <2>1. a = Prim(<<"leaf", "", "rf">>, q.words * WordSize + q.repeated * UnitSize(q.type), q)
    <3>1. q.slots = 0
      BY <1>3, <1>1
    <3> QED
      BY <3>1, <1>2, Zenon DEF RepeatedAllocator
  <2>2. IsName(a.prim) /\ a.prim[1] = "leaf" /\ a.prim[3] = "rf"
    <3> DEFINE nm == <<"leaf", "", "rf">>
    <3>1. a = Prim(nm, q.words * WordSize + q.repeated * UnitSize(q.type), q)
      BY <2>1, Zenon
    <3>2. IsName(nm)
      BY Names, Zenon
    <3>3. nm[1] = "leaf" /\ nm[3] = "rf"
      BY Zenon
    <3> HIDE DEF nm
    <3>4. a.prim = nm
      BY <3>1 DEF Prim
    <3> QED
      BY <3>2, <3>3, <3>4
  <2>3. /\ a.size = 8 * (2 + n) + r * UnitSize(type) /\ a.size_in_words = a.size \div 8
        /\ a.no_to_fill = n /\ a.rep_size = r /\ a.rep_size_slot = n + 1
        /\ Plain(a.fill) /\ Plain(a.s1) /\ Plain(a.s2) /\ Plain(a.rep_fill)
    <3> DEFINE nm == <<"leaf", "", "rf">>
    <3>1. a = Prim(nm, q.words * WordSize + q.repeated * UnitSize(q.type), q)
      BY <2>1, Zenon
    <3> HIDE DEF nm
    <3> QED
      BY <1>3, <3>1, <1>1, UnitSizes, WordsArePlain DEF Prim, WordSize, round_up_to_word
  <2>4. Header(a) = n + 2 /\ Extent(q, a) \in Int
    BY <1>3, <2>3, <1>u, <1>1, UnitSizes DEF Header, Extent, WordSize
  <2>5. Arguable(a) /\ a.size \in Nat
    BY <1>3, <2>3, <1>u DEF Arguable
  <2> QED
    BY <2>2, <2>4, <2>5 DEF Fit, q, a
<1>4. CASE n # 0
  <2>1. a = Prim(<<"main", "s", "rf">>, q.words * WordSize + q.repeated * UnitSize(q.type), q)
    <3>1. q.slots # 0
      BY <1>4, <1>1
    <3> QED
      BY <3>1, <1>2, Zenon DEF RepeatedAllocator
  <2>2. IsName(a.prim) /\ a.prim[1] = "main" /\ a.prim[2] = "s" /\ a.prim[3] = "rf"
    <3> DEFINE nm == <<"main", "s", "rf">>
    <3>1. a = Prim(nm, q.words * WordSize + q.repeated * UnitSize(q.type), q)
      BY <2>1, Zenon
    <3>2. IsName(nm)
      BY Names, Zenon
    <3>3. nm[1] = "main" /\ nm[2] = "s" /\ nm[3] = "rf"
      BY Zenon
    <3> HIDE DEF nm
    <3>4. a.prim = nm
      BY <3>1 DEF Prim
    <3> QED
      BY <3>2, <3>3, <3>4
  <2>3. /\ a.size = 8 * (2 + n) + r * UnitSize(type) /\ a.size_in_words = a.size \div 8
        /\ a.no_to_fill = n /\ a.rep_size = r /\ a.rep_size_slot = n + 1
        /\ Plain(a.fill) /\ Plain(a.s1) /\ Plain(a.s2) /\ Plain(a.rep_fill)
    <3> DEFINE nm == <<"main", "s", "rf">>
    <3>1. a = Prim(nm, q.words * WordSize + q.repeated * UnitSize(q.type), q)
      BY <2>1, Zenon
    <3> HIDE DEF nm
    <3> QED
      BY <1>4, <3>1, <1>1, UnitSizes, WordsArePlain DEF Prim, WordSize, round_up_to_word
  <2>4. Header(a) = n + 2 /\ Extent(q, a) \in Int
    BY <1>4, <2>3, <1>u, <1>1, UnitSizes DEF Header, Extent, WordSize
  <2>5. Arguable(a) /\ a.size \in Nat
    BY <1>4, <2>3, <1>u DEF Arguable
  <2>6. ASSUME NEW i \in Nat, i < Extent(q, a), i < Header(a) \/ q.type = "object"
       PROVE  CoveredByName(a.prim, a, i)
    BY <1>4, <2>2, <2>3, <2>4, <2>6, <1>1 DEF CoveredByName
  <2> QED
    BY <2>2, <2>4, <2>5, <2>6 DEF Fit, q, a
<1> QED
  BY <1>1, <1>3, <1>4 DEF q, a

LEMMA WordsFit ==
  ASSUME NEW n \in Nat, NEW r \in Nat
  PROVE  Fit(Repeated("word", "word", n, r), PrimitiveCall(Repeated("word", "word", n, r)))
<1> DEFINE q == Repeated("word", "word", n, r)
           a == PrimitiveCall(q)
<1>1. q.fn = "word" /\ q.type = "word" /\ q.words = 2 + n /\ q.bytes = 0 /\ q.slots = n
      /\ q.repeated = r /\ q.offset = n + 1
  BY DEF Repeated, Ask
<1> HIDE DEF q
<1>2. a = WordAllocateFilled(q)
  BY <1>1, Dispatch, Zenon
<1> HIDE DEF a
<1>3. CASE n = 0
  <2>1. a = [Prim(<<"leaf", "", "rf">>, q.words * WordSize + q.repeated * UnitSize(q.type), q)
                EXCEPT !.rep_fill = LocalAddress]
    <3>1. q.slots = 0
      BY <1>3, <1>1
    <3> QED
      BY <3>1, <1>2, Zenon DEF WordAllocateFilled, RepeatedAllocator
  <2>2. IsName(a.prim) /\ a.prim[1] = "leaf" /\ a.prim[3] = "rf"
    <3> DEFINE nm == <<"leaf", "", "rf">>
    <3>1. a = [Prim(nm, q.words * WordSize + q.repeated * UnitSize(q.type), q) EXCEPT !.rep_fill = LocalAddress]
      BY <2>1, Zenon
    <3>2. IsName(nm)
      BY Names, Zenon
    <3>3. nm[1] = "leaf" /\ nm[3] = "rf"
      BY Zenon
    <3> HIDE DEF nm
    <3>4. a.prim = nm
      BY <3>1 DEF Prim
    <3> QED
      BY <3>2, <3>3, <3>4
  <2>3. /\ a.size = 8 * (2 + n + r) /\ a.size_in_words = a.size \div 8
        /\ a.no_to_fill = n /\ a.rep_size = r /\ a.rep_size_slot = n + 1
        /\ Plain(a.fill) /\ Plain(a.s1) /\ Plain(a.s2) /\ Plain(a.rep_fill)
    <3> DEFINE nm == <<"leaf", "", "rf">>
    <3>1. a = [Prim(nm, q.words * WordSize + q.repeated * UnitSize(q.type), q) EXCEPT !.rep_fill = LocalAddress]
      BY <2>1, Zenon
    <3> HIDE DEF nm
    <3> QED
      BY <1>3, <3>1, <1>1, UnitSizes, WordsArePlain DEF Prim, WordSize, round_up_to_word
  <2>4. Header(a) = n + 2 /\ Extent(q, a) \in Int
    BY <1>3, <2>3, <1>1, UnitSizes DEF Header, Extent, WordSize
  <2>5. Arguable(a) /\ a.size \in Nat
    BY <1>3, <2>3 DEF Arguable
  <2> QED
    BY <2>2, <2>4, <2>5 DEF Fit, q, a
<1>4. CASE n # 0
  <2>1. a = [Prim(<<"main", "s", "rf">>, q.words * WordSize + q.repeated * UnitSize(q.type), q)
                EXCEPT !.rep_fill = LocalAddress]
    <3>1. q.slots # 0
      BY <1>4, <1>1
    <3> QED
      BY <3>1, <1>2, Zenon DEF WordAllocateFilled, RepeatedAllocator
  <2>2. IsName(a.prim) /\ a.prim[1] = "main" /\ a.prim[2] = "s" /\ a.prim[3] = "rf"
    <3> DEFINE nm == <<"main", "s", "rf">>
    <3>1. a = [Prim(nm, q.words * WordSize + q.repeated * UnitSize(q.type), q) EXCEPT !.rep_fill = LocalAddress]
      BY <2>1, Zenon
    <3>2. IsName(nm)
      BY Names, Zenon
    <3>3. nm[1] = "main" /\ nm[2] = "s" /\ nm[3] = "rf"
      BY Zenon
    <3> HIDE DEF nm
    <3>4. a.prim = nm
      BY <3>1 DEF Prim
    <3> QED
      BY <3>2, <3>3, <3>4
  <2>3. /\ a.size = 8 * (2 + n + r) /\ a.size_in_words = a.size \div 8
        /\ a.no_to_fill = n /\ a.rep_size = r /\ a.rep_size_slot = n + 1
        /\ Plain(a.fill) /\ Plain(a.s1) /\ Plain(a.s2) /\ Plain(a.rep_fill)
    <3> DEFINE nm == <<"main", "s", "rf">>
    <3>1. a = [Prim(nm, q.words * WordSize + q.repeated * UnitSize(q.type), q) EXCEPT !.rep_fill = LocalAddress]
      BY <2>1, Zenon
    <3> HIDE DEF nm
    <3> QED
      BY <1>4, <3>1, <1>1, UnitSizes, WordsArePlain DEF Prim, WordSize, round_up_to_word
  <2>4. Header(a) = n + 2 /\ Extent(q, a) \in Int
    BY <1>4, <2>3, <1>1, UnitSizes DEF Header, Extent, WordSize
  <2>5. Arguable(a) /\ a.size \in Nat
    BY <1>4, <2>3 DEF Arguable
  <2>6. ASSUME NEW i \in Nat, i < Extent(q, a), i < Header(a) \/ q.type = "object"
       PROVE  CoveredByName(a.prim, a, i)
    BY <1>4, <2>2, <2>3, <2>4, <2>6, <1>1 DEF CoveredByName
  <2> QED
    BY <2>2, <2>4, <2>5, <2>6 DEF Fit, q, a
<1> QED
  BY <1>1, <1>3, <1>4 DEF q, a

LEMMA BytesFit ==
  ASSUME NEW n \in Nat, NEW r \in Nat
  PROVE  Fit(Repeated("byte", "byte", n, r), PrimitiveCall(Repeated("byte", "byte", n, r)))
<1> DEFINE q == Repeated("byte", "byte", n, r)
           a == PrimitiveCall(q)
<1>1. q.fn = "byte" /\ q.type = "byte" /\ q.words = 2 + n /\ q.bytes = 0 /\ q.slots = n
      /\ q.repeated = r /\ q.offset = n + 1
  BY DEF Repeated, Ask
<1> HIDE DEF q
<1>2. a = ByteFilled("main", q)
  BY <1>1, Dispatch, Zenon
<1> HIDE DEF a
<1>3. a = Prim(<<"main", "s", "rbf">>, round_up_to_word(q.words * WordSize + q.repeated), q)
  <2>1. q.offset # 0
    BY <1>1
  <2> QED
    BY <2>1, <1>2, Zenon DEF ByteFilled
<1>4. IsName(a.prim) /\ a.prim[1] = "main" /\ a.prim[2] = "s" /\ a.prim[3] = "rbf"
  <2> DEFINE nm == <<"main", "s", "rbf">>
  <2>1. a = Prim(nm, round_up_to_word(q.words * WordSize + q.repeated), q)
    BY <1>3, Zenon
  <2>2. IsName(nm)
    BY Names, Zenon
  <2>3. nm[1] = "main" /\ nm[2] = "s" /\ nm[3] = "rbf"
    BY Zenon
  <2> HIDE DEF nm
  <2>4. a.prim = nm
    BY <2>1 DEF Prim
  <2> QED
    BY <2>2, <2>3, <2>4
<1>5. /\ a.size = (((2 + n) * 8 + r + 7) \div 8) * 8 /\ a.size_in_words = a.size \div 8
      /\ a.no_to_fill = n /\ a.rep_size = r /\ a.rep_size_slot = n + 1
      /\ Plain(a.fill) /\ Plain(a.s1) /\ Plain(a.s2) /\ Plain(a.rep_fill)
  <2> DEFINE nm == <<"main", "s", "rbf">>
  <2>1. a = Prim(nm, round_up_to_word(q.words * WordSize + q.repeated), q)
    BY <1>3, Zenon
  <2> HIDE DEF nm
  <2> QED
    BY <2>1, <1>1, UnitSizes, WordsArePlain DEF Prim, WordSize, round_up_to_word
<1>6. Header(a) = n + 2 /\ Extent(q, a) \in Int
  BY <1>5, <1>1, UnitSizes DEF Header, Extent, WordSize
<1>7. Arguable(a) /\ a.size \in Nat
  BY <1>5 DEF Arguable
<1>8. ASSUME NEW i \in Nat, i < Extent(q, a), i < Header(a) \/ q.type = "object"
     PROVE  CoveredByName(a.prim, a, i)
  BY <1>4, <1>5, <1>6, <1>8, <1>1 DEF CoveredByName
<1> QED
  BY <1>4, <1>6, <1>7, <1>8 DEF Fit, q, a

LEMMA LeafBytesFit ==
  ASSUME NEW n \in Nat, NEW r \in Nat
  PROVE  Fit(Repeated("byte_leaf", "byte", n, r), PrimitiveCall(Repeated("byte_leaf", "byte", n, r)))
<1> DEFINE q == Repeated("byte_leaf", "byte", n, r)
           a == PrimitiveCall(q)
<1>1. q.fn = "byte_leaf" /\ q.type = "byte" /\ q.words = 2 + n /\ q.bytes = 0 /\ q.slots = n
      /\ q.repeated = r /\ q.offset = n + 1
  BY DEF Repeated, Ask
<1> HIDE DEF q
<1>2. a = ByteFilled("leaf", q)
  BY <1>1, Dispatch, Zenon
<1> HIDE DEF a
<1>3. a = Prim(<<"leaf", "s", "rbf">>, round_up_to_word(q.words * WordSize + q.repeated), q)
  <2>1. q.offset # 0
    BY <1>1
  <2> QED
    BY <2>1, <1>2, Zenon DEF ByteFilled
<1>4. IsName(a.prim) /\ a.prim[1] = "leaf" /\ a.prim[2] = "s" /\ a.prim[3] = "rbf"
  <2> DEFINE nm == <<"leaf", "s", "rbf">>
  <2>1. a = Prim(nm, round_up_to_word(q.words * WordSize + q.repeated), q)
    BY <1>3, Zenon
  <2>2. IsName(nm)
    BY Names, Zenon
  <2>3. nm[1] = "leaf" /\ nm[2] = "s" /\ nm[3] = "rbf"
    BY Zenon
  <2> HIDE DEF nm
  <2>4. a.prim = nm
    BY <2>1 DEF Prim
  <2> QED
    BY <2>2, <2>3, <2>4
<1>5. /\ a.size = (((2 + n) * 8 + r + 7) \div 8) * 8 /\ a.size_in_words = a.size \div 8
      /\ a.no_to_fill = n /\ a.rep_size = r /\ a.rep_size_slot = n + 1
      /\ Plain(a.fill) /\ Plain(a.s1) /\ Plain(a.s2) /\ Plain(a.rep_fill)
  <2> DEFINE nm == <<"leaf", "s", "rbf">>
  <2>1. a = Prim(nm, round_up_to_word(q.words * WordSize + q.repeated), q)
    BY <1>3, Zenon
  <2> HIDE DEF nm
  <2> QED
    BY <2>1, <1>1, UnitSizes, WordsArePlain DEF Prim, WordSize, round_up_to_word
<1>6. Header(a) = n + 2 /\ Extent(q, a) \in Int
  BY <1>5, <1>1, UnitSizes DEF Header, Extent, WordSize
<1>7. Arguable(a) /\ a.size \in Nat
  BY <1>5 DEF Arguable
<1> QED
  BY <1>4, <1>6, <1>7 DEF Fit, q, a

LEMMA TerminatedFit ==
  ASSUME NEW n \in Nat, NEW r \in Nat
  PROVE  Fit(Repeated("byte_terminated", "byte", n, r), PrimitiveCall(Repeated("byte_terminated", "byte", n, r)))
<1> DEFINE q == Repeated("byte_terminated", "byte", n, r)
           a == PrimitiveCall(q)
<1>1. q.fn = "byte_terminated" /\ q.type = "byte" /\ q.words = 2 + n /\ q.bytes = r + 1 /\ q.slots = n
      /\ q.repeated = r /\ q.offset = n + 1
  BY DEF Repeated, Ask
<1> HIDE DEF q
<1>2. a = ByteAllocateFilledTerminated(q)
  BY <1>1, Dispatch, Zenon
<1> HIDE DEF a
<1>3. CASE n = 0
  <2>1. a = Prim(<<"leaf", "", "rbfz">>, round_up_to_word(q.words * WordSize + q.bytes), q)
    <3>1. q.slots = 0
      BY <1>3, <1>1
    <3> QED
      BY <3>1, <1>2, Zenon DEF ByteAllocateFilledTerminated
  <2>2. IsName(a.prim) /\ a.prim[1] = "leaf" /\ a.prim[3] = "rbfz"
    <3> DEFINE nm == <<"leaf", "", "rbfz">>
    <3>1. a = Prim(nm, round_up_to_word(q.words * WordSize + q.bytes), q)
      BY <2>1, Zenon
    <3>2. IsName(nm)
      BY Names, Zenon
    <3>3. nm[1] = "leaf" /\ nm[3] = "rbfz"
      BY Zenon
    <3> HIDE DEF nm
    <3>4. a.prim = nm
      BY <3>1 DEF Prim
    <3> QED
      BY <3>2, <3>3, <3>4
  <2>3. /\ a.size = (((2 + n) * 8 + r + 1 + 7) \div 8) * 8 /\ a.size_in_words = a.size \div 8
        /\ a.no_to_fill = n /\ a.rep_size = r /\ a.rep_size_slot = n + 1
        /\ Plain(a.fill) /\ Plain(a.s1) /\ Plain(a.s2) /\ Plain(a.rep_fill)
    <3> DEFINE nm == <<"leaf", "", "rbfz">>
    <3>1. a = Prim(nm, round_up_to_word(q.words * WordSize + q.bytes), q)
      BY <2>1, Zenon
    <3> HIDE DEF nm
    <3> QED
      BY <1>3, <3>1, <1>1, UnitSizes, WordsArePlain DEF Prim, WordSize, round_up_to_word
  <2>4. Header(a) = n + 2 /\ Extent(q, a) \in Int
    BY <1>3, <2>3, <1>1, UnitSizes DEF Header, Extent, WordSize
  <2>5. Arguable(a) /\ a.size \in Nat
    BY <1>3, <2>3 DEF Arguable
  <2> QED
    BY <2>2, <2>4, <2>5 DEF Fit, q, a
<1>4. CASE n # 0
  <2>1. a = Prim(<<"leaf", "s", "rbfz">>, round_up_to_word(q.words * WordSize + q.bytes), q)
    <3>1. q.slots # 0
      BY <1>4, <1>1
    <3> QED
      BY <3>1, <1>2, Zenon DEF ByteAllocateFilledTerminated
  <2>2. IsName(a.prim) /\ a.prim[1] = "leaf" /\ a.prim[2] = "s" /\ a.prim[3] = "rbfz"
    <3> DEFINE nm == <<"leaf", "s", "rbfz">>
    <3>1. a = Prim(nm, round_up_to_word(q.words * WordSize + q.bytes), q)
      BY <2>1, Zenon
    <3>2. IsName(nm)
      BY Names, Zenon
    <3>3. nm[1] = "leaf" /\ nm[2] = "s" /\ nm[3] = "rbfz"
      BY Zenon
    <3> HIDE DEF nm
    <3>4. a.prim = nm
      BY <3>1 DEF Prim
    <3> QED
      BY <3>2, <3>3, <3>4
  <2>3. /\ a.size = (((2 + n) * 8 + r + 1 + 7) \div 8) * 8 /\ a.size_in_words = a.size \div 8
        /\ a.no_to_fill = n /\ a.rep_size = r /\ a.rep_size_slot = n + 1
        /\ Plain(a.fill) /\ Plain(a.s1) /\ Plain(a.s2) /\ Plain(a.rep_fill)
    <3> DEFINE nm == <<"leaf", "s", "rbfz">>
    <3>1. a = Prim(nm, round_up_to_word(q.words * WordSize + q.bytes), q)
      BY <2>1, Zenon
    <3> HIDE DEF nm
    <3> QED
      BY <1>4, <3>1, <1>1, UnitSizes, WordsArePlain DEF Prim, WordSize, round_up_to_word
  <2>4. Header(a) = n + 2 /\ Extent(q, a) \in Int
    BY <1>4, <2>3, <1>1, UnitSizes DEF Header, Extent, WordSize
  <2>5. Arguable(a) /\ a.size \in Nat
    BY <1>4, <2>3 DEF Arguable
  <2> QED
    BY <2>2, <2>4, <2>5 DEF Fit, q, a
<1> QED
  BY <1>1, <1>3, <1>4 DEF q, a

LEMMA StringsFit ==
  ASSUME NEW r \in Nat
  PROVE  Fit(Repeated("string", "byte", 0, r), PrimitiveCall(Repeated("string", "byte", 0, r)))
<1> DEFINE q == Repeated("string", "byte", 0, r)
           a == PrimitiveCall(q)
<1>1. q.fn = "string" /\ q.type = "byte" /\ q.words = 2 /\ q.bytes = 0 /\ q.slots = 0
      /\ q.repeated = r /\ q.offset = 1
  BY DEF Repeated, Ask
<1> HIDE DEF q
<1>2. a = RawAsString(q)
  BY <1>1, Dispatch, Zenon
<1> HIDE DEF a
<1>3. a = Prim(<<"leaf", "", "r">>, round_up_to_word(2 * WordSize + q.repeated + 1), q)
  BY <1>2, Zenon DEF RawAsString
<1>4. IsName(a.prim) /\ a.prim[1] = "leaf" /\ a.prim[3] = "r"
  <2> DEFINE nm == <<"leaf", "", "r">>
  <2>1. a = Prim(nm, round_up_to_word(2 * WordSize + q.repeated + 1), q)
    BY <1>3, Zenon
  <2>2. IsName(nm)
    BY Names, Zenon
  <2>3. nm[1] = "leaf" /\ nm[3] = "r"
    BY Zenon
  <2> HIDE DEF nm
  <2>4. a.prim = nm
    BY <2>1 DEF Prim
  <2> QED
    BY <2>2, <2>3, <2>4
<1>5. /\ a.size = ((16 + r + 1 + 7) \div 8) * 8 /\ a.size_in_words = a.size \div 8
      /\ a.no_to_fill = 0 /\ a.rep_size = r /\ a.rep_size_slot = 1
      /\ Plain(a.fill) /\ Plain(a.s1) /\ Plain(a.s2) /\ Plain(a.rep_fill)
  <2> DEFINE nm == <<"leaf", "", "r">>
  <2>1. a = Prim(nm, round_up_to_word(2 * WordSize + q.repeated + 1), q)
    BY <1>3, Zenon
  <2> HIDE DEF nm
  <2> QED
    BY <2>1, <1>1, UnitSizes, WordsArePlain DEF Prim, WordSize, round_up_to_word
<1>6. Header(a) = 2 /\ Extent(q, a) \in Int
  BY <1>5, <1>1, UnitSizes DEF Header, Extent, WordSize
<1>7. Arguable(a) /\ a.size \in Nat
  BY <1>5 DEF Arguable
<1> QED
  BY <1>4, <1>6, <1>7 DEF Fit, q, a

LEMMA AwlFit ==
  ASSUME NEW n \in Nat \ {0}, NEW r \in Nat
  PROVE  Fit(Entries("awl", n, r), PrimitiveCall(Entries("awl", n, r)))
<1> DEFINE q == Entries("awl", n, r)
           a == PrimitiveCall(q)
<1>1. q.fn = "awl" /\ q.type = "object" /\ q.words = 2 + n + r /\ q.bytes = 0 /\ q.slots = n + 1 + r
      /\ q.repeated = r /\ q.offset = n + 1
  BY DEF Entries, Ask
<1> HIDE DEF q
<1>2. a = InAwlPool("exact_awl", 1, q)
  BY <1>1, Dispatch, Zenon
<1> HIDE DEF a
<1>3. a = [Prim(<<"exact_awl", "s", "r">>, q.words * WordSize, q) EXCEPT !.s1 = Assoc]
  <2>1. q.slots # 1
    BY <1>1
  <2> QED
    BY <2>1, <1>2, Zenon DEF InAwlPool
<1>4. IsName(a.prim) /\ a.prim[1] = "exact_awl" /\ a.prim[2] = "s" /\ a.prim[3] = "r"
  <2> DEFINE nm == <<"exact_awl", "s", "r">>
  <2>1. a = [Prim(nm, q.words * WordSize, q) EXCEPT !.s1 = Assoc]
    BY <1>3, Zenon
  <2>2. IsName(nm)
    BY Names, Zenon
  <2>3. nm[1] = "exact_awl" /\ nm[2] = "s" /\ nm[3] = "r"
    BY Zenon
  <2> HIDE DEF nm
  <2>4. a.prim = nm
    BY <2>1 DEF Prim
  <2> QED
    BY <2>2, <2>3, <2>4
<1>5. /\ a.size = 8 * (2 + n + r) /\ a.size_in_words = a.size \div 8
      /\ a.no_to_fill = n + 1 + r /\ a.rep_size = r /\ a.rep_size_slot = n + 1
      /\ Plain(a.fill) /\ Plain(a.s1) /\ Plain(a.s2) /\ Plain(a.rep_fill)
  <2> DEFINE nm == <<"exact_awl", "s", "r">>
  <2>1. a = [Prim(nm, q.words * WordSize, q) EXCEPT !.s1 = Assoc]
    BY <1>3, Zenon
  <2> HIDE DEF nm
  <2> QED
    BY <2>1, <1>1, UnitSizes, WordsArePlain DEF Prim, WordSize, round_up_to_word
<1>6. Header(a) = n + 2 /\ Extent(q, a) = n + 2 + r
  BY <1>5, <1>1, UnitSizes DEF Header, Extent, WordSize
<1>7. Arguable(a) /\ a.size \in Nat
  BY <1>5 DEF Arguable
<1>8. ASSUME NEW i \in Nat, i < Extent(q, a), i < Header(a) \/ q.type = "object"
     PROVE  CoveredByName(a.prim, a, i)
  BY <1>4, <1>5, <1>6, <1>8, <1>1 DEF CoveredByName
<1> QED
  BY <1>4, <1>6, <1>7, <1>8 DEF Fit, q, a

LEMMA WeakAwlFit ==
  ASSUME NEW n \in Nat \ {0}, NEW r \in Nat
  PROVE  Fit(Entries("weak_awl", n, r), PrimitiveCall(Entries("weak_awl", n, r)))
<1> DEFINE q == Entries("weak_awl", n, r)
           a == PrimitiveCall(q)
<1>1. q.fn = "weak_awl" /\ q.type = "object" /\ q.words = 2 + n + r /\ q.bytes = 0 /\ q.slots = n + 1 + r
      /\ q.repeated = r /\ q.offset = n + 1
  BY DEF Entries, Ask
<1> HIDE DEF q
<1>2. a = InAwlPool("weak_awl", 0, q)
  BY <1>1, Dispatch, Zenon
<1> HIDE DEF a
<1>3. a = [Prim(<<"weak_awl", "s", "r">>, q.words * WordSize, q) EXCEPT !.s1 = Assoc]
  <2>1. q.slots # 0
    BY <1>1
  <2> QED
    BY <2>1, <1>2, Zenon DEF InAwlPool
<1>4. IsName(a.prim) /\ a.prim[1] = "weak_awl" /\ a.prim[2] = "s" /\ a.prim[3] = "r"
  <2> DEFINE nm == <<"weak_awl", "s", "r">>
  <2>1. a = [Prim(nm, q.words * WordSize, q) EXCEPT !.s1 = Assoc]
    BY <1>3, Zenon
  <2>2. IsName(nm)
    BY Names, Zenon
  <2>3. nm[1] = "weak_awl" /\ nm[2] = "s" /\ nm[3] = "r"
    BY Zenon
  <2> HIDE DEF nm
  <2>4. a.prim = nm
    BY <2>1 DEF Prim
  <2> QED
    BY <2>2, <2>3, <2>4
<1>5. /\ a.size = 8 * (2 + n + r) /\ a.size_in_words = a.size \div 8
      /\ a.no_to_fill = n + 1 + r /\ a.rep_size = r /\ a.rep_size_slot = n + 1
      /\ Plain(a.fill) /\ Plain(a.s1) /\ Plain(a.s2) /\ Plain(a.rep_fill)
  <2> DEFINE nm == <<"weak_awl", "s", "r">>
  <2>1. a = [Prim(nm, q.words * WordSize, q) EXCEPT !.s1 = Assoc]
    BY <1>3, Zenon
  <2> HIDE DEF nm
  <2> QED
    BY <2>1, <1>1, UnitSizes, WordsArePlain DEF Prim, WordSize, round_up_to_word
<1>6. Header(a) = n + 2 /\ Extent(q, a) = n + 2 + r
  BY <1>5, <1>1, UnitSizes DEF Header, Extent, WordSize
<1>7. Arguable(a) /\ a.size \in Nat
  BY <1>5 DEF Arguable
<1>8. ASSUME NEW i \in Nat, i < Extent(q, a), i < Header(a) \/ q.type = "object"
     PROVE  CoveredByName(a.prim, a, i)
  BY <1>4, <1>5, <1>6, <1>8, <1>1 DEF CoveredByName
<1> QED
  BY <1>4, <1>6, <1>7, <1>8 DEF Fit, q, a

LEMMA WrappersFit ==
  ASSUME NEW n \in Nat \ {0}
  PROVE  Fit(Ask("wrapper", "object", 1 + n, 0, n, 0, n), PrimitiveCall(Ask("wrapper", "object", 1 + n, 0, n, 0, n)))
<1> DEFINE q == Ask("wrapper", "object", 1 + n, 0, n, 0, n)
           a == PrimitiveCall(q)
<1>1. q.fn = "wrapper" /\ q.type = "object" /\ q.words = 1 + n /\ q.bytes = 0 /\ q.slots = n
      /\ q.repeated = 0 /\ q.offset = n
  BY DEF Ask
<1> HIDE DEF q
<1>2. a = AllocateWrapper(q)
  BY <1>1, Dispatch, Zenon
<1> HIDE DEF a
<1>3. a = Prim(<<"wrapper", "s", "r">>, q.words * WordSize, q)
  BY <1>2, Zenon DEF AllocateWrapper
<1>4. IsName(a.prim) /\ a.prim[1] = "wrapper" /\ a.prim[2] = "s" /\ a.prim[3] = "r"
  <2> DEFINE nm == <<"wrapper", "s", "r">>
  <2>1. a = Prim(nm, q.words * WordSize, q)
    BY <1>3, Zenon
  <2>2. IsName(nm)
    BY Names, Zenon
  <2>3. nm[1] = "wrapper" /\ nm[2] = "s" /\ nm[3] = "r"
    BY Zenon
  <2> HIDE DEF nm
  <2>4. a.prim = nm
    BY <2>1 DEF Prim
  <2> QED
    BY <2>2, <2>3, <2>4
<1>5. /\ a.size = 8 * (1 + n) /\ a.size_in_words = a.size \div 8
      /\ a.no_to_fill = n /\ a.rep_size = 0 /\ a.rep_size_slot = n
      /\ Plain(a.fill) /\ Plain(a.s1) /\ Plain(a.s2) /\ Plain(a.rep_fill)
  <2> DEFINE nm == <<"wrapper", "s", "r">>
  <2>1. a = Prim(nm, q.words * WordSize, q)
    BY <1>3, Zenon
  <2> HIDE DEF nm
  <2> QED
    BY <2>1, <1>1, UnitSizes, WordsArePlain DEF Prim, WordSize, round_up_to_word
<1>6. Header(a) = n + 1 /\ Extent(q, a) = n + 1
  BY <1>5, <1>1, UnitSizes DEF Header, Extent, WordSize
<1>7. Arguable(a) /\ a.size \in Nat
  BY <1>5 DEF Arguable
<1>8. ASSUME NEW i \in Nat, i < Extent(q, a), i < Header(a) \/ q.type = "object"
     PROVE  CoveredByName(a.prim, a, i)
  BY <1>4, <1>5, <1>6, <1>8, <1>1 DEF CoveredByName
<1> QED
  BY <1>4, <1>6, <1>7, <1>8 DEF Fit, q, a

LEMMA FilledFit ==
  ASSUME NEW n \in 0 .. 2, NEW fn \in {"filled", "c_pointer"}, fn = "c_pointer" => n = 1
  PROVE  Fit(Simple(fn, n), PrimitiveCall(Simple(fn, n)))
<1> DEFINE q == Simple(fn, n)
           a == PrimitiveCall(q)
<1>1. q.fn = fn /\ q.type = "object" /\ q.words = 1 + n /\ q.bytes = 0 /\ q.slots = n
      /\ q.repeated = 0 /\ q.offset = 0
  BY DEF Simple, Ask
<1> HIDE DEF q
<1>2. a = AllocateFilled(q)
  BY <1>1, Dispatch, Zenon
<1> HIDE DEF a
<1>3. CASE n = 0
  <2>1. a = Prim(<<"main", "", "">>, q.words * WordSize, q)
    <3>1. q.slots = 0 /\ q.slots # 1 /\ q.slots # 2
      BY <1>3, <1>1
    <3> QED
      BY <3>1, <1>2, Zenon DEF AllocateFilled
  <2>2. IsName(a.prim) /\ a.prim[1] = "main"
    <3> DEFINE nm == <<"main", "", "">>
    <3>1. a = Prim(nm, q.words * WordSize, q)
      BY <2>1, Zenon
    <3>2. IsName(nm)
      BY Names, Zenon
    <3>3. nm[1] = "main"
      BY Zenon
    <3> HIDE DEF nm
    <3>4. a.prim = nm
      BY <3>1 DEF Prim
    <3> QED
      BY <3>2, <3>3, <3>4
  <2>3. /\ a.size = 8 /\ a.size_in_words = a.size \div 8
        /\ a.no_to_fill = n /\ a.rep_size = 0 /\ a.rep_size_slot = 0
        /\ Plain(a.fill) /\ Plain(a.s1) /\ Plain(a.s2) /\ Plain(a.rep_fill)
    <3> DEFINE nm == <<"main", "", "">>
    <3>1. a = Prim(nm, q.words * WordSize, q)
      BY <2>1, Zenon
    <3> HIDE DEF nm
    <3> QED
      BY <1>3, <3>1, <1>1, UnitSizes, WordsArePlain DEF Prim, WordSize, round_up_to_word
  <2>4. Header(a) = 1 + n /\ Extent(q, a) = 1 + n
    BY <1>3, <2>3, <1>1, UnitSizes DEF Header, Extent, WordSize
  <2>5. Arguable(a) /\ a.size \in Nat
    BY <1>3, <2>3 DEF Arguable
  <2>6. ASSUME NEW i \in Nat, i < Extent(q, a), i < Header(a) \/ q.type = "object"
       PROVE  CoveredByName(a.prim, a, i)
    BY <1>3, <2>2, <2>3, <2>4, <2>6, <1>1 DEF CoveredByName
  <2> QED
    BY <2>2, <2>4, <2>5, <2>6 DEF Fit, q, a
<1>4. CASE n = 1
  <2>1. a = [Prim(<<"main", "s1", "">>, q.words * WordSize, q) EXCEPT !.s1 = Fill]
    <3>1. q.slots = 1 /\ q.slots # 0 /\ q.slots # 2
      BY <1>4, <1>1
    <3> QED
      BY <3>1, <1>2, Zenon DEF AllocateFilled
  <2>2. IsName(a.prim) /\ a.prim[1] = "main" /\ a.prim[2] = "s1"
    <3> DEFINE nm == <<"main", "s1", "">>
    <3>1. a = [Prim(nm, q.words * WordSize, q) EXCEPT !.s1 = Fill]
      BY <2>1, Zenon
    <3>2. IsName(nm)
      BY Names, Zenon
    <3>3. nm[1] = "main" /\ nm[2] = "s1"
      BY Zenon
    <3> HIDE DEF nm
    <3>4. a.prim = nm
      BY <3>1 DEF Prim
    <3> QED
      BY <3>2, <3>3, <3>4
  <2>3. /\ a.size = 16 /\ a.size_in_words = a.size \div 8
        /\ a.no_to_fill = n /\ a.rep_size = 0 /\ a.rep_size_slot = 0
        /\ Plain(a.fill) /\ Plain(a.s1) /\ Plain(a.s2) /\ Plain(a.rep_fill)
    <3> DEFINE nm == <<"main", "s1", "">>
    <3>1. a = [Prim(nm, q.words * WordSize, q) EXCEPT !.s1 = Fill]
      BY <2>1, Zenon
    <3> HIDE DEF nm
    <3> QED
      BY <1>4, <3>1, <1>1, UnitSizes, WordsArePlain DEF Prim, WordSize, round_up_to_word
  <2>4. Header(a) = 1 + n /\ Extent(q, a) = 1 + n
    BY <1>4, <2>3, <1>1, UnitSizes DEF Header, Extent, WordSize
  <2>5. Arguable(a) /\ a.size \in Nat
    BY <1>4, <2>3 DEF Arguable
  <2>6. ASSUME NEW i \in Nat, i < Extent(q, a), i < Header(a) \/ q.type = "object"
       PROVE  CoveredByName(a.prim, a, i)
    BY <1>4, <2>2, <2>3, <2>4, <2>6, <1>1 DEF CoveredByName
  <2> QED
    BY <2>2, <2>4, <2>5, <2>6 DEF Fit, q, a
<1>5. CASE n = 2
  <2>1. a = [Prim(<<"main", "s2", "">>, q.words * WordSize, q) EXCEPT !.s1 = Fill, !.s2 = Fill]
    <3>1. q.slots = 2 /\ q.slots # 0 /\ q.slots # 1 /\ 2 # 0 /\ 2 # 1
      BY <1>5, <1>1
    <3> QED
      BY <3>1, <1>2, Zenon DEF AllocateFilled
  <2>2. IsName(a.prim) /\ a.prim[1] = "main" /\ a.prim[2] = "s2"
    <3> DEFINE nm == <<"main", "s2", "">>
    <3>1. a = [Prim(nm, q.words * WordSize, q) EXCEPT !.s1 = Fill, !.s2 = Fill]
      BY <2>1, Zenon
    <3>2. IsName(nm)
      BY Names, Zenon
    <3>3. nm[1] = "main" /\ nm[2] = "s2"
      BY Zenon
    <3> HIDE DEF nm
    <3>4. a.prim = nm
      BY <3>1 DEF Prim
    <3> QED
      BY <3>2, <3>3, <3>4
  <2>3. /\ a.size = 24 /\ a.size_in_words = a.size \div 8
        /\ a.no_to_fill = n /\ a.rep_size = 0 /\ a.rep_size_slot = 0
        /\ Plain(a.fill) /\ Plain(a.s1) /\ Plain(a.s2) /\ Plain(a.rep_fill)
    <3> DEFINE nm == <<"main", "s2", "">>
    <3>1. a = [Prim(nm, q.words * WordSize, q) EXCEPT !.s1 = Fill, !.s2 = Fill]
      BY <2>1, Zenon
    <3> HIDE DEF nm
    <3> QED
      BY <1>5, <3>1, <1>1, UnitSizes, WordsArePlain DEF Prim, WordSize, round_up_to_word
  <2>4. Header(a) = 1 + n /\ Extent(q, a) = 1 + n
    BY <1>5, <2>3, <1>1, UnitSizes DEF Header, Extent, WordSize
  <2>5. Arguable(a) /\ a.size \in Nat
    BY <1>5, <2>3 DEF Arguable
  <2>6. ASSUME NEW i \in Nat, i < Extent(q, a), i < Header(a) \/ q.type = "object"
       PROVE  CoveredByName(a.prim, a, i)
    BY <1>5, <2>2, <2>3, <2>4, <2>6, <1>1 DEF CoveredByName
  <2> QED
    BY <2>2, <2>4, <2>5, <2>6 DEF Fit, q, a
<1> QED
  BY <1>1, <1>3, <1>4, <1>5 DEF q, a

LEMMA ClosuresFit ==
  ASSUME NEW q, q.fn = "closure", q.type = "object", q.words \in Nat, q.slots = 0,
         q.repeated \in Nat, q.offset \in Nat
  PROVE  Fit(q, PrimitiveCall(q))
<1> DEFINE a == PrimitiveCall(q)
           nm == <<"main", "", "">>
<1>1. a = Prim(nm, (q.words + q.repeated) * WordSize, q)
  BY Dispatch, Zenon DEF Allocate
<1>2. IsName(nm)
  BY Names, Zenon
<1> HIDE DEF nm, a
<1>3. /\ a.prim = nm /\ a.size = 8 * (q.words + q.repeated) /\ a.size_in_words = a.size \div 8
      /\ a.no_to_fill = 0 /\ a.rep_size = q.repeated /\ a.rep_size_slot = q.offset
      /\ Plain(a.fill) /\ Plain(a.s1) /\ Plain(a.s2) /\ Plain(a.rep_fill)
  BY <1>1, WordsArePlain DEF Prim, WordSize
<1>4. Arguable(a) /\ a.size \in Nat /\ Extent(q, a) \in Int
  BY <1>3, UnitSizes DEF Arguable, Extent, Header, WordSize
<1> QED
  BY <1>2, <1>3, <1>4 DEF Fit, a

LEMMA EnvironmentsFit ==
  ASSUME NEW words \in {5, 7}, NEW n \in Nat, NEW prim, NEW q,
         q = [Ask("closure", "object", words, 0, 0, n, words - 1) EXCEPT !.prim = prim]
  PROVE  Fit(q, PrimitiveCall(q))
<1>1. /\ q.fn = "closure" /\ q.type = "object" /\ q.words = words /\ q.slots = 0 /\ q.repeated = n
      /\ q.offset = words - 1
  BY Zenon DEF Ask
<1>2. q.words \in Nat /\ q.repeated \in Nat /\ q.offset \in Nat
  BY <1>1
<1> QED
  BY <1>1, <1>2, ClosuresFit

LEMMA DirectFit ==
  ASSUME NEW q, q.fn = "direct", q.type \in {"byte", "object"}, q.words \in Nat, q.slots \in Nat,
         q.repeated \in Nat, q.offset \in Nat, IsName(q.prim)
  PROVE  Fit(q, PrimitiveCall(q))
<1> DEFINE a == PrimitiveCall(q)
           more == IF q.prim[3] = "" THEN 0 ELSE round_up_to_word(q.repeated * UnitSize(q.type) + 1)
           s1 == IF q.prim[1] \in {"exact_awl", "weak_awl"} THEN Assoc ELSE Data1
<1>1. a = [Prim(q.prim, q.words * WordSize + more, q) EXCEPT !.s1 = s1]
  BY Dispatch, Zenon DEF Direct
<1>2. round_up_to_word(q.repeated * UnitSize(q.type) + 1) \in Nat
  <2>1. CASE q.type = "byte"
    BY <2>1, UnitSizes DEF round_up_to_word, WordSize
  <2>2. CASE q.type = "object"
    BY <2>2, UnitSizes DEF round_up_to_word, WordSize
  <2> QED
    BY <2>1, <2>2
<1>3. 0 \in Nat
  OBVIOUS
<1>4. more \in Nat /\ Plain(s1)
  BY <1>2, <1>3, WordsArePlain, Zenon
<1> HIDE DEF more, s1, a
<1>5. /\ a.prim = q.prim /\ a.size = q.words * 8 + more /\ a.size_in_words = a.size \div 8
      /\ a.no_to_fill = q.slots /\ a.rep_size = q.repeated /\ a.rep_size_slot = q.offset
      /\ Plain(a.fill) /\ Plain(a.s1) /\ Plain(a.s2) /\ Plain(a.rep_fill)
  BY <1>1, <1>4, WordsArePlain DEF Prim, WordSize
<1>6. Arguable(a) /\ a.size \in Nat
  BY <1>4, <1>5 DEF Arguable
<1>7. Extent(q, a) \in Int
  <2>1. UnitSize(q.type) \in {1, 2, 4, 8}
    BY UnitSizes, Zenon
  <2> QED
    BY <1>4, <1>5, <2>1 DEF Extent, Header, WordSize
<1> QED
  BY <1>5, <1>6, <1>7 DEF Fit, a

LEMMA RequestsFit ==
  ASSUME NEW q \in Requests
  PROVE  Fit(q, PrimitiveCall(q))
<1>1. /\ 0 .. MaxSlots \subseteq Nat /\ 0 .. MaxRepeated \subseteq Nat /\ 1 .. MaxSlots \subseteq Nat \ {0}
      /\ 1 \in 0 .. 2 /\ 0 \in Nat
  BY AllocationAssumption
<1> DEFINE slots == 0 .. MaxSlots
           sizes == 0 .. MaxRepeated
<1>2. CASE q \in SimpleRequests
  <2>1. \/ \E n \in slots : q = Simple("object", n)
        \/ \E n \in 0 .. 2 : q = Simple("filled", n)
        \/ q = Simple("c_pointer", 1)
    BY <1>2 DEF SimpleRequests
  <2> QED
    BY <2>1, <1>1, InstancesFit, FilledFit, Zenon
<1>3. CASE q \in RepeatedRequests
  <2>1. \/ \E n \in slots, r \in sizes : q = Repeated("object", "object", n, r)
        \/ \E type \in {"double_byte", "single_float", "double_float"}, n \in slots, r \in sizes :
             q = Repeated("raw", type, n, r)
        \/ \E n \in slots, r \in sizes : q = Repeated("word", "word", n, r)
        \/ \E fn \in {"byte", "byte_leaf"}, n \in slots, r \in sizes : q = Repeated(fn, "byte", n, r)
        \/ \E n \in slots, r \in sizes : q = Repeated("byte_terminated", "byte", n, r)
        \/ \E r \in sizes : q = Repeated("vector", "object", 0, r)
        \/ \E r \in sizes : q = Repeated("string", "byte", 0, r)
    BY <1>3 DEF RepeatedRequests
  <2> QED
    BY <2>1, <1>1, ObjectsFit, RawFit, WordsFit, BytesFit, LeafBytesFit, TerminatedFit, VectorsFit, StringsFit, Zenon
<1>4. CASE q \in TableRequests
  <2>1. \/ \E fn \in {"awl", "weak_awl"}, n \in 1 .. MaxSlots, r \in sizes : q = Entries(fn, n, r)
        \/ \E n \in 1 .. MaxSlots : q = Ask("wrapper", "object", 1 + n, 0, n, 0, n)
    BY <1>4 DEF TableRequests
  <2> QED
    BY <2>1, <1>1, AwlFit, WeakAwlFit, WrappersFit, Zenon
<1>5. CASE q \in MethodRequests
  <2>1. \/ \E kind \in {"simple", "keyword"}, how \in {"initd", "later"}, signed \in Signed, n \in sizes :
             q = Closure(kind, how, signed, n)
        \/ \E kind \in {"simple", "keyword"}, how \in {"method", "static"} : q = MethodSig(kind, how)
    BY <1>5 DEF MethodRequests
  <2>2. ASSUME NEW kind \in {"simple", "keyword"}, NEW how, NEW signed, NEW n \in sizes,
               q = Closure(kind, how, signed, n)
        PROVE  Fit(q, PrimitiveCall(q))
    <3> DEFINE words == IF kind = "keyword" THEN 7 ELSE 5
    <3>1. q = [Ask("closure", "object", words, 0, 0, n, words - 1) EXCEPT !.prim = <<kind, how, signed>>]
      BY <2>2, Zenon DEF Closure
    <3>2. words \in {5, 7} /\ n \in Nat
      BY <1>1, Zenon
    <3> HIDE DEF words
    <3> QED
      BY <3>1, <3>2, EnvironmentsFit, Zenon
  <2>3. ASSUME NEW kind \in {"simple", "keyword"}, NEW how, q = MethodSig(kind, how)
        PROVE  Fit(q, PrimitiveCall(q))
    <3>1. /\ q.fn = "closure" /\ q.type = "object" /\ q.words \in Nat /\ q.slots = 0 /\ q.repeated \in Nat
          /\ q.offset \in Nat
      BY <2>3 DEF MethodSig, Ask
    <3> QED
      BY <3>1, ClosuresFit
  <2> QED
    BY <2>1, <2>2, <2>3
<1>6. CASE q \in DirectRequests
  <2>1. PICK i \in DOMAIN PrimitiveNames, r \in sizes : q = DirectRequest(i, r)
    BY <1>6 DEF DirectRequests
  <2> DEFINE name == PrimitiveNames[i]
             type == IF \E j \in {9, 10, 11, 12, 19, 21, 22, 23} : i = j THEN "byte" ELSE "object"
             words == IF name[3] = "" THEN 3 ELSE 4
             offset == IF name[3] = "" THEN 0 ELSE 3
  <2>2. q = [Repeated("direct", type, 2, r) EXCEPT !.prim = name, !.words = words, !.offset = offset]
    BY <2>1, Zenon DEF DirectRequest
  <2>3. type \in {"byte", "object"} /\ words \in {3, 4} /\ offset \in {0, 3} /\ IsName(name)
    BY Zenon DEF IsName
  <2> HIDE DEF name, type, words, offset
  <2>4. /\ q.fn = "direct" /\ q.type \in {"byte", "object"} /\ q.words \in Nat /\ q.slots \in Nat
        /\ q.repeated \in Nat /\ q.offset \in Nat /\ IsName(q.prim)
    BY <1>1, <2>2, <2>3 DEF Repeated, Ask
  <2> QED
    BY <2>4, DirectFit
<1> QED
  BY <1>2, <1>3, <1>4, <1>5, <1>6 DEF Requests

(* Writes of plain words.                                                   *)
LEMMA SoundWrite ==
  ASSUME NEW o, NEW first, NEW count, NEW value, NEW at, SoundCells(request, asked, o, at), Plain(value)
  PROVE  SoundCells(request, asked, Write(o, first, count, value), at)
<1> DEFINE w == Write(o, first, count, value)
<1> SUFFICES ASSUME NEW i \in DOMAIN w.cells PROVE SoundWord(w.cells[i], at, Needed(request, asked, i))
  BY DEF SoundCells
<1>1. i \in DOMAIN o.cells /\ (w.cells[i] = value \/ w.cells[i] = o.cells[i])
  BY WriteCells
<1>2. Needed(request, asked, i) \in BOOLEAN
  BY DEF Needed
<1>3. CASE w.cells[i] = value
  BY <1>2, <1>3, PlainIsSound, Zenon
<1>4. CASE w.cells[i] = o.cells[i]
  BY <1>1, <1>4, Zenon DEF SoundCells
<1> QED
  BY <1>1, <1>3, <1>4

LEMMA PlainWrite ==
  ASSUME NEW o, NEW first, NEW count, NEW value, PlainCells(o), Plain(value)
  PROVE  PlainCells(Write(o, first, count, value))
<1> DEFINE w == Write(o, first, count, value)
<1> SUFFICES ASSUME NEW i \in DOMAIN w.cells PROVE Plain(w.cells[i])
  BY DEF PlainCells
<1>1. i \in DOMAIN o.cells /\ (w.cells[i] = value \/ w.cells[i] = o.cells[i])
  BY WriteCells
<1> QED
  BY <1>1, Zenon DEF PlainCells

LEMMA PlainCellsAreSound ==
  ASSUME NEW o, NEW at, PlainCells(o)
  PROVE  SoundCells(request, asked, o, at)
<1>1. \A i : Needed(request, asked, i) \in BOOLEAN
  BY DEF Needed
<1> QED
  BY <1>1, PlainIsSound, Zenon DEF PlainCells, SoundCells

LEMMA UntracedIsSound ==
  ASSUME NEW o, NEW prim, NEW a, IsObject(o), Arguable(a)
  PROVE  /\ IsObject(UntracedFilled(o, prim, a))
         /\ \A at : SoundCells(request, asked, o, at) => SoundCells(request, asked, UntracedFilled(o, prim, a), at)
<1> DEFINE on == {"uf", "r"} \subseteq prim.options
           sized == If(on /\ a.prim[3] = "rf", o, a.rep_size_slot, 1, SizeSlot(a.rep_size))
           filled == If(on, sized, a.rep_size_slot + 1, a.rep_size, a.rep_fill)
           terminated == If(on /\ "zt" \in prim.options, filled, a.rep_size_slot + 1 + a.rep_size, 1, Zero)
<1>0. IsObject(sized) /\ \A at : SoundCells(request, asked, o, at) => SoundCells(request, asked, sized, at)
  BY SoundWrite, WriteIsObject, WordsArePlain, Zenon DEF If
<1> HIDE DEF sized
<1>1. IsObject(filled) /\ \A at : SoundCells(request, asked, o, at) => SoundCells(request, asked, filled, at)
  BY <1>0, SoundWrite, WriteIsObject, Zenon DEF If, Arguable
<1> HIDE DEF filled
<1>2. IsObject(terminated) /\ \A at : SoundCells(request, asked, o, at) => SoundCells(request, asked, terminated, at)
  BY <1>1, SoundWrite, WriteIsObject, WordsArePlain, Zenon DEF If
<1> QED
  BY <1>2, Zenon DEF UntracedFilled, filled, sized

(* The copy of a C string.                                                  *)
LEMMA CopyIsSound ==
  ASSUME NEW o, NEW data, NEW len, IsObject(o)
  PROVE  /\ IsObject(Copied(o, data, len))
         /\ \A at : SoundCells(request, asked, o, at) => SoundCells(request, asked, Copied(o, data, len), at)
<1> DEFINE cells == [i \in DOMAIN o.cells |-> IF i >= data /\ i < data + len THEN Character(i - data) ELSE o.cells[i]]
           bytes == [o EXCEPT !.cells = cells]
<1>1. /\ DOMAIN cells = DOMAIN o.cells
      /\ \A i \in DOMAIN cells : Plain(cells[i]) \/ cells[i] = o.cells[i]
  BY WordsArePlain
<1>2. Copied(o, data, len) = Write(bytes, data + len, 1, Zero)
  BY Zenon DEF Copied
<1> HIDE DEF cells
<1>3. bytes.cells = cells
  BY DEF IsObject
<1> HIDE DEF bytes
<1>4. ASSUME NEW at, SoundCells(request, asked, o, at) PROVE SoundCells(request, asked, bytes, at)
  <2>1. \A i : Needed(request, asked, i) \in BOOLEAN
    BY DEF Needed
  <2> QED
    BY <1>1, <1>3, <1>4, <2>1, PlainIsSound, Zenon DEF SoundCells
<1> QED
  BY <1>2, <1>4, SoundWrite, WriteIsObject, WordsArePlain, Zenon

(* What does not change during an allocation.                               *)
RequestInv ==
  /\ collector \in {"boehm", "malloc", "mps"}
  /\ request \in Requests
  /\ request.fn = "closure" => collector # "mps"
  /\ asked = PrimitiveCall(request)

LEMMA RequestFacts ==
  ASSUME RequestInv
  PROVE  /\ Fit(request, asked) /\ NameSays(asked.prim, Chosen.options)
         /\ PoolSays(collector, asked.prim, Chosen.pool)
<1>1. Fit(request, asked)
  BY RequestsFit, Zenon DEF RequestInv
<1>2. PICK j \in DOMAIN PrimitiveNames : asked.prim = PrimitiveNames[j]
  BY <1>1, Zenon DEF Fit, IsName
<1>3. Says(collector, asked.prim, Chosen)
  BY <1>2, ChosenSays, Zenon DEF RequestInv
<1> QED
  BY <1>1, <1>3, Zenon DEF Says

LEMMA PoolFacts ==
  ASSUME RequestInv
  PROVE  /\ Chosen.pool.scanned => \/ collector = "boehm" /\ Chosen.pool.fresh = Zero
                                   \/ collector = "mps" /\ asked.prim[1] # "leaf"
         /\ Chosen.pool.fresh \in {Zero, Junk}
         /\ collector = "mps" /\ ~Chosen.pool.moving => NoReferences(Chosen.options)
<1>1. PoolSays(collector, asked.prim, Chosen.pool) /\ NameSays(asked.prim, Chosen.options)
  BY RequestFacts, Zenon
<1>2. Chosen.pool.scanned => \/ collector = "boehm" /\ Chosen.pool.fresh = Zero
                             \/ collector = "mps" /\ asked.prim[1] # "leaf"
  BY <1>1, Zenon DEF PoolSays
<1>3. Chosen.pool.fresh \in {Zero, Junk}
  BY <1>1, Zenon DEF PoolSays
<1>4. ASSUME collector = "mps", ~Chosen.pool.moving PROVE asked.prim[1] = "wrapper"
  BY <1>1, <1>4, Zenon DEF PoolSays
<1>5. ASSUME asked.prim[1] = "wrapper" PROVE NoReferences(Chosen.options)
  BY <1>1, <1>5, Zenon DEF NameSays, NoReferences
<1> QED
  BY <1>2, <1>3, <1>4, <1>5, Zenon

LEMMA BlockCells ==
  ASSUME RequestInv, NEW i \in DOMAIN Block(asked).cells
  PROVE  /\ i \in Nat /\ i < Extent(request, asked)
         /\ Block(asked).cells[i] = Chosen.pool.fresh
<1> DEFINE more == (asked.size - Header(asked) * WordSize) \div UnitSize(request.type)
           top == Header(asked) + (more - 1)
           fresh == Chosen.pool.fresh
           cells == [k \in 0 .. top |-> fresh]
<1>1. Block(asked) = [cells |-> cells, overrun |-> FALSE]
  BY Zenon DEF Block
<1>2. Extent(request, asked) = Header(asked) + more
  BY Zenon DEF Extent
<1>3. Header(asked) \in Nat /\ Header(asked) + more \in Int
  BY RequestFacts, <1>2 DEF Fit, Arguable, Header
<1>4. more \in Int
  BY RequestFacts, UnitSizes, <1>3 DEF Fit, WordSize
<1> HIDE DEF more
<1>5. i \in 0 .. top /\ Block(asked).cells[i] = fresh
  BY <1>1
<1> QED
  BY <1>2, <1>3, <1>4, <1>5

LEMMA BlockIsObject == IsObject(Block(asked))
BY RecordsAreObjects, Zenon DEF Block

LEMMA BlockIsSound ==
  ASSUME RequestInv, request.fn # "closure", Chosen.pool.scanned, NEW at
  PROVE  /\ SoundCells(request, asked, Initialised(Block(asked), Chosen, asked, at), at)
         /\ collector = "mps" /\ ~Chosen.pool.moving =>
              \A other : SoundCells(request, asked, Initialised(Block(asked), Chosen, asked, at), other)
<1> DEFINE block == Block(asked)
           made == Initialised(block, Chosen, asked, at)
<1>1. Fit(request, asked) /\ NameSays(asked.prim, Chosen.options)
  BY RequestFacts, Zenon
<1>2. Arguable(asked)
  BY <1>1, Zenon DEF Fit
<1>3. /\ \/ collector = "boehm" /\ Chosen.pool.fresh = Zero
         \/ collector = "mps" /\ asked.prim[1] # "leaf"
      /\ Chosen.pool.fresh \in {Zero, Junk}
      /\ collector = "mps" /\ ~Chosen.pool.moving => NoReferences(Chosen.options)
  BY PoolFacts
<1>4. Junk.is = "junk" /\ Zero.is = "zero"
  BY DEF Junk, Zero, Word
<1>5. ASSUME NEW i \in DOMAIN block.cells
      PROVE  /\ i \in Nat /\ i < Extent(request, asked) /\ block.cells[i] = Chosen.pool.fresh
             /\ block.cells[i].is # "reference"
  <2>1. i \in Nat /\ i < Extent(request, asked) /\ block.cells[i] = Chosen.pool.fresh
    BY BlockCells, Zenon
  <2> QED
    BY <1>3, <1>4, <2>1
<1>6. WellWritten(block, Chosen, asked, at, made)
  BY <1>2, <1>5, InitialisedCells, Zenon
<1>7. ASSUME NEW i \in DOMAIN block.cells, Needed(request, asked, i)
      PROVE  block.cells[i].is # "junk" \/ Covered(Chosen.options, asked, i)
  <2>1. CASE collector = "boehm" /\ Chosen.pool.fresh = Zero
    BY <1>4, <1>5, <2>1
  <2>2. CASE collector = "mps" /\ asked.prim[1] # "leaf"
    <3>1. CoveredByName(asked.prim, asked, i)
      BY <1>1, <1>5, <1>7, <2>2, Zenon DEF Fit, Needed
    <3> QED
      BY <1>1, <3>1, NamesCover, Zenon
  <2> QED
    BY <1>3, <2>1, <2>2
<1> HIDE DEF block, made
<1>8. SoundCells(request, asked, made, at)
  BY <1>6, <1>7 DEF SoundCells, SoundWord, WellWritten
<1> QED
  BY <1>3, <1>6, <1>7, <1>8 DEF SoundCells, SoundWord, WellWritten, made, block

LEMMA ClosureIsObject ==
  ASSUME NEW q, NEW o
  PROVE  IsObject(SetSignature(q, CopySchema(q, o)))
<1>1. IsObject(CopySchema(q, o))
  BY WriteIsObject, Zenon DEF CopySchema, If
<1> QED
  BY <1>1, WriteIsObject, Zenon DEF SetSignature, If

(* The memory of a closure, over a collector that scans it, comes cleared.  *)
LEMMA ClosureIsPlain ==
  ASSUME RequestInv, request.fn = "closure", Chosen.pool.scanned, NEW q
  PROVE  PlainCells(SetSignature(q, CopySchema(q, Block(asked))))
<1> DEFINE copy == Write(Write(Block(asked), 0, 1, Wrapper), 1, q.words - 1, Schema)
           copied == If(q.prim[1] = "simple" /\ q.prim[2] = "method", copy, 4, 1, Beyond)
<1>1. Chosen.pool.fresh = Zero
  BY PoolFacts DEF RequestInv
<1>2. PlainCells(Block(asked))
  BY <1>1, BlockCells, WordsArePlain, Zenon DEF PlainCells
<1>3. PlainCells(Write(Block(asked), 0, 1, Wrapper))
  BY <1>2, PlainWrite, WordsArePlain, Zenon
<1>4. PlainCells(copy)
  BY <1>3, PlainWrite, WordsArePlain, Zenon
<1> HIDE DEF copy
<1>5. PlainCells(copied)
  BY <1>4, PlainWrite, WordsArePlain, Zenon DEF If
<1>6. copied = CopySchema(q, Block(asked))
  BY Zenon DEF CopySchema, copy
<1> HIDE DEF copied
<1> QED
  BY <1>5, <1>6, PlainWrite, WordsArePlain, Zenon DEF SetSignature, If

LEMMA EnvironmentIsPlain ==
  ASSUME NEW q, NEW fn, IsObject(fn), PlainCells(fn)
  PROVE  PlainCells(init_environment(q, fn))
<1> DEFINE cells == [i \in DOMAIN fn.cells |-> IF i > q.offset THEN Captured(i - q.offset) ELSE fn.cells[i]]
           given == [fn EXCEPT !.cells = cells]
<1>1. DOMAIN cells = DOMAIN fn.cells /\ \A i \in DOMAIN cells : Plain(cells[i])
  BY WordsArePlain DEF PlainCells
<1>2. init_environment(q, fn) = Write(given, q.offset, 1, SizeSlot(q.repeated))
  BY Zenon DEF init_environment
<1> HIDE DEF cells
<1>3. given.cells = cells
  BY DEF IsObject
<1> HIDE DEF given
<1>4. PlainCells(given)
  BY <1>1, <1>3, Zenon DEF PlainCells
<1> QED
  BY <1>2, <1>4, PlainWrite, WordsArePlain, Zenon

(***************************************************************************)
(* The invariant: until the writes the block is as it came; before it is   *)
(* committed it is what the primitive wrote, with the references the       *)
(* template had at some moment, now if there was no collection since the   *)
(* block was reserved; and afterwards its cells are sound.                 *)
(***************************************************************************)
AllocatedInv ==
  /\ RequestInv
  /\ IsObject(object) /\ place \in Nat /\ flips \in Nat
  /\ collector # "mps" => place = 0
  /\ step = "init" => object = Block(asked)
  /\ step = "commit" =>
       /\ request.fn # "closure" /\ collector = "mps"
       /\ \E at : /\ object = Initialised(Block(asked), Chosen, asked, at)
                  /\ flips = 0 => at = place
  /\ step = "made" => request.fn = "closure" /\ (Chosen.pool.scanned => PlainCells(object))
  /\ step \in {"untraced", "copy", "done"} /\ Chosen.pool.scanned => SoundCells(request, asked, object, place)

LEMMA AllocationInit == InitAllocation => AllocatedInv
<1> SUFFICES ASSUME InitAllocation PROVE AllocatedInv
  OBVIOUS
<1>1. place \in Nat /\ flips \in Nat
  BY DEF InitAllocation
<1>2. IsObject(object)
  BY RecordsAreObjects, Zenon DEF InitAllocation
<1> QED
  BY <1>1, <1>2, Zenon DEF InitAllocation, AllocatedInv, RequestInv

LEMMA PreparedIsObject ==
  ASSUME RequestInv, NEW at
  PROVE  IsObject(Initialised(Block(asked), Chosen, asked, at))
<1>1. Arguable(asked)
  BY RequestFacts, Zenon DEF Fit
<1>2. Junk.is # "reference" /\ Zero.is # "reference"
  BY DEF Junk, Zero, Word
<1>3. \A i \in DOMAIN Block(asked).cells : i \in Nat /\ Block(asked).cells[i].is # "reference"
  BY <1>2, BlockCells, PoolFacts, Zenon
<1> QED
  BY <1>1, <1>3, InitialisedCells, Zenon

(* The primitive and its block do not change.                               *)
PrimitiveOf(collected, name) ==
  LET i == CHOOSE j \in DOMAIN PrimitiveNames : PrimitiveNames[j] = name
  IN  CASE collected = "boehm" -> Boehm!Primitives[i]
        [] collected = "malloc" -> Malloc!Primitives[i]
        [] collected = "mps" -> MPS!Primitives[i]
BlockOf(a, type, fresh) ==
  [cells |-> [i \in 0 .. Header(a) + (a.size - Header(a) * WordSize) \div UnitSize(type) - 1 |-> fresh],
   overrun |-> FALSE]

LEMMA PrimitiveStays ==
  ASSUME Same
  PROVE  Chosen' = Chosen /\ Block(asked)' = Block(asked) /\ (RequestInv => RequestInv')
<1>1. Chosen = PrimitiveOf(collector, asked.prim) /\ Block(asked) = BlockOf(asked, request.type, Chosen.pool.fresh)
  BY Zenon DEF Chosen, Primitive, PrimitiveOf, Block, BlockOf
<1>2. /\ Chosen' = PrimitiveOf(collector', asked'.prim)
      /\ Block(asked)' = BlockOf(asked', request'.type, Chosen'.pool.fresh)
  BY Zenon DEF Chosen, Primitive, PrimitiveOf, Block, BlockOf
<1>3. Chosen' = Chosen
  BY <1>1, <1>2, Zenon DEF Same
<1>4. Block(asked)' = Block(asked)
  BY <1>1, <1>2, <1>3, Zenon DEF Same
<1> QED
  BY <1>3, <1>4, Zenon DEF Same, RequestInv

LEMMA AllocationNext == AllocatedInv /\ [NextAllocation]_allocationVars => AllocatedInv'
<1> SUFFICES ASSUME AllocatedInv, [NextAllocation]_allocationVars PROVE AllocatedInv'
  OBVIOUS
<1>a. /\ RequestInv /\ IsObject(object) /\ place \in Nat /\ flips \in Nat
      /\ collector # "mps" => place = 0
      /\ step = "init" => object = Block(asked)
      /\ step = "commit" =>
           /\ request.fn # "closure" /\ collector = "mps"
           /\ \E at : /\ object = Initialised(Block(asked), Chosen, asked, at)
                      /\ flips = 0 => at = place
      /\ step = "made" => request.fn = "closure" /\ (Chosen.pool.scanned => PlainCells(object))
      /\ step \in {"untraced", "copy", "done"} /\ Chosen.pool.scanned => SoundCells(request, asked, object, place)
  BY Zenon DEF AllocatedInv
<1>b. request.fn = "closure" => collector # "mps"
  BY <1>a, Zenon DEF RequestInv
<1>c. Arguable(asked)
  BY <1>a, RequestFacts, Zenon DEF Fit
<1>d. Same \/ UNCHANGED allocationVars
  BY Zenon DEF NextAllocation, MakeClosure, InitClosure, SetMethodSig, Reserve, ReserveFails, HandlerAborts,
       Initialise, Commit, CommitWrapperFails, UntracedFill, CopyString, Flip, SignalLowMemory
<1>e. Same /\ Chosen' = Chosen /\ Block(asked)' = Block(asked) /\ RequestInv'
  BY <1>a, <1>d, PrimitiveStays, Zenon DEF Same, allocationVars
<1>f. asked' = asked /\ request' = request /\ collector' = collector
  BY <1>e, Zenon DEF Same
<1> USE <1>f
(* What has to be shown of the next state.                                  *)
<1> DEFINE Later(s, o, p, f) ==
             /\ IsObject(o) /\ p \in Nat /\ f \in Nat
             /\ collector # "mps" => p = 0
             /\ s = "init" => o = Block(asked)
             /\ s = "commit" =>
                  /\ request.fn # "closure" /\ collector = "mps"
                  /\ \E at : /\ o = Initialised(Block(asked), Chosen, asked, at)
                             /\ f = 0 => at = p
             /\ s = "made" => request.fn = "closure" /\ (Chosen.pool.scanned => PlainCells(o))
             /\ s \in {"untraced", "copy", "done"} /\ Chosen.pool.scanned => SoundCells(request, asked, o, p)
<1>g. ASSUME Later(step', object', place', flips') PROVE AllocatedInv'
  <2>1. Block(asked') = Block(asked)' /\ Block(asked') = Block(asked)
    BY <1>e, Zenon
  <2> QED
    BY <1>e, <1>g, Zenon DEF AllocatedInv
<1>h. 0 \in Nat
  OBVIOUS
<1>1. CASE MakeClosure
  <2> DEFINE made == SetSignature(request, CopySchema(request, object))
  <2>1. /\ step = "init" /\ request.fn = "closure" /\ step' \in {"made", "done"}
        /\ object' = made \/ object' = init_environment(request, made)
        /\ step' = "made" => object' = made
        /\ place' = place /\ flips' = flips
    BY <1>1, Zenon DEF MakeClosure, Step
  <2>2. IsObject(made) /\ object = Block(asked)
    BY <1>a, <2>1, ClosureIsObject, Zenon
  <2>3. Chosen.pool.scanned => PlainCells(made)
    BY <1>a, <2>1, <2>2, ClosureIsPlain, Zenon
  <2> HIDE DEF made
  <2>4. IsObject(object')
    BY <2>1, <2>2, WriteIsObject, Zenon DEF init_environment
  <2>5. Chosen.pool.scanned => PlainCells(object')
    BY <2>1, <2>2, <2>3, EnvironmentIsPlain, Zenon
  <2>6. Later(step', object', place', flips')
    BY <1>a, <2>1, <2>4, <2>5, PlainCellsAreSound, Zenon
  <2> QED
    BY <1>g, <2>6, Zenon
<1>2. CASE InitClosure
  <2>1. /\ step = "made" /\ step' = "done" /\ object' = init_environment(request, object)
        /\ place' = place /\ flips' = flips
    BY <1>2, Zenon DEF InitClosure, Step
  <2>2. IsObject(object')
    BY <2>1, WriteIsObject, Zenon DEF init_environment
  <2>3. Chosen.pool.scanned => PlainCells(object')
    BY <1>a, <2>1, EnvironmentIsPlain, Zenon
  <2>4. Later(step', object', place', flips')
    BY <1>a, <2>1, <2>2, <2>3, PlainCellsAreSound, Zenon
  <2> QED
    BY <1>g, <2>4, Zenon
<1>3. CASE SetMethodSig
  <2>1. /\ step' = "done" /\ object' = SetSignature(request, CopySchema(request, Block(asked)))
        /\ place' = place /\ flips' = flips /\ request.fn = "closure"
    BY <1>3, Zenon DEF SetMethodSig, Step, Static
  <2>2. IsObject(object') /\ (Chosen.pool.scanned => PlainCells(object'))
    BY <1>a, <2>1, ClosureIsObject, ClosureIsPlain, Zenon
  <2>3. Later(step', object', place', flips')
    BY <1>a, <2>1, <2>2, PlainCellsAreSound, Zenon
  <2> QED
    BY <1>g, <2>3, Zenon
<1>4. CASE Reserve
  <2>1. Later(step', object', place', flips')
    BY <1>4, <1>a, <1>h, BlockIsObject, Zenon DEF Reserve, Step
  <2> QED
    BY <1>g, <2>1, Zenon
<1>5. CASE ReserveFails \/ HandlerAborts \/ CommitWrapperFails \/ (\E permit \in BOOLEAN : SignalLowMemory(permit))
  <2>1. /\ step' \in {"signal", "permit", "reserve", "aborted"}
        /\ object' = object /\ place' = place /\ flips' = flips
    BY <1>5, Zenon DEF ReserveFails, HandlerAborts, CommitWrapperFails, SignalLowMemory, Step
  <2>2. Later(step', object', place', flips')
    BY <1>a, <2>1, Zenon
  <2> QED
    BY <1>g, <2>2, Zenon
<1>6. CASE Initialise
  <2>1. /\ step = "init" /\ request.fn # "closure" /\ place' = place /\ flips' = flips
        /\ IF collector = "mps" THEN step' = "commit" ELSE step' = "untraced"
        /\ object' = Initialised(object, Chosen, asked, place)
    BY <1>6, Zenon DEF Initialise, Step
  <2>2. object' = Initialised(Block(asked), Chosen, asked, place)
    BY <1>a, <2>1, Zenon
  <2>3. IsObject(object') /\ (Chosen.pool.scanned => SoundCells(request, asked, object', place))
    BY <1>a, <2>1, <2>2, PreparedIsObject, BlockIsSound, Zenon
  <2>4. Later(step', object', place', flips')
    BY <1>a, <2>1, <2>2, <2>3, Zenon
  <2> QED
    BY <1>g, <2>4, Zenon
<1>7. CASE Commit
  <2>1. /\ step = "commit" /\ object' = object /\ place' = place /\ flips' = flips
        /\ IF Chosen.pool.moving /\ flips > 0 THEN step' = "reserve" ELSE step' = "untraced"
    BY <1>7, Zenon DEF Commit, Step
  <2>2. PICK at : object = Initialised(Block(asked), Chosen, asked, at) /\ (flips = 0 => at = place)
    BY <1>a, <2>1, Zenon
  <2>3. flips > 0 \/ flips = 0
    BY <1>a
  <2>4. ASSUME step' = "untraced", Chosen.pool.scanned PROVE SoundCells(request, asked, object, place)
    <3>1. CASE ~Chosen.pool.moving
      BY <1>a, <2>1, <2>2, <2>4, <3>1, BlockIsSound, Zenon
    <3>2. CASE flips = 0
      BY <1>a, <2>1, <2>2, <2>4, <3>2, BlockIsSound, Zenon
    <3> QED
      BY <2>1, <2>3, <2>4, <3>1, <3>2, Zenon
  <2>5. step' \in {"reserve", "untraced"}
    BY <2>1, Zenon
  <2>6. Later(step', object', place', flips')
    BY <1>a, <2>1, <2>4, <2>5, Zenon
  <2> QED
    BY <1>g, <2>6, Zenon
<1>8. CASE UntracedFill
  <2>1. /\ step = "untraced" /\ step' \in {"copy", "done"} /\ place' = place /\ flips' = flips
        /\ object' = UntracedFilled(object, Chosen, asked)
    BY <1>8, Zenon DEF UntracedFill, Step
  <2>2. IsObject(object') /\ (Chosen.pool.scanned => SoundCells(request, asked, object', place))
    BY <1>a, <1>c, <2>1, UntracedIsSound, Zenon
  <2>3. Later(step', object', place', flips')
    BY <1>a, <2>1, <2>2, Zenon
  <2> QED
    BY <1>g, <2>3, Zenon
<1>9. CASE CopyString
  <2>1. /\ step = "copy" /\ step' = "done" /\ place' = place /\ flips' = flips
        /\ object' = Copied(object, asked.rep_size_slot + 1, asked.rep_size)
    BY <1>9, Zenon DEF CopyString, Step
  <2>2. IsObject(object') /\ (Chosen.pool.scanned => SoundCells(request, asked, object', place))
    BY <1>a, <2>1, CopyIsSound, Zenon
  <2>3. Later(step', object', place', flips')
    BY <1>a, <2>1, <2>2, Zenon
  <2> QED
    BY <1>g, <2>3, Zenon
<1>10. CASE Flip
  <2> DEFINE moved == [i \in DOMAIN object.cells |->
                        IF object.cells[i].is = "reference" THEN Reference(place + 1) ELSE object.cells[i]]
  <2>1. /\ collector = "mps" /\ place' = place + 1 /\ flips' = flips + 1 /\ step' = step
        /\ object' = IF step \in {"untraced", "copy", "done"} /\ Chosen.pool.scanned
                     THEN [object EXCEPT !.cells = moved] ELSE object
    BY <1>10, Zenon DEF Flip
  <2>2. place' \in Nat /\ flips' \in Nat /\ flips' # 0
    BY <1>a, <2>1
  <2>3. ASSUME step \in {"untraced", "copy", "done"}, Chosen.pool.scanned
        PROVE  IsObject(object') /\ SoundCells(request, asked, object', place')
    <3>1. SoundCells(request, asked, object, place)
      BY <1>a, <2>3, Zenon
    <3>2. object' = [object EXCEPT !.cells = moved]
      BY <2>1, <2>3, Zenon
    <3>3. DOMAIN moved = DOMAIN object.cells
      OBVIOUS
    <3>4. ASSUME NEW i \in DOMAIN moved PROVE SoundWord(moved[i], place + 1, Needed(request, asked, i))
      <4>1. SoundWord(object.cells[i], place, Needed(request, asked, i))
        BY <3>1, <3>3, Zenon DEF SoundCells
      <4>2. CASE object.cells[i].is = "reference"
        BY <3>3, <4>2, ReferenceIsSound
      <4>3. CASE object.cells[i].is # "reference"
        BY <3>3, <4>1, <4>3 DEF SoundWord
      <4> QED
        BY <4>2, <4>3
    <3> HIDE DEF moved
    <3>5. object'.cells = moved /\ IsObject(object')
      BY <1>a, <3>2 DEF IsObject
    <3> QED
      BY <2>1, <3>4, <3>5, Zenon DEF SoundCells
  <2>4. Later(step', object', place', flips')
    BY <1>a, <1>b, <2>1, <2>2, <2>3, Zenon
  <2> QED
    BY <1>g, <2>4, Zenon
<1>11. CASE UNCHANGED allocationVars
  <2>1. Later(step', object', place', flips')
    BY <1>a, <1>11, Zenon DEF allocationVars
  <2> QED
    BY <1>g, <2>1, Zenon
<1> QED
  BY <1>1, <1>2, <1>3, <1>4, <1>5, <1>6, <1>7, <1>8, <1>9, <1>10, <1>11, Zenon DEF NextAllocation

\* While an object is allocated, the block is as the step the allocation has
\* reached left it, and sound from its commit on.
THEOREM AllocationInvariant == SpecAllocation => []AllocatedInv
BY AllocationInit, AllocationNext, PTL DEF SpecAllocation

\* In a committed object of a pool that is scanned every word the collector
\* would follow was written, and references are to where the object is, for
\* every collector, every size of object and any number of collections
\* (alloc_internal; reserve_memory_for_object and the MMCommit functions).
THEOREM CommittedObjectsAreSound == SpecAllocation => []CommittedIsSound
<1>1. AllocatedInv => CommittedIsSound
  <2> SUFFICES ASSUME AllocatedInv, step \in {"untraced", "copy", "done"}, Chosen.pool.scanned, NEW i \in DOMAIN object.cells
               PROVE  /\ object.cells[i].is = "reference" => object.cells[i].n = place
                      /\ (request.fn # "direct" /\ (i < Header(asked) \/ request.type = "object"))
                           => object.cells[i] # Junk
    BY Zenon DEF CommittedIsSound
  <2>1. SoundCells(request, asked, object, place)
    BY Zenon DEF AllocatedInv
  <2> QED
    BY <2>1, Zenon DEF SoundCells, SoundWord, Needed
<1> QED
  BY <1>1, AllocationInvariant, PTL
==============================================================================
