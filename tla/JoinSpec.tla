------------------------------ MODULE JoinSpec ------------------------------
(***************************************************************************)
(* What join-thread promises, with no flags, no lock and no condition      *)
(* variable.  A call waits for one thread of a set.  It may only be        *)
(* accepted when no member of the set is already being waited for or has   *)
(* already been joined, it may only be refused when some member is or has, *)
(* and an accepted call ends by taking one completed member for itself.    *)
(***************************************************************************)
CONSTANTS Caller,   \* the threads that call join-thread
          Worker    \* the threads that can be joined

VARIABLES done,     \* workers that have completed
          taken,    \* workers that some join has returned
          pending,  \* pending[c]: the workers c is waiting for, {} if none
          outcome   \* outcome[c]: how c's last join ended

vars == <<done, taken, pending, outcome>>

Init == /\ done = {}
        /\ taken = {}
        /\ pending = [c \in Caller |-> {}]
        /\ outcome = [c \in Caller |-> "none"]

\* Somebody else waits for w, or it was already joined: w is not to be had.
Claimed(w) == w \in taken \/ \E c \in Caller : w \in pending[c]

Complete(w) == /\ done' = done \cup {w}
               /\ UNCHANGED <<taken, pending, outcome>>

Refuse(c, S) == /\ pending[c] = {}
                /\ \E w \in S : Claimed(w)
                /\ outcome' = [outcome EXCEPT ![c] = "error"]
                /\ UNCHANGED <<done, taken, pending>>

Accept(c, S) == /\ pending[c] = {}
                /\ \A w \in S : ~Claimed(w)
                /\ pending' = [pending EXCEPT ![c] = S]
                /\ outcome' = [outcome EXCEPT ![c] = "none"]
                /\ UNCHANGED <<done, taken>>

Take(c, w) == /\ w \in pending[c] \cap done
              /\ taken' = taken \cup {w}
              /\ pending' = [pending EXCEPT ![c] = {}]
              /\ outcome' = [outcome EXCEPT ![c] = "joined"]
              /\ UNCHANGED done

\* A call that finds a completed member on entry never waits.
AcceptAndTake(c, S, w) == /\ pending[c] = {}
                          /\ \A v \in S : ~Claimed(v)
                          /\ w \in S \cap done
                          /\ taken' = taken \cup {w}
                          /\ outcome' = [outcome EXCEPT ![c] = "joined"]
                          /\ UNCHANGED <<done, pending>>

Next == \/ \E w \in Worker : Complete(w)
        \/ \E c \in Caller, S \in SUBSET Worker :
              \/ Refuse(c, S)
              \/ Accept(c, S)
              \/ \E w \in Worker : AcceptAndTake(c, S, w)
        \/ \E c \in Caller, w \in Worker : Take(c, w)

Spec == Init /\ [][Next]_vars
=============================================================================
