------------------------------- MODULE MCRunTime -------------------------------
(***************************************************************************)
(* The run-time library of the C back end: one call of every method and    *)
(* generic function of a small program, in every way, with lists of        *)
(* arguments that repeat and misplace keywords; or one allocation of every *)
(* kind of object, over each of the collectors; or one call of every       *)
(* primitive on machine words; or blocks entered and left in every way.    *)
(***************************************************************************)
EXTENDS EngineNodes, Allocation, MachineWord, NonLocalExit

CONSTANTS v, w, k1, k2

Arguments == {v, w, k1, k2}
Special == {v}                       \* a class with the one instance v
WrapperClass == [x \in Arguments |-> IF x \in Special THEN "special" ELSE "other"]
BoundedLists == UNION {[1 .. n -> {v, w, k1}] : n \in 0 .. 2}
                \cup {<<v>> \o s : s \in [1 .. 2 -> {v, w, k1}]} \cup {<<w>> \o s : s \in [1 .. 2 -> {v, k1}]}
                \cup {<<v, k1>> \o s : s \in [1 .. 2 -> {w, k1, k2}]}
                \cup {s \o <<k1, v, k1, w>> : s \in {<<>>, <<v>>, <<w>>}}
                \cup {<<w, v, k1>> \o s : s \in [1 .. 2 -> {v, k1}]}
                \cup {[i \in 1 .. n |-> v] : n \in {ApplyLimit + 1}}

Meth(r, rest, keys, special) ==
  [kind |-> "method", required |-> r, rest |-> rest, keys |-> keys,
   types |-> [i \in 1 .. r |-> IF i \in special THEN Special ELSE Arguments]]
Methods == {Meth(r, rest, keys, s) : r \in 0 .. 3, rest \in BOOLEAN,
                                     keys \in {<<>>, <<k2, k1>>}, s \in {{}, {1}, {2}, {1, 2}}}

Known(kind, m) == CASE kind = "explicit" -> {k1} [] kind = "implicit" -> ToSet(m.keys) [] OTHER -> Arguments
LeafKinds(m) == IF Keyed(m) THEN {"explicit", "implicit", "unrestricted"} ELSE {"bare", "unkeyed"}
Leaf(kind, m, data) ==
  IF kind = "bare" THEN m ELSE [kind |-> kind, meth |-> m, data |-> data, keywords |-> Known("explicit", m)]

(* Trees for methods that specialize one argument, with or without a method *)
(* for all objects as well.                                                 *)
Trees(special, general, kind, i) ==
  LET both == Leaf(kind, special, <<general>>)  none == Leaf(kind, general, <<>>)
      alone == Leaf(kind, special, <<>>)
      two == <<special, general>>
  IN  {<<[kind |-> "if_type", argnum |-> i, type |-> Special, then |-> both, else |-> none], two>>,
       <<[kind |-> "discriminate", argnum |-> i,
          table |-> [x \in Arguments |-> IF x \in Special THEN both ELSE none]], two>>,
       <<[kind |-> "monomorphic", argnum |-> i, key |-> "special", wrapper |-> WrapperClass, next |-> both], two>>,
       <<[kind |-> "typecheck", argnum |-> i, type |-> Special, next |-> alone], <<special>>>>,
       <<[kind |-> "cache_header",
          next |-> [kind |-> "typecheck", argnum |-> i, type |-> Special, next |-> alone]], <<special>>>>,
       <<[kind |-> "profiling_cache_header",
          next |-> [kind |-> "if_type", argnum |-> i, type |-> Special, then |-> both, else |-> none]], two>>}
  \cup {<<none, <<general>>>>, <<[kind |-> "cache_header", next |-> none], <<general>>>>,
        <<[kind |-> "ambiguous_methods"], two>>}

Shapes == {x \in (1 .. 3) \X (1 .. 3) \X BOOLEAN \X {<<>>, <<k2, k1>>} : x[2] <= x[1]}

Gf(m, kind, tree) ==
  [kind |-> "gf", required |-> m.required, optionals |-> OptionalsP(m), engine |-> tree[1],
   methods |-> tree[2], bare |-> kind = "bare", known |-> Known(kind, m),
   xep |-> PrimitiveSetGenericFunctionEntrypoints(m.required, OptionalsP(m))]

Gfs ==
  UNION {LET m == Meth(x[1], x[3], x[4], {x[2]})
         IN  UNION {{Gf(m, kind, tree) : tree \in Trees(m, Meth(x[1], x[3], x[4], {}), kind, x[2])}
                    : kind \in LeafKinds(m)}
         : x \in Shapes}

Calls(f, args) ==
  LET checked == CountIsRight(f, args) /\ Len(args) <= ApplyLimit
      hows == {"CALL", "primitive_xep_apply", "primitive_apply", "primitive_apply_spread",
               "call_dylan_function_returning_all_values"} \cup
              (IF ~checked THEN {}
               ELSE IF f.kind = "gf" THEN {"CONGRUENT_CALL", "primitive_engine_node_apply",
                                             "primitive_engine_node_apply_spread"}
               ELSE IF ~Applicable(f, args) \/ (Keyed(f) /\ (Len(args) - f.required) % 2 = 1)
                 THEN {} ELSE MepApplies)
  IN  {[how |-> how, fn |-> f, args |-> args, next |-> <<f>>] : how \in hows}

(* What is passed: the spread forms get half of the arguments in a vector.  *)
Given(how, args) ==
  LET half == Len(args) \div 2
  IN  CASE how = "primitive_apply" -> <<Vector(args)>>
        [] how \in {"primitive_apply_spread", "primitive_mep_apply_spread", "primitive_engine_node_apply_spread"} ->
             Append(SubSeq(args, 1, half), Vector(SubSeq(args, half + 1, Len(args))))
        [] OTHER -> args

InitCalls ==
  /\ \E f \in Methods \cup Gfs, args \in BoundedLists : call \in Calls(f, args)
  /\ \E count \in IF call.fn.kind = "gf" /\ call.how = "CALL" THEN Counts ELSE {0} : teb = InitTeb(count)
  /\ LET given == Given(call.how, call.args)
     IN  at = [ep |-> call.how, fn |-> call.fn, n |-> Len(given), a |-> given]
  /\ profile = [count1 |-> CountLimit - 1, count2 |-> 0]

(* Words of eight bits: the ends of the range, the smallest divisors of     *)
(* both signs, half a word and some numbers between.                        *)
EdgeWords == {-128, -127, -64, -3, -1, 0, 1, 2, 3, 16, 85}
TriedWords == EdgeWords \cup {x \in -128 .. 127 : x % 13 = 1}

VARIABLE part   \* the part of the library that runs

vars == <<part, dispatchVars, allocationVars, wordVars, nlxVars>>

(* What a part that does not run holds.                                     *)
NoCall ==
  /\ call = [how |-> "", args |-> <<>>] /\ at = [ep |-> "idle"]
  /\ teb = InitTeb(0) /\ profile = [count1 |-> 0, count2 |-> 0]

NoAllocation ==
  /\ collector = "" /\ request = <<>> /\ asked = <<>> /\ step = "" /\ object = <<>>
  /\ place = 0 /\ flips = 0

NoWord == build = "" /\ word = Call("", "", "", 0, 0, 0) /\ answer = "none" /\ out = <<>>
NoExit == InitExits /\ result = Unset

Init ==
  \/ part = "calls" /\ InitCalls /\ NoAllocation /\ NoWord /\ NoExit
  \/ part = "allocation" /\ InitAllocation /\ NoCall /\ NoWord /\ NoExit
  \/ part = "words" /\ InitWords /\ NoCall /\ NoAllocation /\ NoExit
  \/ part = "exits" /\ InitExits /\ NoCall /\ NoAllocation /\ NoWord

Next ==
  /\ UNCHANGED part
  /\ \/ part = "calls" /\ NextDispatch /\ UNCHANGED <<allocationVars, wordVars, nlxVars>>
     \/ part = "allocation" /\ NextAllocation /\ UNCHANGED <<dispatchVars, wordVars, nlxVars>>
     \/ part = "words" /\ NextWords /\ UNCHANGED <<dispatchVars, allocationVars, nlxVars>>
     \/ part = "exits" /\ NextExits /\ UNCHANGED <<dispatchVars, allocationVars, wordVars>>

Spec == Init /\ [][Next]_vars
================================================================================
