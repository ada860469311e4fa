--------------------------- MODULE CallingConvention ---------------------------
(***************************************************************************)
(* How a call reaches the body of a method in the run-time of the C back   *)
(* end (c-run-time.c): external entry points check and rearrange the       *)
(* arguments, method entry points process keywords.  Entry points call     *)
(* each other in tail position and pass part of what they know in the TEB, *)
(* whose registers and argument buffers survive from call to call.         *)
(*                                                                         *)
(* A test of an argument's type calls the type's instance? function        *)
(* (run-time.h:867), and a discriminator its callback.  Both are Dylan     *)
(* code, which may make calls of its own and leave what these left in the  *)
(* TEB.                                                                    *)
(*                                                                         *)
(* Argument counts the code writes out by hand are constants: xep_0 to     *)
(* xep_9 are Numbered = 9, switch cases up to 64 are ApplyLimit = 64.      *)
(***************************************************************************)
EXTENDS Naturals, Sequences, FiniteSets, SequencesExt

CONSTANTS Numbered,      \* most arguments of an entry point written out (9)
          ApplyLimit,    \* most arguments an apply can pass (64)
          MaxArguments,  \* MAX_ARGUMENTS, the size of each buffer (256)
          Values,        \* the values passed as arguments, keywords included
          Garbage,       \* what a read past the arguments returns
          Counts,        \* the argument counts that other calls leave behind
          False          \* DFALSE, no next methods

ASSUME CallingAssumption ==
  {Numbered, ApplyLimit, MaxArguments} \cup Counts \subseteq Nat /\ Numbered <= ApplyLimit

VARIABLES call,   \* the call made by the program
          teb,    \* the registers and buffers of the thread; overwritten
                  \* (history) once Dylan code run during the call changed them
          at      \* the entry point running and its C arguments

callVars == <<call, teb, at>>

(* A method: its number of required arguments, their types, whether it has  *)
(* a rest parameter, its keywords in order.  Types are sets of values.      *)
Keyed(f) == f.keys # <<>>
OptionalsP(f) == f.rest \/ Keyed(f)

(* A vector made from a buffer, on the heap or on the stack.                *)
Vector(s) == [vector |-> s]
VectorData(v) == v.vector
IsVector(v) == v \notin Values \cup {Garbage}
Default(k) == [default |-> k]

InitTeb(count) ==
  LET empty == [i \in 1 .. MaxArguments |-> Garbage]
  IN  [function |-> Garbage, next_methods |-> Garbage, argument_count |-> count,
       arguments |-> empty, new_arguments |-> empty, a |-> empty, iep_a |-> empty,
       apply_buffer |-> empty, buffer |-> empty, overwritten |-> FALSE]

(* What calls made meanwhile leave.                                         *)
Overwritten == {[InitTeb(count) EXCEPT !.overwritten = TRUE] : count \in Counts}

(* va_arg: the i-th C argument.                                             *)
Arg(a, i) == IF i <= Len(a) THEN a[i] ELSE Garbage

(* Items copied into a buffer at an offset.                                 *)
TransferVarargs(buffer, n, offset, a) ==
  [i \in DOMAIN buffer |-> IF i > offset /\ i <= offset + n THEN Arg(a, i - offset) ELSE buffer[i]]

First(buffer, n) == [i \in 1 .. n |-> buffer[i]]
FromTo(buffer, m, n) == [i \in 1 .. (IF n < m THEN 0 ELSE n - m + 1) |-> buffer[m + i - 1]]

Goto(ep, f, n, a) == at' = [ep |-> ep, fn |-> f, n |-> n, a |-> a]
Signal(condition) == Goto(condition, at.fn, at.n, at.a)
Body(f, frame) == Goto("body", f, Len(frame), frame)
WithFunction(t, f, next) == [t EXCEPT !.function = f, !.next_methods = next]

--------------------------------------------------------------------------------
(* The checks of a call: "ok" or the error signalled.                       *)

CallCheck(n) == IF n > MaxArguments THEN "argument-count-overflow-error" ELSE "ok"

TypeCheckArgs(f, count, a) ==
  IF \A i \in 1 .. count : Arg(a, i) \in f.types[i] THEN "ok" ELSE "type-check-error"

(* The parameters whose type is not <object>, the only ones tested.         *)
Specialized(f) == {i \in 1 .. f.required : f.types[i] # Values}

(* What the type checks of arguments lead to.  Arguments in C variables are *)
(* tested once and as they are.  Those in a buffer of the TEB are tested    *)
(* `times' over, and once a test has run Dylan code the next ones read      *)
(* whatever the buffer holds then, so that they go either way.              *)
TypeChecks(f, count, t, a, times) ==
  LET tested == Specialized(f)
      first  == CHOOSE i \in tested : \A j \in tested : i <= j
      whole  == TypeCheckArgs(f, count, a)
      either == Cardinality(tested) * times > 1 /\ Arg(a, first) \in f.types[first]
  IN  {[check |-> whole, teb |-> t]} \cup
      {[check |-> check, teb |-> after] :
         after \in IF tested = {} THEN {} ELSE Overwritten,
         check \in IF either THEN {"ok", "type-check-error"} ELSE {whole}}

Else(check, next) == IF check # "ok" THEN check ELSE next

BasicRequiredCallCheck(f, n) ==
  Else(CallCheck(n), IF n # f.required THEN "argument-count-error" ELSE "ok")
RequiredCallCheck(f, n, t, a, times) ==
  LET count == BasicRequiredCallCheck(f, n)
  IN  IF count # "ok" THEN {[check |-> count, teb |-> t]} ELSE TypeChecks(f, n, t, a, times)

BasicOptionalCallCheck(f, n) ==
  Else(CallCheck(n), IF n < f.required THEN "argument-count-error" ELSE "ok")
OptionalCallCheck(f, n, t, a, times) ==
  LET count == BasicOptionalCallCheck(f, n)
  IN  IF count # "ok" THEN {[check |-> count, teb |-> t]} ELSE TypeChecks(f, f.required, t, a, times)

KeywordCallCheck(f, n, t, a, times) ==
  {[r EXCEPT !.check = Else(@, IF (n - f.required) % 2 = 1 THEN "odd-keyword-arguments-error" ELSE "ok")]
   : r \in OptionalCallCheck(f, n, t, a, times)}

Refuse(check) == check # "ok" /\ Signal(check) /\ UNCHANGED teb

--------------------------------------------------------------------------------
(* Which entry points the C back end gives a function.                     *)

XepOf(f) ==
  CASE f.kind = "gf" -> f.xep
    [] f.kind = "method" /\ Keyed(f) ->
         IF f.required + 1 + Len(f.keys) <= Numbered THEN "rest_key_xep_N" ELSE "rest_key_xep"
    [] f.kind = "method" /\ ~Keyed(f) /\ f.rest ->
         IF f.required <= Numbered THEN "rest_xep_N" ELSE "rest_xep"
    [] OTHER -> IF f.required <= Numbered THEN "xep_N" ELSE "xep"

MepOf(f) ==
  IF ~Keyed(f) THEN "iep"
  ELSE IF f.required + 1 + Len(f.keys) <= Numbered THEN "key_mep_N" ELSE "key_mep"

CallMep(f, a) == Goto(MepOf(f), f, Len(a), a)

(* A mep without keywords is the body.                                      *)
Iep == at.ep = "iep" /\ Body(at.fn, at.a) /\ UNCHANGED teb

--------------------------------------------------------------------------------
(* External entry points of methods.                                        *)

XepNumbered ==
  LET f == at.fn
  IN  /\ at.ep = "xep_N"
      /\ \E r \in RequiredCallCheck(f, at.n, teb, at.a, 0) :
           \/ r.check # "ok" /\ Signal(r.check) /\ teb' = r.teb
           \/ r.check = "ok" /\ teb' = WithFunction(r.teb, f, False) /\ Body(f, First(at.a, f.required))

(* The general form leaves function and next_methods as they were.          *)
Xep ==
  LET f == at.fn
      buffered == TransferVarargs(teb.arguments, at.n, 0, at.a)
  IN  /\ at.ep = "xep"
      /\ \E r \in RequiredCallCheck(f, at.n, [teb EXCEPT !.arguments = buffered], buffered, 1) :
           /\ teb' = r.teb
           /\ \/ r.check # "ok" /\ Signal(r.check)
              \/ r.check = "ok" /\ Body(f, First(r.teb.arguments, at.n))

RestXepNumbered ==
  LET f == at.fn
      count == IF at.n < f.required THEN 0 ELSE at.n - f.required
      buffered == TransferVarargs(teb.arguments, count, 0, SubSeq(at.a, f.required + 1, Len(at.a)))
  IN  /\ at.ep = "rest_xep_N"
      /\ \E r \in OptionalCallCheck(f, at.n, [teb EXCEPT !.arguments = buffered], at.a, 0) :
           \/ r.check # "ok" /\ Signal(r.check) /\ teb' = r.teb
           \/ /\ r.check = "ok"
              /\ teb' = WithFunction(r.teb, f, False)
              /\ Body(f, Append(First(at.a, f.required), Vector(First(r.teb.arguments, count))))

RestXep ==
  LET f == at.fn
      buffered == TransferVarargs(teb.arguments, at.n, 0, at.a)
      staged(t) == [TransferVarargs(t.new_arguments, f.required, 0, First(t.arguments, f.required))
                      EXCEPT ![f.required + 1] = Vector(FromTo(t.arguments, f.required + 1, at.n))]
  IN  /\ at.ep = "rest_xep"
      /\ \E r \in OptionalCallCheck(f, at.n, [teb EXCEPT !.arguments = buffered], buffered, 1) :
           \/ r.check # "ok" /\ Signal(r.check) /\ teb' = r.teb
           \/ /\ r.check = "ok"
              /\ teb' = WithFunction([r.teb EXCEPT !.new_arguments = staged(r.teb)], f, False)
              /\ Body(f, First(staged(r.teb), f.required + 1))

--------------------------------------------------------------------------------
(* Keywords.  The defaults are stored first, then the keyword arguments     *)
(* from the last to the first, each in the place of its parameter.          *)

DefaultArguments(staged, f, required) ==
  [i \in DOMAIN staged |->
     IF i <= f.required THEN required[i]
     ELSE IF i > f.required + 1 /\ i <= f.required + 1 + Len(f.keys)
       THEN Default(f.keys[i - f.required - 1]) ELSE staged[i]]

(* Mutant: the keyword arguments are stored from the first to the last.     *)
ProcessKeywordParameters_forward(staged, f, optionals) ==
  LET store(buffer, p) ==
        LET places == {k \in DOMAIN f.keys : f.keys[k] = optionals[2 * p - 1]}
        IN  IF places = {} THEN buffer
            ELSE [buffer EXCEPT ![f.required + 1 + (CHOOSE k \in places : \A l \in places : k <= l)]
                                  = optionals[2 * p]]
  IN  FoldLeft(store, staged, [p \in 1 .. Len(optionals) \div 2 |-> p])

ProcessKeywordParameters(staged, f, optionals) ==
  LET store(buffer, p) ==
        LET places == {k \in DOMAIN f.keys : f.keys[k] = optionals[2 * p - 1]}
        IN  IF places = {} THEN buffer
            ELSE [buffer EXCEPT ![f.required + 1 + (CHOOSE k \in places : \A l \in places : k <= l)]
                                  = optionals[2 * p]]
  IN  FoldLeft(store, staged, Reverse([p \in 1 .. Len(optionals) \div 2 |-> p]))

ProcessKeywordCallInto(staged, f, required, optionals) ==
  [ProcessKeywordParameters(DefaultArguments(staged, f, required), f, optionals)
     EXCEPT ![f.required + 1] = Vector(optionals)]

(* The call is checked here and once more in process_keyword_call...        *)
KeywordXep(ep) ==
  LET f == at.fn
      buffered == TransferVarargs(teb.arguments, at.n, 0, at.a)
      staged(t) == ProcessKeywordCallInto(t.new_arguments, f, t.arguments,
                                          FromTo(t.arguments, f.required + 1, at.n))
  IN  /\ at.ep = ep
      /\ \E r \in KeywordCallCheck(f, at.n, [teb EXCEPT !.arguments = buffered], buffered, 2) :
           \/ r.check # "ok" /\ Signal(r.check) /\ teb' = r.teb
           \/ /\ r.check = "ok"
              /\ teb' = WithFunction([r.teb EXCEPT !.new_arguments = staged(r.teb)], f, False)
              /\ Body(f, First(staged(r.teb), f.required + 1 + Len(f.keys)))

RestKeyXepNumbered == KeywordXep("rest_key_xep_N")
RestKeyXep == KeywordXep("rest_key_xep")

(* The arguments of a key_mep are counted by teb.argument_count, which the  *)
(* caller may not have set; the last implementation argument is the vector  *)
(* of the optional arguments.                                               *)
KeyMepFrame(result) ==
  LET f == teb.function
      filled == [TransferVarargs(teb.a, IF teb.argument_count = 0 THEN 0 ELSE teb.argument_count - 1,
                                 1, Tail(at.a)) EXCEPT ![1] = at.a[1]]
      rest == filled[f.required + 1]
  IN  IF ~IsVector(rest) THEN teb' = [teb EXCEPT !.a = filled] /\ Signal("crash")
      ELSE LET staged == ProcessKeywordCallInto(teb[result], f, filled, VectorData(rest))
           IN  /\ teb' = [teb EXCEPT !.a = filled, ![result] = staged]
               /\ Body(f, First(staged, f.required + 1 + Len(f.keys)))

KeyMepNumbered == at.ep = "key_mep_N" /\ KeyMepFrame("iep_a")
KeyMep == at.ep = "key_mep" /\ KeyMepFrame("new_arguments")

--------------------------------------------------------------------------------
(* Calls from compiled code and from primitives.  An apply of more than     *)
(* ApplyLimit arguments stops in the debugger (primitive_break) and goes on *)
(* with the first ApplyLimit of them.                                       *)

Applied(a) == SubSeq(a, 1, IF Len(a) > ApplyLimit THEN ApplyLimit ELSE Len(a))

CallXep == at.ep = "CALL" /\ Goto(XepOf(at.fn), at.fn, at.n, at.a) /\ UNCHANGED teb

PrimitiveXepApply ==
  /\ at.ep = "primitive_xep_apply"
  /\ teb' = WithFunction(teb, at.fn, False)
  /\ Goto(XepOf(at.fn), at.fn, at.n, Applied(at.a))

(* The debugger calls a function in the program, to see its values.         *)
CallDylanFunction ==
  LET buffered == TransferVarargs(teb.arguments, at.n, 0, at.a)
  IN  /\ at.ep = "call_dylan_function_returning_all_values"
      /\ teb' = [teb EXCEPT !.arguments = buffered]
      /\ Goto("primitive_xep_apply", at.fn, at.n, First(buffered, at.n))

(* The last argument of an apply is a sequence of further arguments.        *)
PrimitiveApplyUsingBuffer(t, n, a) ==
  LET last == VectorData(a[n])
      size == n - 1 + Len(last)
      buffered == TransferVarargs(TransferVarargs(t.apply_buffer, n - 1, 0, a), Len(last), n - 1, last)
  IN  /\ teb' = [t EXCEPT !.apply_buffer = buffered]
      /\ Goto("primitive_xep_apply", at.fn, size, First(buffered, size))

PrimitiveApply == at.ep = "primitive_apply" /\ PrimitiveApplyUsingBuffer(teb, at.n, at.a)

(* The spread forms get the arguments of the apply as C arguments.          *)
Buffered == [teb EXCEPT !.buffer = TransferVarargs(teb.buffer, at.n, 0, at.a)]

PrimitiveApplySpread ==
  at.ep = "primitive_apply_spread" /\ PrimitiveApplyUsingBuffer(Buffered, at.n, Buffered.buffer)

(* The vector of all arguments that `ep' gets is made on the stack.         *)
ApplySpread(ep) ==
  LET a == First(Buffered.buffer, at.n - 1) \o VectorData(Buffered.buffer[at.n])
  IN  teb' = Buffered /\ Goto(ep, at.fn, Len(a), a)

PrimitiveMepApplySpread ==
  at.ep = "primitive_mep_apply_spread" /\ ApplySpread("primitive_mep_apply")

PrimitiveMepApplyWithOptionals(f, next, a) ==
  /\ teb' = [WithFunction(teb, f, next) EXCEPT !.argument_count = Len(a)]
  /\ CallMep(f, Applied(a))

(* Arguments in the form a mep takes them: the optional ones in a vector.   *)
Implementation(required, optionals, a) ==
  IF optionals THEN Append(First(a, required), Vector(FromTo(a, required + 1, Len(a)))) ELSE a

PrimitiveMepApply ==
  /\ at.ep = "primitive_mep_apply"
  /\ PrimitiveMepApplyWithOptionals(at.fn, call.next,
                                    Implementation(at.fn.required, OptionalsP(at.fn), at.a))

NextCall ==
  \/ CallXep \/ CallDylanFunction \/ PrimitiveXepApply \/ PrimitiveApply \/ PrimitiveApplySpread
  \/ PrimitiveMepApply \/ PrimitiveMepApplySpread
  \/ Iep \/ XepNumbered \/ Xep \/ RestXepNumbered \/ RestXep
  \/ RestKeyXepNumbered \/ RestKeyXep \/ KeyMepNumbered \/ KeyMep
================================================================================
