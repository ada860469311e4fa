------------------------------ MODULE EngineNodes ------------------------------
(***************************************************************************)
(* Generic-function dispatch in the run-time of the C back end             *)
(* (c-run-time.c).  A generic function has a tree of engine nodes:         *)
(* discriminators and cache headers lead to a terminal node or straight to *)
(* a method.  Up to Spread = 7 implementation arguments are passed spread, *)
(* more in one vector, which has to be spread again for a method.          *)
(***************************************************************************)
EXTENDS CallingConvention

CONSTANTS Spread,      \* most implementation arguments passed spread (7)
          CountLimit   \* values of a profiling counter before it wraps

ASSUME EngineAssumption == Spread \in Nat /\ Spread > 0 /\ Spread <= Numbered /\ CountLimit \in Nat \ {0}

VARIABLE profile   \* count1 and count2 of the profiling cache header

dispatchVars == <<call, teb, at, profile>>

FunctionP(e) == e.kind \in {"method", "gf"}

(* parent_gf walks up from a cache header to its generic function.          *)
ParentGf(parent) == IF FunctionP(parent) THEN parent ELSE call.fn

ImplementationCount(gf) == gf.required + (IF gf.optionals THEN 1 ELSE 0)
IsSpread == ImplementationCount(call.fn) <= Spread

(* The arguments of an engine node, spread or in the one vector it gets.    *)
Received == IF IsSpread THEN at.a ELSE VectorData(at.a[1])

PrimitiveSetGenericFunctionEntrypoints(required, optionals) ==
  IF optionals THEN (IF required < Spread THEN "gf_optional_xep_N" ELSE "gf_optional_xep")
               ELSE (IF required <= Spread THEN "gf_xep_N" ELSE "gf_xep")

--------------------------------------------------------------------------------
(* The entry points given to nodes.                                         *)

PrimitiveInitializeEngineNode(e) ==
  CASE e.kind = "absent" -> "general_engine_node_n"
    [] e.kind \in {"ambiguous_methods", "inapplicable"} -> "general_engine_node_spread"
    [] e.kind = "unkeyed" -> IF IsSpread THEN "single_method_engine_N" ELSE "single_method_engine_n"
    [] e.kind \in {"explicit", "implicit", "unrestricted"} ->
         IF IsSpread THEN "keyed_single_method_engine_N" ELSE "keyed_single_method_engine_n"
    [] OTHER -> "unset"

(* Nothing is set for a cache header of more than Spread arguments.         *)
PrimitiveEnableCacheHeader(e) ==
  IF ~IsSpread THEN "unset"
  ELSE IF e.kind = "cache_header" THEN "cache_header_engine_N" ELSE "profiling_cache_header_engine_N"

IfTypeEntry == IF IsSpread THEN "if_type_N" ELSE "if_type_n"
TypecheckEntry == IF IsSpread THEN "typecheck_N" ELSE "typecheck_n"
MonomorphicEntry == IF IsSpread THEN "monomorphic_N" ELSE "monomorphic_n"
DiscriminateEntry == IF IsSpread THEN "discriminate_N" ELSE "discriminate_n"

PrimitiveInitializeDiscriminator(e) ==
  CASE e.kind = "if_type" -> IfTypeEntry
    [] e.kind = "typecheck" -> TypecheckEntry
    [] e.kind = "monomorphic" -> MonomorphicEntry
    [] OTHER -> DiscriminateEntry

Discriminators == {"if_type", "typecheck", "monomorphic", "discriminate"}
CacheHeaders == {"cache_header", "profiling_cache_header"}

EntryPoint(e) ==
  CASE e.kind = "method" -> MepOf(e)
    [] e.kind \in Discriminators -> PrimitiveInitializeDiscriminator(e)
    [] e.kind \in CacheHeaders -> PrimitiveEnableCacheHeader(e)
    [] OTHER -> PrimitiveInitializeEngineNode(e)

(* The node's entry point is called blindly with the C arguments as they    *)
(* are; through an entry point that was never set the program crashes.      *)
Enter(e, parent, t, a) ==
  /\ teb' = WithFunction(t, e, parent)
  /\ Goto(IF EntryPoint(e) = "unset" THEN "crash" ELSE EntryPoint(e), e, Len(a), a)

(* Where the arguments are in a vector the node may be a method, for which  *)
(* they are spread out.                                                     *)
EnterVector(e, parent, t, impargs) ==
  IF FunctionP(e) THEN /\ teb' = [WithFunction(t, e, parent) EXCEPT !.argument_count = Len(impargs)]
                       /\ CallMep(e, Applied(impargs))
                  ELSE Enter(e, parent, t, <<Vector(impargs)>>)

--------------------------------------------------------------------------------
(* Entry points of generic functions.                                       *)

GfIepNumbered(gf, t, a) == Enter(gf.engine, gf, t, a)
GfIep(gf, t, impargs) == EnterVector(gf.engine, gf, t, impargs)

GfXepNumbered ==
  LET gf == at.fn  check == BasicRequiredCallCheck(gf, at.n)
  IN  /\ at.ep = "gf_xep_N"
      /\ \/ check # "ok" /\ Signal(check) /\ teb' = [teb EXCEPT !.function = gf]
         \/ check = "ok" /\ GfIepNumbered(gf, teb, First(at.a, gf.required))

GfXep ==
  LET gf == at.fn
      buffered == TransferVarargs(teb.arguments, at.n, 0, at.a)
      check == BasicRequiredCallCheck(gf, at.n)
  IN  /\ at.ep = "gf_xep"
      /\ \/ check # "ok" /\ Signal(check) /\ teb' = [teb EXCEPT !.function = gf, !.arguments = buffered]
         \/ check = "ok" /\ GfIep(gf, [teb EXCEPT !.arguments = buffered], First(buffered, gf.required))

(* The buffer a, which the key_meps read too, gets the arguments and then   *)
(* the vector of the optional ones in the place of the first of these.      *)
GfOptionalXepNumbered ==
  LET gf == at.fn
      buffered == TransferVarargs(teb.a, at.n, 0, at.a)
      staged == [buffered EXCEPT ![gf.required + 1] = Vector(FromTo(buffered, gf.required + 1, at.n))]
      check == BasicOptionalCallCheck(gf, at.n)
  IN  /\ at.ep = "gf_optional_xep_N"
      /\ \/ Refuse(check)
         \/ check = "ok" /\ GfIepNumbered(gf, [teb EXCEPT !.a = staged], First(staged, gf.required + 1))

GfOptionalXep ==
  LET gf == at.fn
      buffered == TransferVarargs(teb.arguments, at.n, 0, at.a)
      check == BasicOptionalCallCheck(gf, at.n)
  IN  /\ at.ep = "gf_optional_xep"
      /\ \/ check # "ok" /\ Signal(check) /\ teb' = [teb EXCEPT !.arguments = buffered]
         \/ /\ check = "ok"
            /\ GfIep(gf, [teb EXCEPT !.arguments = buffered],
                     Implementation(gf.required, TRUE, First(buffered, at.n)))

(* A compiled call of a known generic function goes straight to the engine. *)
CongruentCall ==
  LET gf == at.fn  impargs == Implementation(gf.required, gf.optionals, at.a)
  IN  /\ at.ep = "CONGRUENT_CALL" /\ IsSpread
      /\ Enter(gf.engine, gf, [teb EXCEPT !.argument_count = Len(impargs)], impargs)

InlineInvokeEngineNode ==
  LET gf == at.fn  impargs == Implementation(gf.required, gf.optionals, at.a)
  IN  /\ at.ep = "CONGRUENT_CALL" /\ ~IsSpread
      /\ EnterVector(gf.engine, gf, [teb EXCEPT !.argument_count = Len(impargs)], impargs)

PrimitiveEngineNodeApplyWithOptionals(e, parent, impargs) ==
  LET t == [teb EXCEPT !.argument_count = Len(impargs)]
  IN  IF Len(impargs) <= Spread THEN Enter(e, parent, t, impargs)
      ELSE EnterVector(e, parent, t, impargs)

PrimitiveEngineNodeApply ==
  /\ at.ep = "primitive_engine_node_apply"
  /\ LET sig == ParentGf(at.fn)
     IN  PrimitiveEngineNodeApplyWithOptionals(sig.engine, at.fn,
           Implementation(sig.required, sig.optionals, at.a))

PrimitiveEngineNodeApplySpread ==
  at.ep = "primitive_engine_node_apply_spread" /\ ApplySpread("primitive_engine_node_apply")

--------------------------------------------------------------------------------
(* Terminal nodes.  The callback of a general node, a Dylan function, gets  *)
(* a vector of the arguments: as a mep takes them, or all spread out.       *)

Callback(e, parent, a) ==
  at' = [ep |-> "callback", fn |-> e, n |-> Len(a), a |-> a, parent |-> parent]

GeneralEngineNodeN ==
  /\ at.ep = "general_engine_node_n"
  /\ Callback(at.fn, teb.next_methods,
              IF IsSpread THEN [i \in 1 .. ImplementationCount(ParentGf(teb.next_methods)) |-> Arg(at.a, i)]
                          ELSE Received)
  /\ UNCHANGED teb

(* Mutant: the optional arguments stay in their vector.                     *)
GeneralEngineNodeSpread_packed ==
  LET gf == ParentGf(teb.next_methods)
      staged == TransferVarargs(teb.arguments, gf.required + 1, 0, at.a)
      impargs == IF IsSpread THEN First(staged, ImplementationCount(gf)) ELSE Received
  IN  /\ at.ep = "general_engine_node_spread"
      /\ Callback(at.fn, teb.next_methods, impargs)
      /\ teb' = IF gf.optionals /\ IsSpread THEN [teb EXCEPT !.arguments = staged] ELSE teb

GeneralEngineNodeSpread ==
  LET gf == ParentGf(teb.next_methods)
      staged == TransferVarargs(teb.arguments, gf.required + 1, 0, at.a)
      impargs == IF IsSpread THEN First(staged, ImplementationCount(gf)) ELSE Received
  IN  /\ at.ep = "general_engine_node_spread"
      /\ Callback(at.fn, teb.next_methods,
                  IF gf.optionals THEN First(impargs, gf.required) \o VectorData(impargs[gf.required + 1])
                                  ELSE impargs)
      /\ teb' = IF gf.optionals /\ IsSpread THEN [teb EXCEPT !.arguments = staged] ELSE teb

(* Mutant: the node's parent is left in the register of the next methods.   *)
SingleMethodEngineNumbered_parent ==
  LET e == teb.function
  IN  /\ at.ep = "single_method_engine_N"
      /\ teb' = [teb EXCEPT !.function = e.meth]
      /\ CallMep(e.meth, at.a)

SingleMethodEngineNumbered ==
  LET e == teb.function
  IN  /\ at.ep = "single_method_engine_N"
      /\ teb' = WithFunction(teb, e.meth, e.data)
      /\ CallMep(e.meth, at.a)

SingleMethodEngine ==
  LET e == teb.function
  IN  at.ep = "single_method_engine_n" /\ PrimitiveMepApplyWithOptionals(e.meth, e.data, Received)

(* Mutant: an odd number of optional arguments is let through.              *)
CheckExplicitKwds_odd(optionals, known) ==
  IF \A p \in 1 .. Len(optionals) \div 2 : optionals[2 * p - 1] \in known THEN "ok"
  ELSE "invalid-keyword-trap"

(* "ok", "odd" or the first keyword argument that is not among the known.   *)
CheckExplicitKwds(optionals, known) ==
  IF Len(optionals) % 2 = 1 THEN "odd-number-of-keyword-args-trap"
  ELSE IF \A p \in 1 .. Len(optionals) \div 2 : optionals[2 * p - 1] \in known THEN "ok"
  ELSE "invalid-keyword-trap"

CheckUnrestrictedKwds(optionals) ==
  IF Len(optionals) % 2 = 1 THEN "odd-number-of-keyword-args-trap" ELSE "ok"

CheckKeywords(e, optionals) ==
  CASE e.kind = "explicit" -> CheckExplicitKwds(optionals, e.keywords)
    [] e.kind = "implicit" -> CheckExplicitKwds(optionals, ToSet(e.meth.keys))
    [] OTHER -> CheckUnrestrictedKwds(optionals)

KeyedSingleMethodEngineNumbered ==
  LET e == teb.function  check == CheckKeywords(e, VectorData(Last(at.a)))
  IN  /\ at.ep = "keyed_single_method_engine_N"
      /\ \/ Refuse(check)
         \/ check = "ok" /\ teb' = WithFunction(teb, e.meth, e.data) /\ CallMep(e.meth, at.a)

KeyedSingleMethodEngine ==
  LET e == teb.function  check == CheckKeywords(e, VectorData(Last(Received)))
  IN  /\ at.ep = "keyed_single_method_engine_n"
      /\ \/ Refuse(check)
         \/ check = "ok" /\ PrimitiveMepApplyWithOptionals(e.meth, e.data, Received)

--------------------------------------------------------------------------------
(* Cache headers and discriminators.                                        *)

CacheHeaderEngineNumbered ==
  /\ at.ep = "cache_header_engine_N"
  /\ Enter(teb.function.next, teb.function, teb, at.a)

ProfilingCacheHeaderEngineNumbered ==
  /\ at.ep = "profiling_cache_header_engine_N"
  /\ Enter(teb.function.next, teb.function, teb, at.a)

CountCall ==
  profile' = [count1 |-> (profile.count1 + 1) % CountLimit,
              count2 |-> IF (profile.count1 + 1) % CountLimit = 0 THEN profile.count2 + 1 ELSE profile.count2]

Inapplicable == [kind |-> "inapplicable"]
Absent == [kind |-> "absent"]

IfType(d, arg) == IF arg \in d.type THEN d.then ELSE d.else
Typecheck(d, arg) == IF arg \in d.type THEN d.next ELSE Inapplicable
Monomorphic(d, arg) == IF d.key = d.wrapper[arg] THEN d.next ELSE Absent
Discriminate(d, arg) == d.table[arg]

Choice(d, arg) ==
  CASE d.kind = "if_type" -> IfType(d, arg) [] d.kind = "typecheck" -> Typecheck(d, arg)
    [] d.kind = "monomorphic" -> Monomorphic(d, arg) [] OTHER -> Discriminate(d, arg)

(* The choice may have run Dylan code, except where only a key is compared. *)
AfterChoice(d) == {teb} \cup (IF d.kind = "monomorphic" THEN {} ELSE Overwritten)

DiscriminateNumbered(ep) ==
  /\ at.ep = ep
  /\ \E t \in AfterChoice(teb.function) :
       Enter(Choice(teb.function, at.a[teb.function.argnum]), teb.next_methods, t, at.a)

DiscriminateVector(ep) ==
  /\ at.ep = ep
  /\ \E t \in AfterChoice(teb.function) :
       EnterVector(Choice(teb.function, Received[teb.function.argnum]), teb.next_methods, t, Received)

DiscriminateEngine == DiscriminateNumbered("discriminate_N")
DiscriminateEngineN == DiscriminateVector("discriminate_n")
MonomorphicEngine == DiscriminateNumbered("monomorphic_N")
MonomorphicEngineN == DiscriminateVector("monomorphic_n")
IfTypeEngine == DiscriminateNumbered("if_type_N")
IfTypeEngineN == DiscriminateVector("if_type_n")
TypecheckEngine == DiscriminateNumbered("typecheck_N")
TypecheckEngineN == DiscriminateVector("typecheck_n")

NextDispatch ==
  /\ UNCHANGED call
  /\ \/ /\ UNCHANGED profile
        /\ \/ NextCall
           \/ GfXepNumbered \/ GfXep \/ GfOptionalXepNumbered \/ GfOptionalXep
           \/ CongruentCall \/ InlineInvokeEngineNode
           \/ PrimitiveEngineNodeApply \/ PrimitiveEngineNodeApplySpread
           \/ GeneralEngineNodeN \/ GeneralEngineNodeSpread
           \/ SingleMethodEngineNumbered \/ SingleMethodEngine
           \/ KeyedSingleMethodEngineNumbered \/ KeyedSingleMethodEngine
           \/ CacheHeaderEngineNumbered
           \/ DiscriminateEngine \/ DiscriminateEngineN \/ MonomorphicEngine \/ MonomorphicEngineN
           \/ IfTypeEngine \/ IfTypeEngineN \/ TypecheckEngine \/ TypecheckEngineN
     \/ ProfilingCacheHeaderEngineNumbered /\ CountCall

--------------------------------------------------------------------------------
(* What the caller may expect.  A generic function records its methods,     *)
(* the most specific first, and the keywords a call of it may give.         *)

Applicable(m, args) == \A i \in 1 .. m.required : args[i] \in m.types[i]
Selected(gf, args) == SelectSeq(gf.methods, LAMBDA m : Applicable(m, args))
Target == IF call.fn.kind = "gf" THEN Selected(call.fn, call.args)[1] ELSE call.fn

LeftmostValue(k, optionals) ==
  LET given == {p \in 1 .. Len(optionals) \div 2 : optionals[2 * p - 1] = k}
  IN  IF given = {} THEN Default(k)
      ELSE optionals[2 * (CHOOSE p \in given : \A q \in given : p <= q)]

Frame(m, args) ==
  LET optionals == SubSeq(args, m.required + 1, Len(args))
  IN  SubSeq(args, 1, m.required)
        \o (IF OptionalsP(m) THEN <<Vector(optionals)>> ELSE <<>>)
        \o [i \in DOMAIN m.keys |-> LeftmostValue(m.keys[i], optionals)]

CountIsRight(f, args) ==
  IF (IF f.kind = "gf" THEN f.optionals ELSE OptionalsP(f))
    THEN Len(args) >= f.required ELSE Len(args) = f.required

(* The apply of too many arguments and the cache header without entry point *)
(* are known to go wrong.                                                   *)
Ruined == Len(call.args) > ApplyLimit
MepApplies == {"primitive_mep_apply", "primitive_mep_apply_spread"}   \* which check nothing

(* Dylan code run by the type checks of an external entry point that keeps  *)
(* the arguments in the TEB (all but the numbered xeps) costs it these      *)
(* arguments.                                                               *)
Rebuffered == teb.overwritten /\ call.fn.kind = "method" /\ XepOf(call.fn) # "xep_N"

(* The body of a method runs with its required arguments in order, a vector *)
(* of all the others if it takes any, and for each of its keywords the      *)
(* leftmost value given or the default, whichever entry points, buffers and *)
(* nodes the call went through, and it is the method that had to be called. *)
(* Dylan code run during the dispatch of a generic function changes nothing *)
(* in this; run by the type checks of a method's own entry point it spoils  *)
(* the arguments kept in the TEB (c-run-time.c:1209-1211), which for the    *)
(* numbered rest_xeps are only the optional ones.                           *)
BodyGetsItsArguments ==
  at.ep = "body" /\ ~Ruined =>
    /\ at.fn = Target
    /\ ~Rebuffered => at.a = Frame(Target, call.args)
    /\ Rebuffered /\ XepOf(Target) = "rest_xep_N" =>
         SubSeq(at.a, 1, Target.required) = SubSeq(call.args, 1, Target.required)

(* A key_mep takes as many of its arguments as teb.argument_count says,     *)
(* which Dylan code run by a discriminator may have left too low: the       *)
(* vector of optional arguments is then not among them.                     *)
Miscounted ==
  /\ teb.overwritten /\ call.fn.kind = "gf" /\ IsSpread
  /\ Keyed(Target) /\ teb.argument_count <= Target.required

(* An error is signalled only for the call that deserves it, and a body     *)
(* runs only if none is: the count of arguments, their types, an odd number *)
(* of keyword arguments, a keyword the generic function does not know.  The *)
(* types tested are those of the call, unless Dylan code overwrote the      *)
(* arguments between two tests.  Only a cache header of more than Spread    *)
(* arguments crashes, and a key_mep (c-run-time.c:1609) with the count of   *)
(* another call.                                                            *)
ErrorsAreDeserved ==
  LET f == call.fn  args == call.args  optionals == SubSeq(args, f.required + 1, Len(args))
      keys == [p \in 1 .. Len(optionals) \div 2 |-> optionals[2 * p - 1]]
      odd == Keyed(Target) /\ Len(optionals) % 2 = 1
  IN  ~Ruined =>
        /\ at.ep = "argument-count-error" => ~CountIsRight(f, args)
        /\ at.ep = "type-check-error" =>
             CountIsRight(f, args) /\ (Applicable(f, args) => Rebuffered)
        /\ at.ep \in {"odd-keyword-arguments-error", "odd-number-of-keyword-args-trap"} => odd
        /\ at.ep = "invalid-keyword-trap" => ~(ToSet(keys) \subseteq f.known)
        /\ at.ep = "crash" => (at.fn.kind \in CacheHeaders /\ ~IsSpread) \/ Miscounted
        /\ at.ep = "body" =>
             /\ CountIsRight(f, args) /\ (Applicable(Target, args) \/ Rebuffered)
             /\ f.kind = "gf" \/ call.how \notin MepApplies => ~odd
             /\ f.kind = "gf" /\ Keyed(Target) => ToSet(keys) \subseteq f.known

(* The body finds itself in teb.function (its closed-over variables are     *)
(* there) and the methods after it in teb.next_methods; one that was put    *)
(* into the tree bare, as it uses no next methods, finds its parent there.  *)
(* The unnumbered xep sets neither: only an apply sets them for it, and     *)
(* Dylan code run by its type checks changes them again.                    *)
RegistersAreSet ==
  LET unset == call.fn.kind = "method" /\ XepOf(at.fn) = "xep" /\ (call.how = "CALL" \/ teb.overwritten)
  IN  at.ep = "body" /\ ~Ruined /\ ~unset =>
    /\ teb.function = at.fn
    /\ call.fn.kind = "gf" =>
         teb.next_methods = IF ~call.fn.bare THEN Tail(Selected(call.fn, call.args))
                            ELSE IF call.fn.engine.kind \in CacheHeaders THEN call.fn.engine ELSE call.fn
    /\ call.fn.kind = "method" =>
         teb.next_methods = IF call.how \in MepApplies THEN call.next ELSE False

(* A node without a method hands its callback every argument of the call,   *)
(* and is reached only if no method of the generic function applies or the  *)
(* tree has not seen the class of the argument before.                      *)
CallbackGetsTheArguments ==
  at.ep = "callback" /\ ~Ruined =>
    /\ CountIsRight(call.fn, call.args)
    /\ at.fn.kind = "inapplicable" => Selected(call.fn, call.args) = <<>>
    /\ at.a = IF at.fn.kind = "absent"
                 THEN Implementation(call.fn.required, call.fn.optionals, call.args) ELSE call.args

(* However a call goes, through which entry points, buffers and nodes, what *)
(* it ends in has all it needs: the body of the right method its arguments  *)
(* and the registers, a callback of the dispatcher the arguments.           *)
CallsArriveWhole == BodyGetsItsArguments /\ RegistersAreSet /\ CallbackGetsTheArguments
================================================================================
