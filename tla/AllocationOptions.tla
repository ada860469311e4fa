--------------------------- MODULE AllocationOptions ---------------------------
(***************************************************************************)
(* What the allocation primitives of the collectors have in common: the    *)
(* options of the macro alloc_internal, and what they write.  An object is *)
(* its words up to the size slot followed by its repeated units, as one    *)
(* function of cells; a write past the last cell is remembered.            *)
(***************************************************************************)
EXTENDS Naturals

Word(what) == [is |-> what, n |-> 0]
Junk == Word("junk")             \* memory nobody wrote
Zero == Word("zero")
Null == Word("null")
Wrapper == Word("wrapper")
Fill == Word("fill")             \* the value for fixed slots
Data1 == Word("data1")
Data2 == Word("data2")
Assoc == Word("assoc")           \* the link of a weak table
RepeatedFill == Word("repeated") \* the value for repeated units
LocalAddress == Word("address")  \* the address of a C variable
Schema == Word("schema")         \* a word of the schema of a closure
Beyond == Word("beyond")         \* what follows a schema in the program
Signature == Word("signature")   \* a signature computed at run time
Captured(i) == [is |-> "captured", n |-> i]   \* a variable of a closure
Character(i) == [is |-> "character", n |-> i] \* a byte of a C string
SizeSlot(n) == [is |-> "size", n |-> n]
Reference(place) == [is |-> "reference", n |-> place]

AllocInternal(options, pool) == [options |-> options, pool |-> pool]

Write(object, first, count, value) ==
  [cells |-> [i \in DOMAIN object.cells |->
                IF i >= first /\ i < first + count THEN value ELSE object.cells[i]],
   overrun |-> object.overrun \/ \E i \in first .. first + count - 1 : i \notin DOMAIN object.cells]

If(condition, object, first, count, value) ==
  IF condition THEN Write(object, first, count, value) ELSE object

(* The writes between reserve and commit, with the arguments a; place is    *)
(* where the object a template refers to is at the moment.                  *)
Initialised(object, prim, a, place) ==
  LET on(option) == option \in prim.options
      wrapped == Write(object, 0, 1, Wrapper)
      copied == If(on("copy"), wrapped, 1, a.size_in_words - 1, Reference(place))
      fixed == If(on("copyfixed"), copied, 1, a.rep_size_slot - 1, Reference(place))
      slots == If(on("s"), fixed, 1, a.no_to_fill, a.fill)
      slot1 == If(on("s1"), slots, 1, 1, a.s1)
      slot2 == If(on("s2"), slot1, 2, 1, a.s2)
      sized == If(on("r") /\ a.rep_size_slot # 0, slot2, a.rep_size_slot, 1, SizeSlot(a.rep_size))
      nulled == If(on("null"), sized, a.rep_size_slot + 1, a.rep_size, Null)
      template == If(on("rt"), nulled, a.rep_size_slot + 1, a.rep_size, Reference(place))
  IN  If(on("rf"), template, a.rep_size_slot + 1, a.rep_size, a.rep_fill)

(* untraced_fill_..._mem: the writes after commit.  All but the one for     *)
(* bytes write the size again.                                              *)
UntracedFilled(object, prim, a) ==
  LET on == {"uf", "r"} \subseteq prim.options
      sized == If(on /\ a.prim[3] = "rf", object, a.rep_size_slot, 1, SizeSlot(a.rep_size))
      filled == If(on, sized, a.rep_size_slot + 1, a.rep_size, a.rep_fill)
  IN  If(on /\ "zt" \in prim.options, filled, a.rep_size_slot + 1 + a.rep_size, 1, Zero)
================================================================================
