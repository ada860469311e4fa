------------------------------ MODULE Allocation ------------------------------
(***************************************************************************)
(* Allocation in the run-time of the C back end, over any of the three     *)
(* collectors: the Dylan library asks for an object, c-run-time.c chooses  *)
(* a primitive of the collector, and the primitive reserves a block,       *)
(* initialises it and commits it, while the MPS may move objects at any    *)
(* moment and may run out of memory.                                       *)
(***************************************************************************)
EXTENDS AllocationOptions, Sequences, FiniteSets

CONSTANTS MaxSlots,      \* most fixed slots of the objects allocated
          MaxRepeated,   \* most repeated units of the objects allocated
          MaxFlips       \* most collections during one allocation

ASSUME AllocationAssumption == MaxSlots \in Nat /\ MaxRepeated \in Nat /\ MaxFlips \in Nat

Boehm == INSTANCE BoehmCollector
Malloc == INSTANCE MallocCollector
MPS == INSTANCE MPSCollector

VARIABLES collector,   \* the collector the run-time was built with
          request,     \* what the Dylan library asked for
          asked,       \* the primitive chosen and its arguments
          step,        \* how far the allocation is
          object,      \* the block
          place,       \* where the object a template refers to is
          flips        \* collections since the block was reserved

allocationVars == <<collector, request, asked, step, object, place, flips>>

WordSize == 8
UnitSize(type) == CASE type = "byte" -> 1 [] type = "double_byte" -> 2
                    [] type = "single_float" -> 4 [] OTHER -> WordSize
round_up_to_word(n) == ((n + WordSize - 1) \div WordSize) * WordSize

(* Primitives are named for their pool, the fixed slots they fill and what  *)
(* they do with the repeated slots.                                         *)
PrimitiveNames ==
  <<<<"main", "", "">>, <<"main", "s1", "">>, <<"main", "s2", "">>, <<"main", "s", "">>,
    <<"main", "", "r">>, <<"main", "", "rf">>, <<"main", "s", "r">>, <<"main", "s", "rf">>,
    <<"main", "s", "rbf">>, <<"main", "s", "rbfz">>, <<"main", "", "rbfz">>, <<"main", "s", "rb">>,
    <<"leaf", "", "">>, <<"leaf", "s", "r">>, <<"leaf", "s1", "">>, <<"leaf", "s2", "">>,
    <<"leaf", "s", "">>, <<"leaf", "", "r">>, <<"leaf", "s", "rbf">>, <<"leaf", "", "rf">>,
    <<"leaf", "s", "rbfz">>, <<"leaf", "", "rbfz">>, <<"leaf", "s", "rb">>,
    <<"exact_awl", "s", "r">>, <<"weak_awl", "s", "r">>, <<"exact_awl", "", "rf">>,
    <<"weak_awl", "", "rf">>, <<"wrapper", "s", "r">>, <<"main", "", "rt">>,
    <<"main", "copy", "">>, <<"main", "copy", "r">>>>

Primitive(name) ==
  LET i == CHOOSE j \in DOMAIN PrimitiveNames : PrimitiveNames[j] = name
  IN  CASE collector = "boehm" -> Boehm!Primitives[i]
        [] collector = "malloc" -> Malloc!Primitives[i]
        [] collector = "mps" -> MPS!Primitives[i]

Prim(name, size, q) ==
  [prim |-> name, size |-> size, size_in_words |-> size \div WordSize,
   no_to_fill |-> q.slots, fill |-> Fill, s1 |-> Data1, s2 |-> Data2,
   rep_size |-> q.repeated, rep_size_slot |-> q.offset, rep_fill |-> RepeatedFill]

-----------------------------------------------------------------------------
(* The primitives the C back end calls, by name.                            *)
(* Mutant: the block has no room for the terminator.                        *)
ByteAllocateFilledTerminated_short(q) ==
  Prim(<<"leaf", IF q.slots = 0 THEN "" ELSE "s", "rbfz">>,
       round_up_to_word(q.words * WordSize + q.repeated), q)

ByteAllocateFilledTerminated(q) ==
  Prim(<<"leaf", IF q.slots = 0 THEN "" ELSE "s", "rbfz">>,
       round_up_to_word(q.words * WordSize + q.bytes), q)

ByteAllocateLeafFilledTerminated(q) == ByteAllocateFilledTerminated(q)

ByteFilled(pool, q) ==
  Prim(<<pool, "s", IF q.offset = 0 THEN "" ELSE "rbf">>,
       round_up_to_word(q.words * WordSize + q.repeated), q)

ByteAllocateFilled(q) == ByteFilled("main", q)
ByteAllocateLeafFilled(q) == ByteFilled("leaf", q)

RepeatedAllocator(pool, q) ==
  LET size == q.words * WordSize + q.repeated * UnitSize(q.type)
  IN  IF q.slots = 0 THEN Prim(<<pool, "", "rf">>, size, q) ELSE Prim(<<"main", "s", "rf">>, size, q)

ObjectAllocateFilled(q) == RepeatedAllocator("main", q)
RawAllocateFilled(q) == RepeatedAllocator("leaf", q)

(* The fill value is passed by its address.                                 *)
WordAllocateFilled(q) == [RepeatedAllocator("leaf", q) EXCEPT !.rep_fill = LocalAddress]

(* For three slots and more, the number of slots is not passed.             *)
AllocateFilled(q) ==
  LET size == q.words * WordSize
  IN  CASE q.slots = 0 -> Prim(<<"main", "", "">>, size, q)
        [] q.slots = 1 -> [Prim(<<"main", "s1", "">>, size, q) EXCEPT !.s1 = Fill]
        [] q.slots = 2 -> [Prim(<<"main", "s2", "">>, size, q) EXCEPT !.s1 = Fill, !.s2 = Fill]
        [] OTHER -> [Prim(<<"main", "s", "">>, size, q) EXCEPT !.no_to_fill = q.repeated]

InAwlPool(pool, few, q) ==
  LET size == q.words * WordSize
  IN  IF q.slots = few
      THEN [Prim(<<pool, "", "rf">>, size, q) EXCEPT !.s1 = Assoc, !.rep_fill = Fill]
      ELSE [Prim(<<pool, "s", "r">>, size, q) EXCEPT !.s1 = Assoc]

AllocateInAwlPool(q) == InAwlPool("exact_awl", 1, q)
AllocateWeakInAwlPool(q) == InAwlPool("weak_awl", 0, q)
AllocateWrapper(q) == Prim(<<"wrapper", "s", "r">>, q.words * WordSize, q)

(* The vector of size zero is shared and not allocated; CopyString copies   *)
(* the bytes of the string.                                                 *)
MakeDylanVector(q) == Prim(<<"main", "", "rf">>, (q.repeated + 2) * WordSize, q)
RawAsString(q) == Prim(<<"leaf", "", "r">>, round_up_to_word(2 * WordSize + q.repeated + 1), q)

(* A C pointer is the one slot of its object.                               *)
WrapCPointer(q) == AllocateFilled(q)

(* The memory of a closure: allocate, GC_MALLOC or malloc.                  *)
Allocate(q) == Prim(<<"main", "", "">>, (q.words + q.repeated) * WordSize, q)

(* The call of another primitive of the collector by compiled code.         *)
Direct(q) == [Prim(q.prim, q.words * WordSize + (IF q.prim[3] = "" THEN 0
                                                 ELSE round_up_to_word(q.repeated * UnitSize(q.type) + 1)), q)
              EXCEPT !.s1 = IF q.prim[1] \in {"exact_awl", "weak_awl"} THEN Assoc ELSE Data1]

PrimitiveCall(q) ==
  CASE q.fn = "byte_terminated" -> ByteAllocateLeafFilledTerminated(q)
    [] q.fn = "byte" -> ByteAllocateFilled(q)
    [] q.fn = "byte_leaf" -> ByteAllocateLeafFilled(q)
    [] q.fn = "object" -> ObjectAllocateFilled(q)
    [] q.fn = "raw" -> RawAllocateFilled(q)
    [] q.fn = "word" -> WordAllocateFilled(q)
    [] q.fn = "filled" -> AllocateFilled(q)
    [] q.fn = "awl" -> AllocateInAwlPool(q)
    [] q.fn = "weak_awl" -> AllocateWeakInAwlPool(q)
    [] q.fn = "wrapper" -> AllocateWrapper(q)
    [] q.fn = "vector" -> MakeDylanVector(q)
    [] q.fn = "string" -> RawAsString(q)
    [] q.fn = "c_pointer" -> WrapCPointer(q)
    [] q.fn = "closure" -> Allocate(q)
    [] q.fn = "direct" -> Direct(q)

-----------------------------------------------------------------------------
(* What the Dylan library asks for (boot.dylan): instances, instances with  *)
(* repeated slots of a type, entry vectors of tables, wrappers.             *)
Ask(fn, type, words, bytes, slots, repeated, offset) ==
  [fn |-> fn, type |-> type, words |-> words, bytes |-> bytes, slots |-> slots,
   repeated |-> repeated, offset |-> offset, prim |-> <<"", "", "">>]

Simple(fn, n) == Ask(fn, "object", 1 + n, 0, n, 0, 0)
Repeated(fn, type, n, r) == Ask(fn, type, 2 + n, IF fn = "byte_terminated" THEN r + 1 ELSE 0, n, r, n + 1)
Entries(fn, n, r) == Ask(fn, "object", 2 + n + r, 0, n + 1 + r, r, n + 1)

(* What the C back end makes of a method in the program: a closure with n   *)
(* variables, at once or before their values are known, with or without a   *)
(* signature; a method with a signature; a static closure given one.  The   *)
(* size of a closure is its fifth or, with keywords, its seventh word.      *)
Closure(kind, how, signed, n) ==
  LET words == IF kind = "keyword" THEN 7 ELSE 5
  IN  [Ask("closure", "object", words, 0, 0, n, words - 1) EXCEPT !.prim = <<kind, how, signed>>]
MethodSig(kind, how) ==
  [Ask("closure", "object", IF kind = "keyword" THEN 6 ELSE 5, 0, 0, 0, 0) EXCEPT !.prim = <<kind, how, "signed">>]

SimpleRequests ==
  {Simple("object", n) : n \in 0 .. MaxSlots} \cup {Simple("filled", n) : n \in 0 .. 2}
  \cup {Simple("c_pointer", 1)}

RepeatedRequests ==
  LET slots == 0 .. MaxSlots   sizes == 0 .. MaxRepeated
  IN  {Repeated("object", "object", n, r) : n \in slots, r \in sizes}
      \cup {Repeated("raw", type, n, r) : type \in {"double_byte", "single_float", "double_float"},
                                          n \in slots, r \in sizes}
      \cup {Repeated("word", "word", n, r) : n \in slots, r \in sizes}
      \cup {Repeated(fn, "byte", n, r) : fn \in {"byte", "byte_leaf"}, n \in slots, r \in sizes}
      \cup {Repeated("byte_terminated", "byte", n, r) : n \in slots, r \in sizes}
      \cup {Repeated("vector", "object", 0, r) : r \in sizes \ {0}}
      \cup {Repeated("string", "byte", 0, r) : r \in sizes}

TableRequests ==
  {Entries(fn, n, r) : fn \in {"awl", "weak_awl"}, n \in 1 .. MaxSlots, r \in 0 .. MaxRepeated}
  \cup {Ask("wrapper", "object", 1 + n, 0, n, 0, n) : n \in 1 .. MaxSlots}

Signed == {"", "signed"}
MethodRequests ==
  {Closure(kind, how, signed, n) : kind \in {"simple", "keyword"}, how \in {"initd", "later"},
                                   signed \in Signed, n \in 0 .. MaxRepeated}
  \cup {MethodSig(kind, how) : kind \in {"simple", "keyword"}, how \in {"method", "static"}}

(* The i-th primitive, called directly; some fill bytes.                    *)
DirectRequest(i, r) ==
  [Repeated("direct", IF \E j \in {9, 10, 11, 12, 19, 21, 22, 23} : i = j THEN "byte" ELSE "object", 2, r)
     EXCEPT !.prim = PrimitiveNames[i],
            !.words = IF PrimitiveNames[i][3] = "" THEN 3 ELSE 4,
            !.offset = IF PrimitiveNames[i][3] = "" THEN 0 ELSE 3]
DirectRequests == {DirectRequest(i, r) : i \in DOMAIN PrimitiveNames, r \in 0 .. MaxRepeated}

Requests == SimpleRequests \cup RepeatedRequests \cup TableRequests \cup MethodRequests \cup DirectRequests

InitAllocation ==
  /\ collector \in {"boehm", "malloc", "mps"}
  /\ request \in Requests
  /\ request.fn = "closure" => collector # "mps"   \* allocate knows the other two
  /\ asked = PrimitiveCall(request) /\ step = "reserve"
  /\ object = [cells |-> <<>>, overrun |-> FALSE]
  /\ place = 0 /\ flips = 0

Chosen == Primitive(asked.prim)
Header(a) == IF a.rep_size_slot = 0 THEN a.size_in_words ELSE a.rep_size_slot + 1
Block(a) ==
  [cells |-> [i \in 0 .. Header(a) + (a.size - Header(a) * WordSize) \div UnitSize(request.type) - 1
              |-> Chosen.pool.fresh],
   overrun |-> FALSE]

Static == request.fn = "closure" /\ request.prim[2] = "static"

Step(s) == step' = s
Same == UNCHANGED <<collector, request, asked>>

(* mps_reserve, GC_MALLOC or malloc, which have room.                       *)
Reserve ==
  /\ step \in {"reserve", "permit"} /\ ~Static /\ Step("init")
  /\ object' = Block(asked) /\ flips' = 0
  /\ Same /\ UNCHANGED place

(* mps_reserve has no room; the program is asked for a permit to use the    *)
(* reservoir, without which it tries again.                                 *)
ReserveFails ==
  /\ step = "reserve" /\ collector = "mps" /\ Chosen.pool.moving /\ Step("signal")
  /\ Same /\ UNCHANGED <<object, place, flips>>

SignalLowMemory(permit) ==
  /\ step = "signal" /\ Step(IF permit THEN "permit" ELSE "reserve")
  /\ Same /\ UNCHANGED <<object, place, flips>>

(* The reservoir is empty too, or the pool of wrappers: the handler aborts. *)
HandlerAborts ==
  /\ collector = "mps" /\ Step("aborted")
  /\ step = "permit" \/ (step = "reserve" /\ ~Chosen.pool.moving)
  /\ Same /\ UNCHANGED <<object, place, flips>>

(* The writes of alloc_internal up to commit; without a commit there is     *)
(* nothing left to wait for.                                                *)
Initialise ==
  /\ step = "init" /\ request.fn # "closure"
  /\ Step(IF collector = "mps" THEN "commit" ELSE "untraced")
  /\ object' = Initialised(object, Chosen, asked, place)
  /\ Same /\ UNCHANGED <<place, flips>>

(* Mutant: whether there was a collection is not looked at.                 *)
Commit_unchecked ==
  /\ step = "commit" /\ Step("untraced")
  /\ Same /\ UNCHANGED <<object, place, flips>>

(* mps_commit refuses a block if there was a collection since it was        *)
(* reserved; the block is then reserved and initialised again.              *)
Commit ==
  /\ step = "commit"
  /\ Step(IF Chosen.pool.moving /\ flips > 0 THEN "reserve" ELSE "untraced")
  /\ Same /\ UNCHANGED <<object, place, flips>>

(* MMCommitWrapper cannot create a root: another wrapper is allocated.      *)
CommitWrapperFails ==
  /\ step = "commit" /\ ~Chosen.pool.moving /\ Step("reserve")
  /\ Same /\ UNCHANGED <<object, place, flips>>

UntracedFill ==
  /\ step = "untraced" /\ Step(IF request.fn = "string" THEN "copy" ELSE "done")
  /\ object' = UntracedFilled(object, Chosen, asked)
  /\ Same /\ UNCHANGED <<place, flips>>

(* primitive_raw_as_string copies the bytes of the C string and the zero    *)
(* that ends it.                                                            *)
Copied(block, data, len) ==
  LET bytes == [block EXCEPT !.cells = [i \in DOMAIN @ |->
                  IF i >= data /\ i < data + len THEN Character(i - data) ELSE @[i]]]
  IN  Write(bytes, data + len, 1, Zero)

CopyString ==
  /\ step = "copy" /\ Step("done")
  /\ object' = Copied(object, asked.rep_size_slot + 1, asked.rep_size)
  /\ Same /\ UNCHANGED <<place, flips>>

(* A collection moves the object the template refers to and corrects the    *)
(* references in what it scans: committed objects of pools it scans.        *)
Flip ==
  /\ collector = "mps" /\ place < MaxFlips
  /\ place' = place + 1 /\ flips' = flips + 1
  /\ object' = IF step \in {"untraced", "copy", "done"} /\ Chosen.pool.scanned
               THEN [object EXCEPT !.cells = [i \in DOMAIN @ |->
                       IF @[i].is = "reference" THEN Reference(place + 1) ELSE @[i]]]
               ELSE object
  /\ Same /\ UNCHANGED step

(* memcpy of the schema, which for a method without variables lacks the     *)
(* word of the size: what follows it in the program is copied.              *)
CopySchema(q, block) ==
  LET copy == Write(Write(block, 0, 1, Wrapper), 1, q.words - 1, Schema)
  IN  If(q.prim[1] = "simple" /\ q.prim[2] = "method", copy, 4, 1, Beyond)

SetSignature(q, fn) == If(q.prim[3] = "signed", fn, 2, 1, Signature)

init_environment(q, fn) ==
  LET given == [fn EXCEPT !.cells = [i \in DOMAIN @ |-> IF i > q.offset THEN Captured(i - q.offset) ELSE @[i]]]
  IN  Write(given, q.offset, 1, SizeSlot(q.repeated))

MakeClosure ==
  LET made == SetSignature(request, CopySchema(request, object))
  IN  /\ step = "init" /\ request.fn = "closure"
      /\ Step(IF request.prim[2] = "later" THEN "made" ELSE "done")
      /\ object' = IF request.prim[2] = "initd" THEN init_environment(request, made) ELSE made
      /\ Same /\ UNCHANGED <<place, flips>>

(* The program does other things before it has the values.                  *)
InitClosure ==
  /\ step = "made" /\ Step("done")
  /\ object' = init_environment(request, object)
  /\ Same /\ UNCHANGED <<place, flips>>

(* A closure without variables is static, and is its own schema.            *)
SetMethodSig ==
  /\ step = "reserve" /\ Static /\ Step("done")
  /\ object' = SetSignature(request, CopySchema(request, Block(asked)))
  /\ Same /\ UNCHANGED <<place, flips>>

NextAllocation ==
  \/ MakeClosure \/ InitClosure \/ SetMethodSig
  \/ Reserve \/ ReserveFails \/ HandlerAborts \/ Initialise \/ Commit \/ CommitWrapperFails
  \/ UntracedFill \/ CopyString \/ Flip
  \/ \E permit \in BOOLEAN : SignalLowMemory(permit)

SpecAllocation == InitAllocation /\ [][NextAllocation]_allocationVars

-----------------------------------------------------------------------------
(* What was asked for: the number of fixed slots, what is to be in them and *)
(* in the repeated slots, from the request of the Dylan library or from the *)
(* name of the primitive.                                                   *)
FixedSlots(q) == IF q.offset = 0 THEN q.words - 1 ELSE q.offset - 1
SlotOption(q) == IF q.fn = "direct" THEN q.prim[2] ELSE "s"
RepeatOption(q) ==
  CASE q.fn = "direct" -> q.prim[3] [] q.fn = "byte_terminated" -> "rbfz"
    [] q.fn = "wrapper" -> "r" [] OTHER -> "rf"
InTable(q) == q.fn \in {"awl", "weak_awl"} \/ q.prim[1] \in {"exact_awl", "weak_awl"}

SlotAsAsked(q, i, word) ==
  CASE q.fn = "closure" -> \/ word = IF i = 2 /\ q.prim[3] = "signed" THEN Signature ELSE Schema
                           \/ i = 4 /\ q.prim[2] = "method"   \* not a word of the method
    [] i = 1 /\ InTable(q) -> word = Assoc
    [] SlotOption(q) = "s" -> word = Fill
    [] SlotOption(q) = "copy" -> word.is = "reference"
    [] i = 1 /\ SlotOption(q) \in {"s1", "s2"} -> word = Data1
    [] i = 2 /\ SlotOption(q) = "s2" -> word = Data2
    [] OTHER -> word = Chosen.pool.fresh

UnitAsAsked(q, i, unit) ==
  CASE q.fn = "closure" -> unit = Captured(i + 1)
    [] i = q.repeated /\ (RepeatOption(q) = "rbfz" \/ q.fn = "string") -> unit = Zero
    [] i >= q.repeated -> TRUE
    [] q.fn = "string" -> unit = Character(i)
    [] RepeatOption(q) \in {"rf", "rbf", "rbfz"} -> unit = IF q.fn \in {"awl", "weak_awl"} THEN Fill ELSE RepeatedFill
    [] RepeatOption(q) = "rt" -> unit.is = "reference"
    [] SlotOption(q) = "copy" -> unit = Null
    [] RepeatOption(q) = "rb" \/ q.fn # "direct" \/ ~InTable(q) -> unit = Chosen.pool.fresh
    [] OTHER -> TRUE

\* An allocated object is what the Dylan library asked for, or what the name of
\* the primitive says, whichever collector the run-time was built with: its
\* wrapper, fixed slots, size and repeated slots, with their terminator, are in
\* place, other memory is as it came, and nothing was written past the block.
\* A string made from a C string holds its bytes and the zero after them.
\* primitive_word_allocate_filled is left out: it fills with an address.
ObjectAsAsked ==
  step = "done" /\ request.fn # "word" =>
    /\ ~object.overrun
    /\ \A i \in DOMAIN object.cells :
         LET word == object.cells[i]
         IN  CASE i = 0 -> word = Wrapper
               [] i \in 1 .. FixedSlots(request) -> SlotAsAsked(request, i, word)
               [] i = request.offset -> word = SizeSlot(request.repeated)
               [] OTHER -> UnitAsAsked(request, i - FixedSlots(request) - 2, word)

\* Once a block is committed the collector finds no word in it that it would
\* follow and nobody wrote, and no reference to where an object used to be,
\* however many collections came between the steps of the allocation.
CommittedIsSound ==
  step \in {"untraced", "copy", "done"} /\ Chosen.pool.scanned =>
    \A i \in DOMAIN object.cells :
      /\ object.cells[i].is = "reference" => object.cells[i].n = place
      /\ (request.fn # "direct" /\ (i < Header(asked) \/ request.type = "object"))
           => object.cells[i] # Junk
================================================================================
