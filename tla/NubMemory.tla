------------------------------ MODULE NubMemory -----------------------------
(***************************************************************************)
(* What the access path reads and writes of a stopped program: its memory  *)
(* in units of several sizes (memory_access.c, page_protection.c) and the  *)
(* registers of a thread (register_access.c).                              *)
(*                                                                         *)
(* A byte has Base values; the sizes of the C types are kept.  A value of  *)
(* the access path (NUBINT) is a signed number of 4 bytes.  INT64 has 8    *)
(* where the headers of Windows declare it; where they do not, it is       *)
(* declared as a pointer and has 4.  A floating-point number is a natural: *)
(* an extended float holds every one, a double the multiples of DoubleUnit *)
(* and a single those of SingleUnit.                                       *)
(*                                                                         *)
(* The calls of Windows are external.  ReadProcessMemory and               *)
(* WriteProcessMemory may move a part of what they are asked for when a    *)
(* page on the way refuses; SetThreadContext may refuse a value for the    *)
(* flags and the segment registers.  The page size that                    *)
(* nub_page_relative_address takes for granted is that of the system.      *)
(***************************************************************************)
EXTENDS Integers, Sequences, FiniteSets, SequencesExt

CONSTANTS
    Base,           \* the number of values of a byte
    Int64Size,      \* the size of INT64, in bytes
    PageSize,       \* the size of a page, in bytes
    Protection,     \* the protection of each page
    SingleUnit, DoubleUnit,
    At,             \* the addresses that are used
    NubInts,        \* the integers that are written
    Floats,         \* the floating-point numbers that are written
    Registers,      \* the registers that are used
    Frames,         \* the pointers of the frames in the last stack trace
    MaxWrites,      \* the number of those writes
    NoValue         \* what an unset variable holds

VARIABLES
    memory,         \* the bytes of the program
    context,        \* the registers of the thread
    written,        \* what was written, by place, if nothing has touched it since
    writes,         \* the number of writes so far that were not refused at once
    reply           \* the last call and its answer

memoryVars == <<memory, context, written, writes, reply>>

sizeof == [INT8 |-> 1, INT16 |-> 2, INT32 |-> 4, INT64 |-> Int64Size, TARGET_ADDRESS |-> 4,
           FLOAT |-> 4, DOUBLE |-> 8, UNICODE |-> 2, NUBINT |-> 4]

Pow(n) == Base ^ n

Bytes(n, v) == [i \in 1 .. n |-> (v \div Pow(i - 1)) % Base]

Unsigned(bytes) == FoldRight(LAMBDA b, rest : b + Base * rest, bytes, 0)

\* The number that the bytes of an unsigned one stand for when they are signed.
Signed(n, v) == IF v >= Pow(n) \div 2 THEN v - Pow(n) ELSE v

(***************************************************************************)
(* Integers                                                                *)
(***************************************************************************)

sign_reduce_integer_to_8(x) == Bytes(sizeof["INT8"], x)
sign_reduce_integer_to_16(x) == Bytes(sizeof["INT16"], x)
sign_reduce_integer_to_32(x) == Bytes(sizeof["INT32"], x)
sign_reduce_integer_to_64(x) == Bytes(sizeof["INT64"], x)

\* A negative number is negated in its own width, widened and negated again.
sign_extend_8_to_integer(byte) ==
    IF byte >= Base \div 2 THEN -((-byte) % Base) ELSE byte

sign_extend_16_to_integer_unsigned(word) == word

sign_extend_16_to_integer(word) ==
    IF word >= Pow(2) \div 2 THEN -((-word) % Pow(2)) ELSE word

sign_extend_32_to_integer(x) == Signed(sizeof["INT32"], x)
sign_extend_64_to_integer(x) == Signed(sizeof["NUBINT"], x % Pow(sizeof["NUBINT"]))

(***************************************************************************)
(* Memory                                                                  *)
(***************************************************************************)

Page(a) == a \div PageSize

Refuses(a, refusing) == Page(a) \notin DOMAIN Protection \/ Protection[Page(a)] \in refusing

\* How much of n bytes from a can be moved.
Moved(a, n, refusing) ==
    IF \A i \in 0 .. n - 1 : ~Refuses(a + i, refusing) THEN {n}
    ELSE {k \in 0 .. n - 1 : \A i \in 0 .. k - 1 : ~Refuses(a + i, refusing)}

Contents(a, n) == [i \in 1 .. n |-> memory[a + i - 1]]

\* The end of each call: its error code, and its value.
Answer(call, error, value) == reply' = [call |-> call, error |-> error, value |-> value]

ReadProcessMemory(kind, a, n, Value(_), otherwise) ==
    /\ \E k \in Moved(a, n, {"noaccess"}) :
          IF k # n THEN Answer(<<"read", kind, a, n>>, "access violation", otherwise)
          ELSE Answer(<<"read", kind, a, n>>, "ok", Value(Contents(a, n)))
    /\ UNCHANGED <<memory, context, written, writes>>

\* The ranges of bytes two places have in common, and the places that share one.
Overlaps(place, a, n) ==
    place[1] = "memory" /\ \E i \in 0 .. n - 1 : a + i \in place[3] .. place[3] + place[4] - 1

Untouched(a, n) == [p \in {q \in DOMAIN written : ~Overlaps(q, a, n)} |-> written[p]]

Remember(old, place, value) ==
    [p \in DOMAIN old \cup {place} |-> IF p = place THEN value ELSE old[p]]

\* A warning about high addresses does not keep the bytes from being written.
ValidatedWriteProcessMemory(kind, a, bytes, value) ==
    LET n == Len(bytes)
        place == <<"memory", kind, a, n>>
    IN  \E k \in Moved(a, n, {"noaccess", "readonly"}) :
          /\ memory' = [b \in DOMAIN memory |-> IF b \in a .. a + k - 1 THEN bytes[b - a + 1]
                                                ELSE memory[b]]
          /\ written' = IF k = n THEN Remember(Untouched(a, n), place, value) ELSE Untouched(a, n)
          /\ Answer(<<"write", kind, a, n>>, IF k = n THEN "ok" ELSE "access violation", NoValue)
          /\ writes' = IF k > 0 THEN writes + 1 ELSE writes
          /\ UNCHANGED context

read_value_from_process_memory(a) ==
    ReadProcessMemory("value", a, sizeof["TARGET_ADDRESS"], Unsigned, 0)
write_value_to_process_memory(a, v) ==
    ValidatedWriteProcessMemory("value", a, Bytes(sizeof["TARGET_ADDRESS"], v), v)

read_8b_from_process_memory(a) ==
    ReadProcessMemory("8b", a, sizeof["INT8"],
                      LAMBDA b : sign_extend_8_to_integer(Unsigned(b)), 0)
write_8b_to_process_memory(a, v) ==
    ValidatedWriteProcessMemory("8b", a, sign_reduce_integer_to_8(v), v)

read_16b_from_process_memory(a) ==
    ReadProcessMemory("16b", a, sizeof["INT16"],
                      LAMBDA b : sign_extend_16_to_integer(Unsigned(b)), 0)
write_16b_to_process_memory(a, v) ==
    ValidatedWriteProcessMemory("16b", a, sign_reduce_integer_to_16(v), v)

read_32b_from_process_memory(a) ==
    ReadProcessMemory("32b", a, sizeof["INT32"],
                      LAMBDA b : sign_extend_32_to_integer(Unsigned(b)), 0)
write_32b_to_process_memory(a, v) ==
    ValidatedWriteProcessMemory("32b", a, sign_reduce_integer_to_32(v), v)

read_64b_from_process_memory(a) ==
    ReadProcessMemory("64b", a, sizeof["INT64"],
                      LAMBDA b : sign_extend_64_to_integer(Unsigned(b)), 0)
write_64b_to_process_memory(a, v) ==
    ValidatedWriteProcessMemory("64b", a, sign_reduce_integer_to_64(v), v)

\* The number a float holds is kept in its lowest bytes.
read_single_float_from_process_memory(a) ==
    ReadProcessMemory("single", a, sizeof["FLOAT"], LAMBDA b : SingleUnit * Unsigned(b), 0)
write_single_float_to_process_memory(a, f) ==
    ValidatedWriteProcessMemory("single", a, Bytes(sizeof["FLOAT"], f \div SingleUnit), f)

read_double_float_from_process_memory(a) ==
    ReadProcessMemory("double", a, sizeof["DOUBLE"], LAMBDA b : DoubleUnit * Unsigned(b), 0)
write_double_float_to_process_memory(a, f) ==
    ValidatedWriteProcessMemory("double", a, Bytes(sizeof["DOUBLE"], f \div DoubleUnit), f)

\* Strings are moved as they are; after a failure the buffer has what it had,
\* or a part of the string.
read_byte_string_from_process_memory(a, size) ==
    ReadProcessMemory("bytes", a, size, LAMBDA b : b, NoValue)
write_byte_string_to_process_memory(a, text) ==
    ValidatedWriteProcessMemory("bytes", a, text, text)
read_unicode_string_from_process_memory(a, size) ==
    ReadProcessMemory("unicode", a, sizeof["UNICODE"] * size, LAMBDA b : b, NoValue)
write_unicode_string_to_process_memory(a, text) ==
    ValidatedWriteProcessMemory("unicode", a, text, text)

\* VirtualQueryEx says nothing of an address past the program's pages: the
\* answer is then what the memory of the nub happened to hold.
Permission(call, a, refusing) ==
    /\ IF Page(a) \notin DOMAIN Protection THEN \E p \in {0, 1} : Answer(<<call, a>>, "ok", p)
       ELSE Answer(<<call, a>>, "ok", IF Protection[Page(a)] \in refusing THEN 0 ELSE 1)
    /\ UNCHANGED <<memory, context, written, writes>>

nub_page_read_permission(a) == Permission("readable", a, {"noaccess"})
nub_page_write_permission(a) == Permission("writable", a, {"noaccess", "execute"})
nub_page_execute_permission(a) == Permission("executable", a, {"noaccess"})

\* Counted in values of the program.
nub_virtual_page_size ==
    /\ Answer(<<"page size">>, "ok", PageSize \div sizeof["TARGET_ADDRESS"])
    /\ UNCHANGED <<memory, context, written, writes>>
nub_remote_value_byte_size ==
    /\ Answer(<<"value size">>, "ok", sizeof["TARGET_ADDRESS"])
    /\ UNCHANGED <<memory, context, written, writes>>

nub_page_relative_address(a) ==
    /\ Answer(<<"page", a>>, "ok", [page |-> a \div PageSize, offset |-> a % PageSize])
    /\ UNCHANGED <<memory, context, written, writes>>

(***************************************************************************)
(* Registers                                                               *)
(***************************************************************************)

nub_general_registers == <<"EAX", "EDX", "ECX", "EBX", "EBP", "ESI", "EDI">>
nub_special_registers == <<"ESP", "EIP", "EFL", "CS", "DS", "SS", "ES", "FS", "GS">>

nub_floating_registers == <<"FLT0", "FLT1", "FLT2", "FLT3", "FLT4", "FLT5", "FLT6", "FLT7">>
nub_all_registers == nub_general_registers \o nub_special_registers \o nub_floating_registers

Floating == ToSet(nub_floating_registers)
Integral == ToSet(nub_all_registers) \ Floating

\* Where a floating register is in the area of the context, in registers.
Nth(reg) == (CHOOSE i \in 1 .. 8 : nub_floating_registers[i] = reg) - 1

\* The bytes of a floating register.
FloatSize == 10

\* The whole register of each number CodeView gives to one or to a part of one.
register_codeview_indices ==
    LET whole == <<"EAX", "ECX", "EDX", "EBX">>
        pointers == <<"ESP", "EBP", "ESI", "EDI">>
    IN  whole \o whole \o whole \o pointers \o whole \o pointers

map_cv_register_index(index) ==
    IF index \in 1 .. 24 THEN register_codeview_indices[index] ELSE "EAX"

\* The number CodeView gives to each register.
register_names ==
    << 17, 19, 18, 20, 22, 23, 24,
       21, 33, 34, 26, 28, 27, 25, 29, 30,
       128, 129, 130, 131, 132, 133, 134, 135 >>

nub_get_register_enumeration_code(reg) ==
    register_names[CHOOSE i \in DOMAIN nub_all_registers : nub_all_registers[i] = reg]

\* A register of CodeView may be two; one that is not known is taken for EAX.
register_index_from_codeview_enumerate(cvr) ==
    /\ Answer(<<"codeview", cvr>>, "ok",
              <<map_cv_register_index(cvr \div 256), map_cv_register_index(cvr % 256)>>)
    /\ UNCHANGED <<memory, context, written, writes>>

\* Conversions of the floating-point unit round to the nearest, then to even.
Rounded(x, unit) ==
    LET q == x \div unit
        r == x % unit
    IN  unit * (IF 2 * r > unit \/ (2 * r = unit /\ q % 2 = 1) THEN q + 1 ELSE q)

extended_float_to_single_float(bytes) == Rounded(Unsigned(bytes), SingleUnit)
extended_float_to_double_float(bytes) == Rounded(Unsigned(bytes), DoubleUnit)
single_float_to_extended_float(f) == Bytes(FloatSize, f)
double_float_to_extended_float(f) == Bytes(FloatSize, f)

\* The value of a register, or Violation.  DS is answered with CS.
Violation == [error |-> "access violation", value |-> 0]
register_get32(status, reg) ==
    IF ~status \/ reg \in Floating THEN Violation
    ELSE [error |-> "ok", value |-> context[IF reg = "DS" THEN "CS" ELSE reg]]

\* The registers that Windows checks before it sets them.
Checked == {"EFL", "CS", "DS", "SS", "ES", "FS", "GS"}

SetContext(new) ==
    \E kept \in SUBSET {r \in Checked : new[r] # context[r]} :
        context' = [r \in DOMAIN context |-> IF r \in kept THEN context[r] ELSE new[r]]

\* A floating register is refused: the context is set all the same, as it was.
\* status says whether the context could be fetched and set.
register_put32(status, reg, value) ==
    LET place == <<"register", reg>>
        ok == status /\ reg \in Integral
    IN  /\ IF ok THEN SetContext([context EXCEPT ![reg] = value]) ELSE UNCHANGED context
        /\ written' = IF ok THEN Remember(written, place, value) ELSE written
        /\ Answer(<<"put", reg>>, IF ok THEN "ok" ELSE "access violation", NoValue)
        /\ writes' = IF ok THEN writes + 1 ELSE writes
        /\ UNCHANGED memory

read_nth_float(area, n) == [i \in 1 .. FloatSize |-> area[n * FloatSize + i]]

store_nth_float(area, bytes, n) ==
    [i \in DOMAIN area |-> IF i - n * FloatSize \in 1 .. FloatSize THEN bytes[i - n * FloatSize]
                           ELSE area[i]]

\* The bytes that are converted: any, when none were fetched.
register_getfloat(status, reg) ==
    IF status /\ reg \in Floating THEN {read_nth_float(context["area"], Nth(reg))}
    ELSE {Bytes(FloatSize, f) : f \in Floats}

register_putfloat(status, reg, bytes, value) ==
    LET place == <<"register", reg>>
        ok == status /\ reg \in Floating
    IN  /\ context' = IF ok THEN [context EXCEPT !["area"] = store_nth_float(@, bytes, Nth(reg))]
                      ELSE context
        /\ written' = IF ok THEN Remember(written, place, value) ELSE written
        /\ Answer(<<"putfloat", reg>>, IF ok THEN "ok" ELSE "access violation", NoValue)
        /\ writes' = IF ok THEN writes + 1 ELSE writes
        /\ UNCHANGED memory

Fetched(call, got) ==
    /\ Answer(call, got.error, got.value)
    /\ UNCHANGED <<memory, context, written, writes>>

read_value_from_process_register(status, reg) ==
    Fetched(<<"get", reg>>, register_get32(status, reg))

\* Three registers are those of the frame, the others those of the thread now.
read_value_from_process_register_in_stack_frame(status, reg, frame) ==
    Fetched(<<"frame", reg, frame>>,
            CASE reg = "EBP" -> [error |-> "ok", value |-> frame.fp]
              [] reg = "ESP" -> [error |-> "ok", value |-> frame.sp]
              [] reg = "EIP" -> [error |-> "ok", value |-> frame.ip]
              [] OTHER       -> register_get32(status, reg))

write_value_to_process_register(status, reg, value) == register_put32(status, reg, value)

FloatFetched(kind, status, reg, Value(_)) ==
    \E bytes \in register_getfloat(status, reg) :
        Fetched(<<"getfloat", reg, kind>>,
                [error |-> IF status /\ reg \in Floating THEN "ok" ELSE "access violation",
                 value |-> Value(bytes)])

read_single_float_from_process_register(status, reg) ==
    FloatFetched("single", status, reg, extended_float_to_single_float)
read_double_float_from_process_register(status, reg) ==
    FloatFetched("double", status, reg, extended_float_to_double_float)

write_single_float_to_process_register(status, reg, f) ==
    register_putfloat(status, reg, single_float_to_extended_float(f), f)
write_double_float_to_process_register(status, reg, f) ==
    register_putfloat(status, reg, double_float_to_extended_float(f), f)

\* A failure to read the context goes unnoticed, and any pointer is answered.
nub_calculate_stack_address(status, offset) ==
    \E esp \in IF status THEN {context["ESP"]} ELSE {0, context["ESP"]} :
        Fetched(<<"stack address", offset>>,
                [error |-> "ok", value |-> (esp + sizeof["TARGET_ADDRESS"] * offset) % Pow(4)])

ASSUME MemoryAssumption ==
    /\ Base \in Nat \ {0, 1} /\ Base % 2 = 0
    /\ Int64Size \in {4, 8}
    /\ PageSize \in Nat \ {0}
    /\ Registers \subseteq ToSet(nub_all_registers)
    /\ SingleUnit \in Nat \ {0} /\ DoubleUnit \in Nat \ {0} /\ SingleUnit % DoubleUnit = 0

(***************************************************************************)
(* The calls                                                               *)
(***************************************************************************)

Size == Cardinality(DOMAIN Protection) * PageSize

MemoryInit ==
    /\ memory = [a \in 0 .. Size - 1 |-> a % Base]
    /\ context = [r \in Integral \cup {"area"} |->
                     IF r = "area" THEN [i \in 1 .. 8 * FloatSize |-> 0]
                     ELSE nub_get_register_enumeration_code(r)]
    /\ written = <<>> /\ writes = 0
    /\ reply = [call |-> <<"none">>, error |-> "ok", value |-> NoValue]

Singles == {f \in Floats : f % SingleUnit = 0}
Doubles == {f \in Floats : f % DoubleUnit = 0}

\* Two characters, as bytes and as units of two.
Text == <<1, 0>>
UnicodeText == <<1, 1, 0, 0>>

MemoryRead ==
    \/ \E a \in At :
        \/ read_value_from_process_memory(a)
        \/ read_8b_from_process_memory(a)  \/ read_16b_from_process_memory(a)
        \/ read_32b_from_process_memory(a) \/ read_64b_from_process_memory(a)
        \/ read_single_float_from_process_memory(a)
        \/ read_double_float_from_process_memory(a)
        \/ read_byte_string_from_process_memory(a, 2)
        \/ read_unicode_string_from_process_memory(a, 2)
        \/ nub_page_read_permission(a) \/ nub_page_write_permission(a)
        \/ nub_page_execute_permission(a) \/ nub_page_relative_address(a)
    \/ nub_virtual_page_size \/ nub_remote_value_byte_size

MemoryWrite ==
    /\ writes < MaxWrites
    /\ \E a \in At :
        \/ \E v \in NubInts : \/ write_8b_to_process_memory(a, v)
                              \/ write_16b_to_process_memory(a, v)
                              \/ write_32b_to_process_memory(a, v)
                              \/ write_64b_to_process_memory(a, v)
                              \/ v >= 0 /\ write_value_to_process_memory(a, v)
        \/ \E f \in Singles : write_single_float_to_process_memory(a, f)
        \/ \E f \in Doubles : write_double_float_to_process_memory(a, f)
        \/ write_byte_string_to_process_memory(a, Text)
        \/ write_unicode_string_to_process_memory(a, UnicodeText)

RegisterRead ==
    \/ \E status \in BOOLEAN, reg \in Registers :
        \/ read_value_from_process_register(status, reg)
        \/ read_single_float_from_process_register(status, reg)
        \/ read_double_float_from_process_register(status, reg)
        \/ \E frame \in Frames :
              read_value_from_process_register_in_stack_frame(status, reg, frame)
    \/ \E reg \in Registers :
          register_index_from_codeview_enumerate(nub_get_register_enumeration_code(reg))
    \/ \E status \in BOOLEAN : nub_calculate_stack_address(status, 1)

RegisterWrite ==
    /\ writes < MaxWrites
    /\ \E status \in BOOLEAN, reg \in Registers :
        \/ \E v \in {x \in NubInts : x >= 0} : write_value_to_process_register(status, reg, v)
        \/ \E f \in Singles : write_single_float_to_process_register(status, reg, f)
        \/ \E f \in Doubles : write_double_float_to_process_register(status, reg, f)

(***************************************************************************)
(* Properties                                                              *)
(***************************************************************************)

\* What a value becomes when it has only the bytes of a unit: the number with
\* those bytes that is closest to zero, below it when there are two.
InUnit(v, n) ==
    CHOOSE x \in -(Pow(n) \div 2) .. Pow(n) \div 2 - 1 : (x - v) % Pow(n) = 0

AsRead(kind, v) ==
    CASE kind = "8b"  -> InUnit(v, 1)
      [] kind = "16b" -> InUnit(v, 2)
      [] OTHER        -> v

\* What the access path wrote to a place of the program's memory or to a
\* register of the thread is what it reads from there afterwards, cut to the
\* size of the unit and with its sign, whatever was written elsewhere in the
\* meantime and whatever failed; a double written to a floating register reads
\* as the nearest single.  (memory_access.c, register_access.c.)  Not so for
\* the registers that Windows checks, and DS is not even read.
WrittenIsReadBack ==
    reply.error = "ok" =>
        /\ reply.call[1] = "read" =>
              LET place == <<"memory">> \o SubSeq(reply.call, 2, 4) IN
              place \in DOMAIN written => reply.value = AsRead(reply.call[2], written[place])
        /\ reply.call[1] \in {"get", "getfloat"} =>
              LET place == <<"register", reply.call[2]>>
                  v == written[place]
              IN  place \in DOMAIN written /\ reply.call[2] \notin Checked =>
                    reply.value = IF reply.call[1] = "get" THEN v
                                  ELSE IF reply.call[3] = "single" THEN Rounded(v, SingleUnit)
                                  ELSE Rounded(v, DoubleUnit)
=============================================================================
