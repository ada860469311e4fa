------------------------------- MODULE CoffMap -------------------------------
(***************************************************************************)
(* The COFF symbol table of an image, the last resort of the debugger nub  *)
(* for Windows NT when there is no CodeView information (coff_map.c).  A   *)
(* library has, next to the fields of DebugMap,                            *)
(*   preferred the base address the image was linked for                   *)
(*   file      what the image file has of COFF: the entries of its symbol  *)
(*             table, or Null                                              *)
(*   coff      CoffSymbolTable: the entries that were read, or Null        *)
(* An entry is a symbol [name, short, value, aux, function] or one of the  *)
(* aux entries that follow it.  The names of the symbols that are short    *)
(* are kept in the entry, up to eight characters, the others in the string *)
(* table, from which they are read until they end.                         *)
(***************************************************************************)
EXTENDS DebugMap

CONSTANTS
    ShortName,             \* characters of a name in a symbol table entry (8)
    NonData                \* explicit_non_data_symbols: marks of the Dylan linker

ASSUME ShortNameAssumption == ShortName \in Nat \ {0}

pull_image_header(lib) == [lib EXCEPT !.coff = Null]

\* Read the COFF symbols unless there is something better.
pull_image_information(lib) ==
    IF lib.type # "none" \/ lib.file = Null THEN lib
    ELSE [lib EXCEPT !.type = "coff", !.coff = lib.file]

release_library_coff_map(lib) == [lib EXCEPT !.coff = Null]

(***************************************************************************)
(* Entries                                                                 *)
(***************************************************************************)

following_coff_symbol(i) == i + 1

is_function_defining_record(x) == x.function

is_begin_function_record(x) == x.name = <<".", "b", "f">>

is_end_function_record(x) == x.name = <<".", "e", "f">>

is_lines_in_function_record(x) == x.name = <<".", "l", "f">>

calculate_coff_symbol_name_pointer(x) == x.name

calculate_coff_symbol_name_length(x) == Len(x.name)

\* An underscore in front of the symbol's name may be left out, and a name
\* that is longer than the entry's own has no match there.
compare_coff_names(x, candidate) ==
    LET skip == IF x.name # <<>> /\ x.name[1] = "_" /\ candidate[1] # "_" THEN 1 ELSE 0 IN
    /\ Len(candidate) >= 1
    /\ x.short => Len(candidate) <= ShortName
    /\ Len(x.name) = Len(candidate) + skip
    /\ \A j \in 1 .. Len(candidate) : x.name[j + skip] = candidate[j]

is_non_data_record(x) ==
    x.name[1] = "." \/ \E n \in NonData : compare_coff_names(x, n)

\* The values of the Microsoft linker are relative to the base, those of the
\* GNU linker are addresses, wrong by the move when the image was moved.
calculate_segmented_address(lib, offset) ==
    IF offset < lib.preferred THEN Dword(offset + lib.base)
    ELSE IF lib.preferred = lib.base THEN offset
    ELSE Dword(offset - lib.preferred + lib.base)

calculate_coff_address(lib, x) == calculate_segmented_address(lib, x.value)

\* A definition of a function is followed by an entry with its size and by
\* those of its beginning, its lines and its end.
calculate_function_debug_offsets(lib, i) ==
    LET at  == calculate_coff_address(lib, lib.coff[i])
        aux == following_coff_symbol(i)
        bf  == following_coff_symbol(aux)
        lf  == following_coff_symbol(following_coff_symbol(bf))
        ef  == following_coff_symbol(lf)
        full == /\ ef <= Len(lib.coff)
                /\ is_begin_function_record(lib.coff[bf])
                /\ is_end_function_record(lib.coff[ef])
                /\ is_lines_in_function_record(lib.coff[lf])
        end == IF full THEN Dword(at + lib.coff[aux].size) ELSE at
    IN  IF is_function_defining_record(lib.coff[i])
        THEN [function |-> TRUE, ds |-> at, de |-> end, fin |-> end]
        ELSE [function |-> FALSE, ds |-> at, de |-> at, fin |-> at]

\* The entries that are symbols, in order: each says how many to skip.
Standard(lib) ==
    Loop(LAMBDA all, i :
               IF all = <<>> \/ i > Last(all) + lib.coff[Last(all)].aux THEN Append(all, i) ELSE all,
             <<>>, [i \in 1 .. Len(lib.coff) |-> i])

Language(name) == IF name[1] = "_" THEN "C" ELSE "Dylan"

NoCoffSymbol == [found |-> FALSE, address |-> 0, class |-> 0, function |-> FALSE,
                 ds |-> 0, de |-> 0, last |-> 0, lang |-> "C"]

\* What is answered about the entry i, with the function offsets of entry j.
CoffAnswer(lib, i, j, lang) ==
    LET f == calculate_function_debug_offsets(lib, j) IN
    [NoCoffSymbol EXCEPT !.found = TRUE, !.address = calculate_coff_address(lib, lib.coff[i]),
                         !.lang = lang, !.function = f.function,
                         !.ds = IF f.function THEN f.ds ELSE 0,
                         !.de = IF f.function THEN f.de ELSE 0,
                         !.last = IF f.function THEN f.fin ELSE 0]

find_symbol_in_coff_map(lib, name) ==
    LET same(i) == compare_coff_names(lib.coff[i], name)
        found == SelectSeq(Standard(lib), same)
    IN  IF lib.coff = Null \/ found = <<>> THEN NoCoffSymbol
        ELSE CoffAnswer(lib, Head(found), Head(found), Language(name))

\* The symbol at or before an address.  The search ends at a symbol with that
\* very address; the offsets of the function are those of the symbol that was
\* looked at last.
closest_symbol_in_coff_map(lib, target) ==
    LET step(a, i) ==
          LET x  == lib.coff[i]
              at == calculate_coff_address(lib, x)
          IN  IF a.done THEN a
              ELSE IF is_non_data_record(x) THEN [a EXCEPT !.this = i]
              ELSE IF at = target THEN [this |-> i, closest |-> i, at |-> at, done |-> TRUE]
              ELSE IF at < target /\ at > a.at THEN [a EXCEPT !.this = i, !.closest = i, !.at = at]
              ELSE [a EXCEPT !.this = i]
        all == Loop(step, [this |-> 0, closest |-> 0, at |-> 0, done |-> FALSE], Standard(lib))
        x   == lib.coff[all.closest]
        none == [answer |-> NoCoffSymbol, length |-> 0, name |-> Null]
    IN  IF lib.coff = Null THEN none
        ELSE IF all.closest = 0 THEN none
        ELSE [answer |-> CoffAnswer(lib, all.closest, all.this,
                                    Language(calculate_coff_symbol_name_pointer(x))),
              length |-> calculate_coff_symbol_name_length(x),
              name |-> calculate_coff_symbol_name_pointer(x)]
=============================================================================
