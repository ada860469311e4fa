------------------------------ MODULE DebugMap ------------------------------
(***************************************************************************)
(* The CodeView debug information of a library, as the debugger nub for    *)
(* Windows NT finds its way through it (debug_map.c), written as operators *)
(* that SymbolLookup puts together into the calls of the nub.              *)
(*                                                                         *)
(* A library lib has the fields                                            *)
(*   base      ImageBase, where the image is loaded                        *)
(*   type      DebugType: "notYetLoaded", "none", "codeview", "pdb" or     *)
(*             "coff"                                                      *)
(*   info      DebugMap: the mapped debug information, or Null             *)
(*   sub, sym, ptr                                                         *)
(*             the cursor: Subsection, Symbol and SymbolPointer            *)
(* and info the fields                                                     *)
(*   sig       the signature of the CodeView data                          *)
(*   coff      whether there are COFF symbols in the map                   *)
(*   sections  the VirtualAddress of each section                          *)
(*   dir       the directory of subsections [type, lfo, cb]                *)
(*   units     what is mapped, in the order of memory.  A unit is a symbol *)
(*             record, the prolog of a subsection of symbols or the table  *)
(*             of a subsection of source lines.  Lengths (cb) and pointers *)
(*             count units, so that the pointer after p is p + 1; Null is  *)
(*             the pointer 0.  As in the map, cb counts the prolog too     *)
(* A unit has an index, the kind of the record, which stands for its 16    *)
(* bit, 32 bit and new variants except where the code tells them apart;    *)
(* read as a record, anything that is not one has some index too.          *)
(***************************************************************************)
EXTENDS Integers, Sequences, FiniteSets, SequencesExt

CONSTANTS
    Word,                  \* addresses are numbers below Word (2^32)
    Null,
    Unset,                 \* what an output that was not assigned holds
    SegmentSize,           \* LOOKUP_TABLE_SEGMENT_SIZE
    MaxSourceLocations     \* MAX_SOURCE_LOCATIONS

ASSUME WordAssumption == Word \in Nat \ {0}
ASSUME SegmentSizeAssumption == SegmentSize \in Nat \ {0}

Dword(n) == n % Word

Linear  == {"symbols", "alignSym", "publicSym"}
Hashed  == {"globalSym", "globalPub", "staticSym"}

Procs32 == {"lproc", "gproc"}
Procs   == Procs32 \cup {"lproc16", "gproc16"}
Data    == {"ldata", "gdata", "pub"}
Lexical == {"bprel", "register"}
Scopes  == Procs32 \cup {"block"}

(***************************************************************************)
(* The directory of subsections, and what kind of information there is     *)
(***************************************************************************)

number_of_codeview_subsections(info) == IF info = Null THEN 0 ELSE Len(info.dir)

codeview_subsection_type(info, ss) == IF info = Null THEN 0 ELSE info.dir[ss].type

codeview_subsection_offset(info, ss) == IF info = Null THEN 0 ELSE info.dir[ss].lfo

codeview_subsection_size(info, ss) == IF info = Null THEN 0 ELSE info.dir[ss].cb

codeview_present_in_image(info) == info # Null /\ info.sig \in {"NB09", "NB11"}

codeview_present_in_pdb(info) == info # Null /\ info.sig \in {"NB10", "RSDS"}

coff_table_present_in_image(info) == info.coff

size_of_subsection_prolog(type) == IF type \in Linear \cup Hashed THEN 1 ELSE 0

\* Map the information that belongs to the image and see what there is of it.
create_library_debug_map(lib, mapped) ==
    LET type == CASE mapped = Null -> "none"
                  [] codeview_present_in_image(mapped) -> "codeview"
                  [] codeview_present_in_pdb(mapped) -> "pdb"
                  [] coff_table_present_in_image(mapped) -> "coff"
                  [] OTHER -> "none"
    IN  IF mapped = Null THEN [lib EXCEPT !.info = Null, !.type = type]
        ELSE [lib EXCEPT !.info = mapped, !.type = type, !.sub = 0, !.sym = 0, !.ptr = 0]

release_library_debug_map(lib) == [lib EXCEPT !.info = Null, !.handler = FALSE]

(***************************************************************************)
(* Symbol records                                                          *)
(***************************************************************************)

Rec(lib, p) == lib.info.units[p]

\* Records are counted until all bytes of the subsection are accounted for.
\* The linear subsections count their prolog as bytes of records, so that one
\* more record is read than there are; the hashed ones know better.
last_symbol_in_subsection(info, ss) ==
    LET type == codeview_subsection_type(info, ss) IN
    CASE type \in Linear -> codeview_subsection_size(info, ss)
      [] type \in Hashed -> info.units[codeview_subsection_offset(info, ss)].cbSymbol
      [] OTHER -> 0

\* Mutant: the cursor is moved onwards in whatever subsection it is.
get_cv_sym_from_debug_map_onward(lib, ss, symbol) ==
    LET start == codeview_subsection_offset(lib.info, ss)
                   + size_of_subsection_prolog(codeview_subsection_type(lib.info, ss))
        onward == lib.ptr # 0 /\ lib.sym <= symbol
        p == IF onward THEN lib.ptr + (symbol - lib.sym) ELSE start + symbol
    IN  [lib |-> [lib EXCEPT !.sub = ss, !.sym = symbol, !.ptr = p], ptr |-> p]

\* The record of a symbol (counted from 0), from the cursor onwards if it is
\* before the symbol in the same subsection and from the start otherwise; the
\* cursor stays there.
get_cv_sym_from_debug_map(lib, ss, symbol) ==
    LET start == codeview_subsection_offset(lib.info, ss)
                   + size_of_subsection_prolog(codeview_subsection_type(lib.info, ss))
        onward == lib.sub = ss /\ lib.ptr # 0 /\ lib.sym <= symbol
        p == IF onward THEN lib.ptr + (symbol - lib.sym) ELSE start + symbol
    IN  [lib |-> [lib EXCEPT !.sub = ss, !.sym = symbol, !.ptr = p], ptr |-> p]

\* Every symbol of the subsections of some types, in the order of the map.
Symbols(lib, types) ==
    FoldLeft(LAMBDA all, ss :
               IF codeview_subsection_type(lib.info, ss) \notin types THEN all
               ELSE all \o [i \in 1 .. last_symbol_in_subsection(lib.info, ss) |-> <<ss, i - 1>>],
             <<>>, [ss \in 1 .. number_of_codeview_subsections(lib.info) |-> ss])

\* FoldLeft, in time linear in the length of the sequence.
Loop(Step(_, _), acc, seq) ==
    LET after[i \in 0 .. Len(seq)] == IF i = 0 THEN acc ELSE Step(after[i - 1], seq[i])
    IN  after[Len(seq)]

\* A loop over these symbols: acc.lib has the cursor, acc.done ends it.
Scan(types, acc, Step(_, _, _)) ==
    Loop(LAMBDA a, s :
               IF a.done THEN a
               ELSE LET got == get_cv_sym_from_debug_map(a.lib, s[1], s[2])
                    IN  Step([a EXCEPT !.lib = got.lib], s[1], got.ptr),
             acc, Symbols(acc.lib, types))

should_be_in_all_symbols_scan(r) == r.index \in Data \cup Procs

SegmentedAddress(lib, r) == Dword(lib.base + lib.info.sections[r.seg] + r.offset)

\* Lexical variables are relative to the frame; 0 when there is no address.
cv_symbol_address(lib, FP, p) ==
    IF p = 0 THEN 0
    ELSE LET r == Rec(lib, p) IN
         CASE r.index = "bprel" -> Dword(FP + r.offset)
           [] should_be_in_all_symbols_scan(r) -> SegmentedAddress(lib, r)
           [] OTHER -> 0

\* Mutant: the byte after the scope is counted as part of it.
cv_sym_encloses_IP32_inclusive(lib, p, IP) ==
    LET r == Rec(lib, p) IN
    /\ p # 0 /\ r.index \in Scopes
    /\ SegmentedAddress(lib, r) <= IP
    /\ IP <= Dword(SegmentedAddress(lib, r) + r.length)

cv_sym_encloses_IP32(lib, p, IP) ==
    LET r == Rec(lib, p) IN
    /\ p # 0 /\ r.index \in Scopes
    /\ SegmentedAddress(lib, r) <= IP
    /\ IP <= Dword(SegmentedAddress(lib, r) + r.length - 1)

\* Where in the function the frame is set up and taken down, and its length.
cv_get_function_offsets(r) ==
    [function |-> r.index \in Procs,
     ds |-> IF r.index \in Procs THEN r.start ELSE Unset,
     de |-> IF r.index \in Procs THEN r.end ELSE Unset,
     e  |-> IF r.index \in Procs THEN r.length ELSE Unset]

\* Names are equal but for an underscore in front of one of them.  When it is
\* in front of the first, the last character is not compared.
equal_symbolic_names(name1, name2) ==
    LET i1 == IF Len(name1) = Len(name2) + 1 /\ name1[1] = "_" THEN 1 ELSE 0
        i2 == IF Len(name2) = Len(name1) + 1 /\ name2[1] = "_" THEN 1 ELSE 0
        l1 == Len(name1) - i1
    IN  /\ l1 = Len(name2) - i2
        /\ \A i \in i1 .. l1 - 1 : name1[i + 1] = name2[i - i1 + i2 + 1]

equal_cv_names(r, name) ==
    should_be_in_all_symbols_scan(r) /\ equal_symbolic_names(name, r.name)

(***************************************************************************)
(* Looking for symbols by address and by name                              *)
(***************************************************************************)

\* The function that has IP in its code, or else the last symbol before it.
\* The language is that of the last compiler record that was passed.
IP32_to_cv_sym_from_debug_map(lib, IP) ==
    LET step(a, ss, p) ==
          LET r == Rec(a.lib, p)
              lang == IF r.index = "compile" THEN r.lang ELSE a.lang
              address == cv_symbol_address(a.lib, 0, p)
          IN  IF /\ codeview_subsection_type(a.lib.info, ss) \notin {"publicSym", "globalPub"}
                 /\ cv_sym_encloses_IP32(a.lib, p, IP)
              THEN [a EXCEPT !.ptr = p, !.lang = lang, !.done = TRUE]
              ELSE IF address > a.closest /\ address <= IP
              THEN [a EXCEPT !.ptr = p, !.lang = lang, !.closest = address]
              ELSE [a EXCEPT !.lang = lang]
        none == [lib |-> lib, ptr |-> 0, lang |-> Unset, closest |-> 0, done |-> FALSE]
    IN  IF lib.type # "codeview" THEN none
        ELSE Scan(Linear \cup Hashed, none, step)

NotFound == [found |-> FALSE, address |-> 0, class |-> Unset, function |-> FALSE,
             ds |-> 0, de |-> 0, last |-> 0, lang |-> Unset]

Unassigned == [found |-> FALSE, address |-> Unset, class |-> Unset, function |-> Unset,
               ds |-> Unset, de |-> Unset, last |-> Unset, lang |-> Unset]

\* The symbol at or before an address; its name is left in the name cache.
closest_symbol_in_debug_map(lib, address) ==
    LET near == IP32_to_cv_sym_from_debug_map(lib, address)
        r    == Rec(lib, near.ptr)
        at   == cv_symbol_address(lib, 0, near.ptr)
        f    == cv_get_function_offsets(r)
        named == should_be_in_all_symbols_scan(r)
    IN  IF near.ptr = 0
        THEN [lib |-> near.lib, answer |-> NotFound, length |-> 0, name |-> Null]
        ELSE [lib |-> near.lib,
              answer |-> [found |-> TRUE, address |-> at, class |-> Unset, function |-> f.function,
                          ds   |-> IF f.function THEN Dword(at + f.ds) ELSE 0,
                          de   |-> IF f.function THEN Dword(at + f.de) ELSE 0,
                          last |-> IF f.function THEN Dword(at + f.e - 1) ELSE 0,
                          lang |-> near.lang],
              length |-> IF named THEN Len(r.name) ELSE 40,
              name |-> IF named THEN r.name ELSE <<"NAME_SEARCH_ERROR">>]

\* The first symbol of that name.  What is not known of data is not assigned,
\* and the last address of a global function is that of the byte after it.
find_symbol_in_debug_map(lib, name) ==
    LET static(a, ss) == codeview_subsection_type(a.lib.info, ss) \notin {"globalSym", "globalPub"}
        class(a, ss) == IF static(a, ss) THEN "static" ELSE "global"
        found(a, ss, p, lang) ==
          LET at == cv_symbol_address(a.lib, 0, p)
              f  == cv_get_function_offsets(Rec(a.lib, p))
          IN  [found |-> TRUE, address |-> at,
               class |-> class(a, ss),
               function |-> f.function,
               ds   |-> IF f.function THEN Dword(at + f.ds) ELSE at,
               de   |-> IF f.function THEN Dword(at + f.de) ELSE at,
               last |-> IF ~f.function THEN Unset
                        ELSE IF static(a, ss) THEN Dword(at + f.e - 1) ELSE Dword(at + f.e),
               lang |-> lang]
        step(a, ss, p) ==
          LET r == Rec(a.lib, p)
              lang == IF static(a, ss) /\ r.index = "compile" THEN r.lang ELSE a.answer.lang
          IN  IF equal_cv_names(r, name)
              THEN [a EXCEPT !.answer = found(a, ss, p, lang), !.done = TRUE]
              ELSE [a EXCEPT !.answer.lang = lang, !.answer.class = class(a, ss)]
    IN  Scan((Linear \cup Hashed) \ {"publicSym"},
             [lib |-> lib, answer |-> Unassigned, done |-> FALSE], step)

\* The closest symbols below and above an address.  What has no address is at
\* address 0.
Neighbours(near, at) ==
    LET lang(r) == IF r.index = "compile" THEN r.lang ELSE 0
        step(a, ss, p) ==
          LET address == cv_symbol_address(a.lib, 0, p)
              this == [ptr |-> p, address |-> address, lang |-> lang(Rec(a.lib, p))]
          IN  IF address < at /\ (a.previous.ptr = 0 \/ address > a.previous.address)
              THEN [a EXCEPT !.previous = this]
              ELSE IF address > at /\ (a.next.ptr = 0 \/ address < a.next.address)
              THEN [a EXCEPT !.next = this]
              ELSE a
        none == [ptr |-> 0, address |-> Unset, lang |-> 0]
    IN  Scan(Linear \cup Hashed, [lib |-> near.lib, previous |-> none, next |-> none, done |-> FALSE], step)

function_bounding_addresses_in_debug_map(lib, IP) ==
    LET near == IP32_to_cv_sym_from_debug_map(lib, IP)
        at   == cv_symbol_address(lib, 0, near.ptr)
        both == Neighbours(near, at)
    IN  IF near.ptr = 0 THEN [lib |-> near.lib, lower |-> IP, upper |-> IP]
        ELSE [lib |-> both.lib, lower |-> at,
              upper |-> IF both.next.ptr = 0 THEN IP ELSE both.next.address]

(***************************************************************************)
(* Lookup tables: sequences of symbols in chained segments of a fixed size *)
(***************************************************************************)

new_lookup_table(lib) == [lib |-> lib, segments |-> << <<>> >>]

Entry(p, lang) == [ptr |-> p, lang |-> lang]

add_lookup_table_entry(table, p, lang) ==
    IF Len(Last(table.segments)) = SegmentSize
    THEN [table EXCEPT !.segments = Append(@, <<Entry(p, lang)>>)]
    ELSE [table EXCEPT !.segments[Len(table.segments)] = Append(@, Entry(p, lang))]

nearest_symbols_in_debug_map(lib, IP) ==
    LET near == IP32_to_cv_sym_from_debug_map(lib, IP)
        both == Neighbours(near, cv_symbol_address(lib, 0, near.ptr))
        lang == IF near.lang = Unset THEN 0 ELSE near.lang
        three == << <<near.ptr, lang>>, <<both.previous.ptr, both.previous.lang>>,
                    <<both.next.ptr, both.next.lang>> >>
    IN  [lib |-> both.lib,
         table |-> FoldLeft(LAMBDA t, e : add_lookup_table_entry(t, e[1], e[2]),
                            new_lookup_table(lib.id), three)]

\* The program symbols of the subsections of some types.
Listed(lib, types) ==
    LET step(a, ss, p) ==
          IF should_be_in_all_symbols_scan(Rec(a.lib, p))
          THEN [a EXCEPT !.table = add_lookup_table_entry(@, p, 0), !.last = @ + 1]
          ELSE a
    IN  Scan(types, [lib |-> lib, table |-> new_lookup_table(lib.id), last |-> 0, done |-> FALSE], step)

static_symbols_from_debug_map(lib) == Listed(lib, {"symbols", "alignSym", "staticSym"})

global_symbols_from_debug_map(lib) == Listed(lib, {"globalSym", "globalPub"})

\* Not written yet in the code.
exported_symbols_from_debug_map(lib) == [lib |-> lib, table |-> new_lookup_table(lib.id), last |-> 0]

\* The lexical variables of a function that are in scope at IP.  A scope that
\* does not enclose IP is skipped, with all scopes in it.
pull_lexicals_within_scope(lib, start, table, IP) ==
    LET step(a, p) ==
          LET r == Rec(lib, p) IN
          CASE a.done -> a
            [] ~a.done /\ a.skipping /\ r.index \in Scopes -> [a EXCEPT !.temp = @ + 1]
            [] ~a.done /\ a.skipping /\ r.index = "end" ->
                 IF a.temp > 0 THEN [a EXCEPT !.temp = @ - 1] ELSE [a EXCEPT !.skipping = FALSE]
            [] ~a.done /\ ~a.skipping /\ r.index = "end" ->
                 IF a.level > 0 THEN [a EXCEPT !.level = @ - 1] ELSE [a EXCEPT !.done = TRUE]
            [] ~a.done /\ ~a.skipping /\ r.index \in Lexical ->
                 [a EXCEPT !.table = add_lookup_table_entry(@, p, 0), !.counter = @ + 1]
            [] ~a.done /\ ~a.skipping /\ r.index \in Scopes ->
                 IF cv_sym_encloses_IP32(lib, p, IP) THEN [a EXCEPT !.level = @ + 1]
                 ELSE [a EXCEPT !.skipping = TRUE, !.temp = 0]
            [] OTHER -> a
        none == [table |-> table, counter |-> 0, level |-> 0, temp |-> 0,
                 skipping |-> FALSE, done |-> FALSE]
    IN  IF start = 0 \/ Rec(lib, start).index \notin Procs THEN none
        ELSE Loop(step, none, [i \in 1 .. Len(lib.info.units) - start |-> start + i])

all_lexicals_from_debug_map(lib, IP) ==
    LET near == IP32_to_cv_sym_from_debug_map(lib, IP)
        all  == pull_lexicals_within_scope(near.lib, near.ptr, new_lookup_table(lib.id), IP)
    IN  [lib |-> near.lib, table |-> all.table, last |-> all.counter]

(***************************************************************************)
(* Reading the entries of a lookup table                                   *)
(***************************************************************************)

lexical_name_length_from_debug_map(lib, e) ==
    IF e.ptr = 0 \/ Rec(lib, e.ptr).index \notin Lexical THEN 0 ELSE Len(Rec(lib, e.ptr).name)

symbol_name_length_from_debug_map(lib, e) ==
    IF e.ptr = 0 \/ ~should_be_in_all_symbols_scan(Rec(lib, e.ptr)) THEN 0
    ELSE Len(Rec(lib, e.ptr).name)

\* The name is cut to the size of the buffer.
lexical_name_from_debug_map(lib, e, size) ==
    LET length == lexical_name_length_from_debug_map(lib, e) IN
    IF length = 0 THEN <<>> ELSE SubSeq(Rec(lib, e.ptr).name, 1, IF size < length THEN size ELSE length)

symbol_name_from_debug_map(lib, e, size) ==
    LET length == symbol_name_length_from_debug_map(lib, e) IN
    IF length = 0 THEN <<>> ELSE SubSeq(Rec(lib, e.ptr).name, 1, IF size < length THEN size ELSE length)

\* An offset from the frame, or a register.
lexical_address_from_debug_map(lib, e) ==
    LET r == Rec(lib, e.ptr) IN
    IF e.ptr = 0 \/ r.index \notin Lexical THEN [offset |-> 0, register |-> Unset]
    ELSE IF r.index = "bprel" THEN [offset |-> r.offset, register |-> FALSE]
    ELSE [offset |-> 0, register |-> TRUE]

symbol_address_from_debug_map(lib, e) ==
    LET r == Rec(lib, e.ptr) IN
    IF e.ptr = 0 \/ ~should_be_in_all_symbols_scan(r) THEN 0 ELSE SegmentedAddress(lib, r)

symbol_is_function_from_debug_map(lib, e) == e.ptr # 0 /\ Rec(lib, e.ptr).index \in Procs

\* For data these are the address itself; the end is then the byte before it.
function_debug_start_from_debug_map(lib, e) ==
    LET at == symbol_address_from_debug_map(lib, e) IN
    IF at = 0 \/ ~symbol_is_function_from_debug_map(lib, e) THEN at
    ELSE Dword(at + Rec(lib, e.ptr).start)

function_debug_end_from_debug_map(lib, e) ==
    LET at == symbol_address_from_debug_map(lib, e) IN
    IF at = 0 \/ ~symbol_is_function_from_debug_map(lib, e) THEN at
    ELSE Dword(at + Rec(lib, e.ptr).end)

function_end_from_debug_map(lib, e) ==
    LET at == symbol_address_from_debug_map(lib, e) IN
    IF at = 0 THEN 0
    ELSE IF symbol_is_function_from_debug_map(lib, e) THEN Dword(at + Rec(lib, e.ptr).length - 1)
    ELSE Dword(at - 1)

(***************************************************************************)
(* Source locations: a table has files, a file segments, a segment the     *)
(* pairs of an offset and a line number.  Counted from 1 here              *)
(***************************************************************************)

SourceTable(lib, ss) == lib.info.units[codeview_subsection_offset(lib.info, ss)]

per_source_table_info_from_debug_map(lib, ss) == Len(SourceTable(lib, ss).files)

per_file_info_from_debug_map(lib, ss, file) ==
    [segments |-> Len(SourceTable(lib, ss).files[file].segments),
     name     |-> SourceTable(lib, ss).files[file].name]

per_segment_info_from_debug_map(lib, ss, file, segment) ==
    [index |-> SourceTable(lib, ss).files[file].segments[segment].index,
     pairs |-> Len(SourceTable(lib, ss).files[file].segments[segment].pairs)]

per_pair_info_from_debug_map(lib, ss, file, segment, pair) ==
    [offset |-> SourceTable(lib, ss).files[file].segments[segment].pairs[pair][1],
     line   |-> SourceTable(lib, ss).files[file].segments[segment].pairs[pair][2]]

\* The files of all source tables, and their segments, in the order of the map.
SourceFiles(lib) ==
    FoldLeft(LAMBDA all, ss :
               IF codeview_subsection_type(lib.info, ss) # "srcModule" THEN all
               ELSE all \o [f \in 1 .. per_source_table_info_from_debug_map(lib, ss) |-> <<ss, f>>],
             <<>>, [ss \in 1 .. number_of_codeview_subsections(lib.info) |-> ss])

SourceSegments(lib) ==
    FoldLeft(LAMBDA all, f :
               all \o [s \in 1 .. per_file_info_from_debug_map(lib, f[1], f[2]).segments |-> f \o <<s>>],
             <<>>, SourceFiles(lib))

\* The locations between two addresses, from the first segment that contains
\* the range or is contained in it; Null when there is none.
source_locations_from_debug_map(lib, start, end) ==
    LET base(g) == lib.base + lib.info.sections[per_segment_info_from_debug_map(lib, g[1], g[2], g[3]).index]
        pairs(g) == [i \in 1 .. per_segment_info_from_debug_map(lib, g[1], g[2], g[3]).pairs |->
                       per_pair_info_from_debug_map(lib, g[1], g[2], g[3], i)]
        first(g) == base(g) + Head(pairs(g)).offset
        last(g)  == base(g) + Last(pairs(g)).offset
        relevant(g) == \/ first(g) <= start /\ end <= last(g)
                       \/ start <= first(g) /\ last(g) <= end
        segments == SelectSeq(SourceSegments(lib), relevant)
        g == Head(segments)
        inside(q) == start <= base(g) + q.offset /\ base(g) + q.offset < end
        chosen == SelectSeq(pairs(g), inside)
    IN  IF segments = <<>> \/ chosen = <<>> THEN Null
        ELSE [name |-> per_file_info_from_debug_map(lib, g[1], g[2]).name,
              locations |-> [i \in 1 .. IF Len(chosen) < MaxSourceLocations
                                        THEN Len(chosen) ELSE MaxSourceLocations |->
                               [offset |-> base(g) + chosen[i].offset - start, line |-> chosen[i].line]]]

\* The leaf of a path is the file that is wanted.
file_names_match_in_debug_map(wanted, name) ==
    LET starts == {i \in 0 .. Len(name) - 1 : i = 0 \/ name[i] \in {"/", "\\"}}
        leaf == CHOOSE i \in starts : \A j \in starts : j <= i
    IN  wanted = SubSeq(name, leaf + 1, Len(name))

absolute_difference(x, y) == IF x > y THEN x - y ELSE y - x

is_closer_linenumber(this, than, to) == absolute_difference(this, to) < absolute_difference(than, to)

\* The address of a line of the first file of that name: of the line itself or
\* of the one closest to it.  The base and the number of pairs of the first
\* segment are used for all of them.
resolve_source_location_in_debug_map(lib, filename, line) ==
    LET match(f) == file_names_match_in_debug_map(filename, per_file_info_from_debug_map(lib, f[1], f[2]).name)
        files == SelectSeq(SourceFiles(lib), match)
        f == Head(files)
        first == per_segment_info_from_debug_map(lib, f[1], f[2], 1)
        n == per_file_info_from_debug_map(lib, f[1], f[2]).segments * first.pairs
        pairs == [k \in 1 .. n |->
                    per_pair_info_from_debug_map(lib, f[1], f[2], ((k - 1) \div first.pairs) + 1,
                                                 ((k - 1) % first.pairs) + 1)]
        step(best, q) == IF best.line # line /\ (q.line = line \/ is_closer_linenumber(q.line, best.line, line))
                         THEN q ELSE best
        best == FoldLeft(step, per_pair_info_from_debug_map(lib, f[1], f[2], 1, 1), pairs)
    IN  IF lib.info = Null \/ files = <<>> THEN [found |-> FALSE, address |-> 0, exact |-> FALSE]
        ELSE [found |-> TRUE, exact |-> best.line = line,
              address |-> lib.base + lib.info.sections[first.index] + best.offset]
=============================================================================
