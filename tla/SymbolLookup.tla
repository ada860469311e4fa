---------------------------- MODULE SymbolLookup ----------------------------
(***************************************************************************)
(* What the debugger nub for Windows NT knows of the libraries of the      *)
(* debuggee and what the access path asks it about their symbols, source   *)
(* lines and stack frames (symbol_lookup.c, source_location_info.c and     *)
(* parts of misc_utils.c and stack_backtrace2.c).  Each call of the nub is *)
(* a step: the nub serves one call at a time.                              *)
(***************************************************************************)
EXTENDS CoffMap

CONSTANTS
    Library,               \* the libraries of the debuggee
    MaxEntries,            \* MAX_BOUNDARY_CACHE_ENTRIES
    MaxHits,               \* bound on the hits of an entry of the cache
    Granularity,           \* INTERACTIVE_CODE_TABLE_GRANULARITY
    MaxInteractive,        \* bound on the interactive segments registered
    MaxFrames              \* STACK_TRACE_MAX_SIZE

ASSUME MaxEntriesAssumption == MaxEntries \in Nat \ {0}
ASSUME GranularityAssumption == Granularity \in Nat \ {0}

VARIABLES
    image,     \* of each library: base, preferred base, debug information and
               \* COFF table of the file, the symbols DbgHelp can find
    libs,      \* the LPDBGLIBRARY descriptors
    list,      \* process->LibraryList
    handler,   \* process->SymbolHandlerWorking
    buffer,    \* process->SymbolBuffer and SymbolBufferValid
    name,      \* process->NameCache and the length that goes with it
    segments,  \* process->InteractiveCodeSegments
    table,     \* the lookup table handed out last, with its last index
    locations, \* the SL_LOOKUP_TABLE handed out last, or Null
    trace,     \* the stack trace of the thread, or Null
    answer     \* the last call and what it returned

lookupVars == <<image, libs, list, handler, buffer, name, segments, table, locations, trace, answer>>

NoCache == [full |-> FALSE, entries |-> <<>>]

(***************************************************************************)
(* Libraries                                                               *)
(***************************************************************************)

\* A new descriptor, of which only the header of the image is read.
Described(l) ==
    pull_image_header(
      [id |-> l, base |-> image[l].base, preferred |-> image[l].preferred, type |-> "notYetLoaded",
       info |-> Null, sub |-> 0, sym |-> 0, ptr |-> 0, handler |-> FALSE, cache |-> NoCache,
       file |-> image[l].file, coff |-> Null])

add_library_descriptor(l) ==
    /\ l \notin ToSet(list)
    /\ libs' = [libs EXCEPT ![l] = Described(l)]
    /\ list' = Append(list, l)
    /\ answer' = [call |-> <<"load", l>>]
    /\ UNCHANGED <<image, handler, buffer, name, segments, table, locations, trace>>

library_index_from_descriptor(l) ==
    IF l \in ToSet(list) THEN CHOOSE i \in DOMAIN list : list[i] = l ELSE 0

library_descriptor_from_index(i) == IF i \in DOMAIN list THEN list[i] ELSE Head(list)

\* The library with the highest base below the address, or else the first.
library_descriptor_from_address(address) ==
    FoldLeft(LAMBDA r, l : IF /\ libs[l].base < address
                              /\ libs[l].base > libs[r].base \/ libs[r].base > address
                           THEN l ELSE r,
             Head(list), list)

library_descriptor_from_base_address(base) ==
    LET there(l) == libs[l].base = base
        found == SelectSeq(list, there)
    IN  IF found = <<>> THEN Head(list) ELSE Head(found)

\* The debug information is mapped when something is asked about the library.
ensure_debug_information_for_library(lib) ==
    LET mapped == pull_image_information(
                    create_library_debug_map([lib EXCEPT !.type = "none"], image[lib.id].mapped))
    IN  IF lib.type # "notYetLoaded" THEN lib
        ELSE IF handler /\ mapped.type \in {"none", "pdb"}
        THEN [mapped EXCEPT !.handler = image[lib.id].dbghelp # {}]
        ELSE mapped

\* What DbgHelp knows: it is external.  A symbol is an address, a size, a name
\* and whether it is a function.
DbgHelpSymbols == UNION {image[l].dbghelp : l \in {m \in ToSet(list) : libs[m].handler}}

Covers(s, address) == s.address <= address /\ address < s.address + s.size

SymFromAddr(known, address) == {s \in known : Covers(s, address)}

DbgLanguage(text) == IF text[1] = "K" /\ Last(text) = "I" THEN "Dylan" ELSE "C"

nub_enumerate_symbol_callback(s) == [symbol |-> s, valid |-> TRUE]

DbgAnswer(s) ==
    [found |-> TRUE, address |-> s.address, class |-> Unset, function |-> s.function,
     ds |-> s.address, de |-> Dword(s.address + s.size), last |-> Dword(s.address + s.size),
     lang |-> DbgLanguage(s.name)]

(***************************************************************************)
(* Symbols by address and by name                                          *)
(***************************************************************************)

Found(l, lib, call, a) ==
    /\ libs' = [libs EXCEPT ![l] = lib]
    /\ answer' = [call |-> call, lib |-> l, answer |-> a]
    /\ UNCHANGED <<image, list, handler, segments, table, locations, trace>>

nub_closest_symbol(location) ==
    LET l   == library_descriptor_from_address(location)
        lib == ensure_debug_information_for_library(libs[l])
        cv  == closest_symbol_in_debug_map(lib, location)
        cf  == closest_symbol_in_coff_map(lib, location)
        known == (IF lib.handler THEN image[l].dbghelp ELSE {}) \cup DbgHelpSymbols
        dbg == SymFromAddr(known, location)
        s   == CHOOSE x \in dbg : TRUE
        call == <<"closest", location>>
    IN  CASE lib.type = "codeview" ->
               /\ name' = IF cv.answer.found THEN [text |-> cv.name, length |-> cv.length] ELSE name
               /\ UNCHANGED buffer
               /\ Found(l, cv.lib, call, cv.answer)
          [] lib.type = "coff" ->
               /\ name' = IF cf.answer.found THEN [text |-> cf.name, length |-> cf.length] ELSE name
               /\ UNCHANGED buffer
               /\ Found(l, lib, call, cf.answer)
          [] lib.type \in {"none", "pdb"} /\ dbg # {} ->
               /\ buffer' = [buffer EXCEPT !.symbol = s]
               /\ name' = [text |-> s.name, length |-> Len(s.name)]
               /\ Found(l, lib, call, DbgAnswer(s))
          [] OTHER -> UNCHANGED <<buffer, name>> /\ Found(l, lib, call, Unassigned)

\* The caller asks for the length it was told, which is longer than the text
\* when the symbol has no name.
nub_closest_symbol_name ==
    /\ name # Null
    /\ answer' = [call |-> <<"name", 0>>, text |-> name.text, beyond |-> name.length > Len(name.text)]
    /\ UNCHANGED <<image, libs, list, handler, buffer, name, segments, table, locations, trace>>

nub_find_symbol_in_library(l, wanted) ==
    LET lib == ensure_debug_information_for_library(libs[l])
        cv  == find_symbol_in_debug_map(lib, wanted)
        dbg == {s \in image[l].dbghelp : s.name = wanted}
        s   == CHOOSE x \in dbg : TRUE
        call == <<"find", wanted>>
    IN  CASE lib.type = "codeview" -> UNCHANGED <<buffer, name>> /\ Found(l, cv.lib, call, cv.answer)
          [] lib.type = "coff" ->
               UNCHANGED <<buffer, name>> /\ Found(l, lib, call, find_symbol_in_coff_map(lib, wanted))
          [] lib.type \in {"none", "pdb"} /\ lib.handler /\ dbg # {} ->
               /\ buffer' = nub_enumerate_symbol_callback(s)
               /\ name' = [text |-> s.name, length |-> Len(s.name)]
               /\ Found(l, lib, call, DbgAnswer(s))
          [] OTHER ->
               /\ buffer' = IF lib.handler THEN [buffer EXCEPT !.valid = FALSE] ELSE buffer
               /\ UNCHANGED name
               /\ Found(l, lib, call, Unassigned)

(***************************************************************************)
(* The bounds of functions, with a cache for each library                  *)
(***************************************************************************)

\* The entry for an address: the index of the first that was last asked for
\* this very address, or that has it within its bounds; 0 if there is none.
search_boundary_cache(cache, addr) ==
    LET hit(i) == LET e == cache.entries[i] IN e.addr = addr \/ (e.lower <= addr /\ addr <= e.upper)
        hits == {i \in DOMAIN cache.entries : hit(i)}
    IN  IF hits = {} THEN 0 ELSE CHOOSE i \in hits : \A j \in hits : i <= j

\* Mutant: the entry that is thrown out leaves the address of its last hit.
add_boundary_cache_keeping(cache, addr, lower, upper) ==
    LET new == [hits |-> 0, lower |-> lower, upper |-> upper, addr |-> addr]
        least == CHOOSE i \in DOMAIN cache.entries : \A j \in DOMAIN cache.entries :
                   \/ cache.entries[i].hits < cache.entries[j].hits
                   \/ cache.entries[i].hits = cache.entries[j].hits /\ i <= j
    IN  IF lower = upper THEN cache
        ELSE IF cache.full
        THEN [cache EXCEPT !.entries[least] = [new EXCEPT !.addr = cache.entries[least].addr]]
        ELSE [entries |-> Append(cache.entries, new), full |-> Len(cache.entries) + 1 >= MaxEntries]

\* When the cache is full, the entry with the fewest hits is thrown out.
add_boundary_cache(cache, addr, lower, upper) ==
    LET new == [hits |-> 0, lower |-> lower, upper |-> upper, addr |-> addr]
        least == CHOOSE i \in DOMAIN cache.entries : \A j \in DOMAIN cache.entries :
                   \/ cache.entries[i].hits < cache.entries[j].hits
                   \/ cache.entries[i].hits = cache.entries[j].hits /\ i <= j
    IN  IF lower = upper THEN cache
        ELSE IF cache.full THEN [cache EXCEPT !.entries[least] = new]
        ELSE [entries |-> Append(cache.entries, new), full |-> Len(cache.entries) + 1 >= MaxEntries]

Bounds(l, lib, addr, lower, upper) ==
    /\ libs' = [libs EXCEPT ![l] = lib]
    /\ answer' = [call |-> <<"bounds", addr>>, lib |-> l, lower |-> lower, upper |-> upper]
    /\ UNCHANGED <<image, list, handler, name, segments, table, locations, trace>>

\* The bounds without the cache: of DbgHelp, or else of the debug map.
FreshBounds(l, lib, addr) ==
    LET known == (IF lib.handler THEN image[l].dbghelp ELSE {}) \cup DbgHelpSymbols
        dbg == IF handler THEN SymFromAddr(known, addr) ELSE {}
        s   == CHOOSE x \in dbg : TRUE
        cv  == function_bounding_addresses_in_debug_map(lib, addr)
    IN  IF dbg # {}
        THEN [lib |-> lib, lower |-> s.address, upper |-> Dword(s.address + s.size - 1),
              buffer |-> nub_enumerate_symbol_callback(s)]
        ELSE [lib |-> IF lib.type = "codeview" THEN cv.lib ELSE lib,
              lower |-> IF lib.type = "codeview" THEN cv.lower ELSE addr,
              upper |-> IF lib.type = "codeview" THEN cv.upper ELSE addr,
              buffer |-> IF handler THEN [buffer EXCEPT !.valid = FALSE] ELSE buffer]

\* What the cache finds comes back with the bounds exchanged.
nub_function_bounding_addresses(addr) ==
    LET l   == library_descriptor_from_address(addr)
        lib == ensure_debug_information_for_library(libs[l])
        i   == search_boundary_cache(lib.cache, addr)
        e   == lib.cache.entries[i]
        got == FreshBounds(l, lib, addr)
    IN  IF i # 0
        THEN /\ e.hits < MaxHits
             /\ UNCHANGED buffer
             /\ Bounds(l, [lib EXCEPT !.cache.entries[i].hits = @ + 1, !.cache.entries[i].addr = addr],
                       addr, e.upper, e.lower)
        ELSE /\ buffer' = got.buffer
             /\ Bounds(l, [got.lib EXCEPT !.cache = add_boundary_cache(@, addr, got.lower, got.upper)],
                       addr, got.lower, got.upper)

(***************************************************************************)
(* Lists of symbols                                                        *)
(***************************************************************************)

HandOut(l, got, call) ==
    /\ libs' = [libs EXCEPT ![l] = got.lib]
    /\ table' = [last |-> got.last, table |-> got.table]
    /\ answer' = [call |-> call, lib |-> l]
    /\ UNCHANGED <<image, list, handler, buffer, name, segments, locations, trace>>

NoTable(lib) == [lib |-> lib, table |-> Null, last |-> 0]

nub_do_static_symbols(l) ==
    HandOut(l, IF libs[l].type = "codeview" THEN static_symbols_from_debug_map(libs[l])
               ELSE NoTable(libs[l]), <<"static", 0>>)

nub_do_global_symbols(l) ==
    HandOut(l, IF libs[l].type = "codeview" THEN global_symbols_from_debug_map(libs[l])
               ELSE NoTable(libs[l]), <<"global", 0>>)

nub_do_exported_symbols(l) ==
    HandOut(l, IF libs[l].type = "codeview" THEN exported_symbols_from_debug_map(libs[l])
               ELSE NoTable(libs[l]), <<"exported", 0>>)

\* Without CodeView information no table is handed out, but unlike the other
\* calls this one does not set the handle to NULL; it is not read then.
nub_nearest_symbols(addr) ==
    LET l   == library_descriptor_from_address(addr)
        lib == ensure_debug_information_for_library(libs[l])
        got == nearest_symbols_in_debug_map(lib, addr)
    IN  HandOut(l, IF lib.type = "codeview" THEN [lib |-> got.lib, table |-> got.table, last |-> 3]
                   ELSE [NoTable(lib) EXCEPT !.table = Unset], <<"nearest", addr>>)

nub_all_frame_lexicals(address) ==
    LET l == library_descriptor_from_address(address) IN
    HandOut(l, IF libs[l].type = "codeview" THEN all_lexicals_from_debug_map(libs[l], address)
               ELSE NoTable(libs[l]), <<"lexicals", address>>)

find_entry(t, index) ==
    t.segments[((index - 1) \div SegmentSize) + 1][((index - 1) % SegmentSize) + 1]

nub_get_lexical_variable_name_length(lib, t, i) == lexical_name_length_from_debug_map(lib, find_entry(t, i))

nub_lookup_symbol_name_length(lib, t, i) == symbol_name_length_from_debug_map(lib, find_entry(t, i))

nub_lookup_symbol_language_code(t, i) == find_entry(t, i).lang

nub_get_lexical_variable_name(lib, t, i, size) == lexical_name_from_debug_map(lib, find_entry(t, i), size)

nub_lookup_symbol_name(lib, t, i, size) == symbol_name_from_debug_map(lib, find_entry(t, i), size)

\* Arguments are above the frame pointer.
nub_lexical_variable_address(lib, t, i, frame) ==
    LET v == lexical_address_from_debug_map(lib, find_entry(t, i))
        addr == Dword(frame + v.offset)
    IN  [address |-> addr, argument |-> addr > frame, register |-> v.register]

nub_lookup_symbol_address(lib, t, i) == symbol_address_from_debug_map(lib, find_entry(t, i))

nub_lookup_function_debug_start(lib, t, i) == function_debug_start_from_debug_map(lib, find_entry(t, i))

nub_lookup_function_debug_end(lib, t, i) == function_debug_end_from_debug_map(lib, find_entry(t, i))

nub_lookup_function_end(lib, t, i) == function_end_from_debug_map(lib, find_entry(t, i))

nub_symbol_is_function(lib, t, i) == symbol_is_function_from_debug_map(lib, find_entry(t, i))

\* What the access path reads of a lexical variable, for a frame pointer, and
\* of another symbol.
ReadLexical(i, frame) ==
    /\ table # Null /\ i <= table.last
    /\ LET t == table.table  lib == libs[t.lib]
           length == nub_get_lexical_variable_name_length(lib, t, i)
       IN  answer' = [call |-> <<"lexical", i>>,
                      name |-> nub_get_lexical_variable_name(lib, t, i, length),
                      at |-> nub_lexical_variable_address(lib, t, i, frame)]
    /\ UNCHANGED <<image, libs, list, handler, buffer, name, segments, table, locations, trace>>

ReadSymbol(i) ==
    /\ table # Null /\ i <= table.last
    /\ LET t == table.table  lib == libs[t.lib]
           length == nub_lookup_symbol_name_length(lib, t, i)
       IN  answer' = [call |-> <<"symbol", i>>,
                      name |-> nub_lookup_symbol_name(lib, t, i, length),
                      lang |-> nub_lookup_symbol_language_code(t, i),
                      address |-> nub_lookup_symbol_address(lib, t, i),
                      function |-> nub_symbol_is_function(lib, t, i),
                      ds |-> nub_lookup_function_debug_start(lib, t, i),
                      de |-> nub_lookup_function_debug_end(lib, t, i),
                      end |-> nub_lookup_function_end(lib, t, i)]
    /\ UNCHANGED <<image, libs, list, handler, buffer, name, segments, table, locations, trace>>

\* Disposing of no table is allowed, of a handle nobody assigned it is not.
nub_dispose_lookups ==
    /\ table # Null /\ table.table # Unset
    /\ table' = Null
    /\ answer' = [call |-> <<"dispose", 0>>]
    /\ UNCHANGED <<image, libs, list, handler, buffer, name, segments, locations, trace>>
=============================================================================
