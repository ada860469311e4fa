---------------------------- MODULE SourceLookup ----------------------------
(***************************************************************************)
(* The rest of what the access path asks the debugger nub about the        *)
(* debuggee's code: source lines (source_location_info.c), stack frames    *)
(* and interactively compiled code (stack_backtrace2.c); and what the      *)
(* answers of SymbolLookup promise.                                        *)
(***************************************************************************)
EXTENDS SymbolLookup

CONSTANTS
    Images,      \* what the libraries of the debuggee may be
    Asked,       \* the addresses that are asked about
    Wanted,      \* the names of symbols that are asked for
    Sources,     \* the files and lines that are asked for
    Compiled,    \* the segments of code that may be compiled interactively
    Frame,       \* a frame pointer
    Walks        \* the sequences of frames the stack walker may find

(***************************************************************************)
(* Source lines                                                            *)
(***************************************************************************)

nub_fetch_source_locations(start, end) ==
    LET l   == library_descriptor_from_address(start)
        lib == ensure_debug_information_for_library(libs[l])
        same == library_descriptor_from_address(end) = l
    IN  /\ libs' = IF same THEN [libs EXCEPT ![l] = lib] ELSE libs
        /\ locations' = IF same /\ lib.type = "codeview"
                        THEN source_locations_from_debug_map(lib, start, end) ELSE Null
        /\ answer' = [call |-> <<"locations", start, end>>, lib |-> l]
        /\ UNCHANGED <<image, list, handler, buffer, name, segments, table, trace>>

nub_number_of_source_locations(t) == IF t = Null THEN 0 ELSE Len(t.locations)

nub_source_location_address(t, i) == IF t = Null THEN 0 ELSE t.locations[i].offset

nub_source_location_linenumber(t, i) == IF t = Null THEN 0 ELSE t.locations[i].line

nub_source_location_filename(t) == IF t = Null THEN <<>> ELSE t.name

ReadLocation(i) ==
    /\ i <= nub_number_of_source_locations(locations)
    /\ answer' = [call |-> <<"location", i>>, name |-> nub_source_location_filename(locations),
                  address |-> nub_source_location_address(locations, i),
                  line |-> nub_source_location_linenumber(locations, i)]
    /\ UNCHANGED <<image, libs, list, handler, buffer, name, segments, table, locations, trace>>

nub_dispose_source_locations ==
    /\ locations # Null
    /\ locations' = Null
    /\ answer' = [call |-> <<"disposeLocations", 0>>]
    /\ UNCHANGED <<image, libs, list, handler, buffer, name, segments, table, trace>>

nub_resolve_source_location(l, filename, line) ==
    LET lib == ensure_debug_information_for_library(libs[l]) IN
    /\ libs' = [libs EXCEPT ![l] = lib]
    /\ answer' = [call |-> <<"resolve", filename, line>>, lib |-> l,
                  answer |-> IF lib.type = "codeview"
                             THEN resolve_source_location_in_debug_map(lib, filename, line)
                             ELSE [found |-> FALSE, address |-> 0, exact |-> FALSE]]
    /\ UNCHANGED <<image, list, handler, buffer, name, segments, table, locations, trace>>

(***************************************************************************)
(* Code that was compiled while the program runs is in no library.         *)
(***************************************************************************)

nub_register_interactive_code_segment(lower, upper) ==
    /\ Len(FlattenSeq(segments)) < MaxInteractive
    /\ segments' = IF segments = <<>> \/ Len(Last(segments)) = Granularity
                   THEN Append(segments, << <<lower, upper>> >>)
                   ELSE [segments EXCEPT ![Len(segments)] = Append(@, <<lower, upper>>)]
    /\ answer' = [call |-> <<"register", lower>>]
    /\ UNCHANGED <<image, libs, list, handler, buffer, name, table, locations, trace>>

code_address_is_interactive(IP) ==
    \E i \in DOMAIN segments : \E j \in DOMAIN segments[i] :
      segments[i][j][1] <= IP /\ IP <= segments[i][j][2]

\* Both are called back by the stack walker of DbgHelp for each frame.
generic_DLL_base_address_finder(IP) ==
    IF code_address_is_interactive(IP) THEN libs[Head(list)].base
    ELSE libs[library_descriptor_from_address(IP)].base

generic_function_table_finder(base) ==
    IF base = 0 \/ code_address_is_interactive(base) THEN Null
    ELSE library_descriptor_from_base_address(base)

\* The walk over frames, which are those StackWalk (external) finds: it ends
\* when there are no more, when a frame pointer is not above the one before, or
\* when the trace is full.  A trace is never empty.
nub_initialize_stack_vectors(frames) ==
    LET ends(k) == k = Len(frames) \/ k = MaxFrames \/ frames[k + 1].fp <= frames[k].fp
        size == CHOOSE k \in 1 .. Len(frames) : ends(k) /\ \A j \in 1 .. k - 1 : ~ends(j)
        asked == [k \in DOMAIN frames |-> generic_DLL_base_address_finder(frames[k].ip)]
        tables == [k \in DOMAIN frames |-> generic_function_table_finder(asked[k])]
        opened == {tables[k] : k \in {j \in DOMAIN frames : j <= size + 1}} \ {Null}
    IN  /\ trace' = IF frames = <<>> THEN <<[fp |-> Unset, ip |-> Unset]>> ELSE SubSeq(frames, 1, size)
        /\ libs' = [l \in Library |-> IF l \in opened /\ l \in ToSet(list)
                                      THEN ensure_debug_information_for_library(libs[l]) ELSE libs[l]]
        /\ answer' = [call |-> <<"frames", Len(frames)>>]
        /\ UNCHANGED <<image, list, handler, buffer, name, segments, table, locations>>

nub_read_stack_vectors ==
    /\ trace # Null
    /\ answer' = [call |-> <<"stack", Len(trace)>>, answer |-> trace]
    /\ UNCHANGED <<image, libs, list, handler, buffer, name, segments, table, locations, trace>>

\* The end of the process: its libraries are given up.
about_to_kill ==
    /\ list' = <<>>
    /\ libs' = [l \in Library |-> release_library_coff_map(release_library_debug_map(libs[l]))]
    /\ name' = Null /\ table' = Null /\ locations' = Null /\ trace' = Null
    /\ answer' = [call |-> <<"kill">>]
    /\ UNCHANGED <<image, handler, buffer, segments>>

(***************************************************************************)
(* The calls, by what they are about.  The first library is the program;   *)
(* the others are loaded while it runs.                                    *)
(***************************************************************************)

LookupInit ==
    /\ image \in Images
    /\ list = <<CHOOSE l \in Library : image[l].main>>
    /\ libs = [l \in Library |-> Described(l)]
    /\ handler \in BOOLEAN
    /\ buffer = [symbol |-> Null, valid |-> FALSE]
    /\ name = Null /\ segments = <<>> /\ table = Null
    /\ answer = [call |-> <<"none">>]
    /\ locations = Null /\ trace = Null

\* Nothing is asked about a process that is gone.
Alive == list # <<>>

LibraryCall == about_to_kill \/ \E l \in Library : add_library_descriptor(l)

TableIndices == IF table = Null THEN {} ELSE 1 .. table.last

SymbolCall ==
    \/ \E a \in Asked : nub_closest_symbol(a)
    \/ nub_closest_symbol_name
    \/ \E l \in ToSet(list), n \in Wanted : nub_find_symbol_in_library(l, n)

BoundsCall == \E a \in Asked : nub_function_bounding_addresses(a)

TableCall ==
    \/ \E l \in ToSet(list) : nub_do_static_symbols(l) \/ nub_do_global_symbols(l)
                              \/ nub_do_exported_symbols(l)
    \/ \E a \in Asked : nub_nearest_symbols(a) \/ nub_all_frame_lexicals(a)
    \/ \E i \in TableIndices : ReadSymbol(i) \/ ReadLexical(i, Frame)
    \/ nub_dispose_lookups

LineCall ==
    \/ \E a, b \in Asked : a <= b /\ nub_fetch_source_locations(a, b)
    \/ \E i \in 1 .. nub_number_of_source_locations(locations) : ReadLocation(i)
    \/ nub_dispose_source_locations
    \/ \E l \in ToSet(list), q \in Sources : nub_resolve_source_location(l, q[1], q[2])

StackCall ==
    \/ \E c \in Compiled : nub_register_interactive_code_segment(c[1], c[2])
    \/ \E w \in Walks : nub_initialize_stack_vectors(w)
    \/ nub_read_stack_vectors

(***************************************************************************)
(* Properties                                                              *)
(***************************************************************************)

\* The records of the subsections of some types, without the units that are
\* read as records by mistake.
Records(info, types) ==
    UNION {LET d == info.dir[ss]
               n == IF d.type \in Linear THEN d.cb - 1 ELSE info.units[d.lfo].cbSymbol
           IN  d.lfo + 1 .. d.lfo + n
           : ss \in {s \in DOMAIN info.dir : info.dir[s].type \in types}}

InOrder(ps) == SetToSortSeq(ps, <)

\* The procedures of the map whose code has the address in it.
Around(lib, address) ==
    {p \in Records(lib.info, (Linear \cup Hashed) \ {"publicSym", "globalPub"}) :
       LET r == Rec(lib, p)  at == SegmentedAddress(lib, r)
       IN  r.index \in Procs32 /\ at <= address /\ address < at + r.length}

Before(lib, address) ==
    {SegmentedAddress(lib, Rec(lib, p)) :
       p \in {q \in Records(lib.info, Linear \cup Hashed) : Rec(lib, q).index \in Data \cup Procs}}
    \cap 0 .. address

\* Whatever was asked before, and wherever it left the cursor of the library
\* (get_cv_sym_from_debug_map), nub_closest_symbol names a function that has
\* the address in its code when the map has one, and otherwise the last symbol
\* at or before the address.
ClosestSymbolIsClosest ==
    answer.call[1] = "closest" /\ libs[answer.lib].type = "codeview" =>
      LET lib == libs[answer.lib]
          address == answer.call[2]
          around == Around(lib, address)
          before == Before(lib, address)
      IN  /\ around # {} => /\ answer.answer.function
                            /\ answer.answer.address \in {SegmentedAddress(lib, Rec(lib, p)) : p \in around}
                            /\ answer.answer.last >= address
          /\ around = {} /\ before # {} =>
               /\ answer.answer.address \in before
               /\ \A a \in before : a <= answer.answer.address

\* The matching end of the scope opened at p: the first record that leaves as
\* many scopes closed as opened.
EndOf(lib, p) ==
    LET count(k, kinds) == Cardinality({j \in p .. k : Rec(lib, j).index \in kinds})
        ends == {k \in p .. Len(lib.info.units) : count(k, Scopes) = count(k, {"end"})}
    IN  CHOOSE k \in ends : \A j \in ends : k <= j

Visible(lib, start, IP) ==
    {p \in start + 1 .. EndOf(lib, start) :
       /\ Rec(lib, p).index \in Lexical
       /\ \A q \in start + 1 .. p : Rec(lib, q).index \in Scopes /\ p < EndOf(lib, q) =>
            LET r == Rec(lib, q)  at == SegmentedAddress(lib, r)
            IN  at <= IP /\ IP < at + r.length}

\* A lookup table handed out, read entry by entry through its segments, lists
\* what it was asked for, in the order of the map: the static or the global
\* program symbols of the library, or the lexical variables in the scopes of
\* the function around the instruction pointer that have it in their code.
\* (Between functions the code lists those of the function before.)
TablesListTheSymbols ==
    answer.call[1] \in {"static", "global", "lexicals"} /\ table.table # Null =>
      LET lib == libs[answer.lib]
          all(types) == {p \in Records(lib.info, types) : Rec(lib, p).index \in Data \cup Procs}
          around == Around(lib, answer.call[2])
          wanted == CASE answer.call[1] = "static" -> all({"symbols", "alignSym", "staticSym"})
                      [] answer.call[1] = "global" -> all({"globalSym", "globalPub"})
                      [] OTHER ->
                           Visible(lib, CHOOSE p \in around : \A q \in around : p <= q, answer.call[2])
      IN  \/ answer.call[1] = "lexicals" /\ around = {}
          \/ [i \in 1 .. table.last |-> find_entry(table.table, i).ptr] = InOrder(wanted)

\* The symbols of the map above an address, frame variables included, which
\* count as if the frame were at address 0.
Above(lib, address) ==
    {p \in Records(lib.info, Linear \cup Hashed) : cv_symbol_address(lib, 0, p) > address}

\* Bounds that come from the boundary cache are those of a fresh search, with
\* two exceptions.  An entry takes the address after its function for its own
\* (search_boundary_cache).  And where the map has no symbol above the nearest
\* one, a search takes the address it was asked for as the upper bound
\* (debug_map.c:2163, 2229): the cache then answers every address from the
\* symbol up to the one first asked for with that one, so that the answer
\* depends on what was asked before; the lower bound is still right.  (What
\* comes from the cache has its bounds exchanged.)
CachedBoundsAgree ==
    answer.call[1] = "bounds" =>
      LET address == answer.call[2]
          exchanged == answer.lower > answer.upper
      IN  \A lib \in {libs[answer.lib]} : \A fresh \in {FreshBounds(answer.lib, lib, address)} :
            \/ {answer.lower, answer.upper} = {fresh.lower, fresh.upper}
            \/ exchanged /\ address = answer.lower
            \/ /\ exchanged /\ lib.type = "codeview" /\ Above(lib, fresh.lower) = {}
               /\ fresh.upper = address /\ answer.upper = fresh.lower
               /\ address < answer.lower /\ answer.lower \in Asked

\* Whatever was looked up before, and whatever cursor, table or cache it left,
\* a lookup finds what the debug map says.
LookupsAreTrue == ClosestSymbolIsClosest /\ TablesListTheSymbols /\ CachedBoundsAgree
=============================================================================
