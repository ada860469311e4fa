------------------------------- MODULE MCNub --------------------------------
(***************************************************************************)
(* The debugger nub on small instances.  In each behaviour one part of it  *)
(* is used: the control of the program (NubCalls), or the calls about its  *)
(* symbols, functions, tables of symbols, source lines or stack            *)
(* (SourceLookup), or those about its memory or its registers (NubMemory). *)
(* The parts share no state.                                               *)
(***************************************************************************)
EXTENDS NubCalls, SourceLookup, NubMemory

VARIABLE part

CONSTANTS exe, dll

(***************************************************************************)
(* Debug maps: units in the order of memory, with their positions          *)
(***************************************************************************)

Unit(index) == [index |-> index]
Prolog(n) == [index |-> "prolog", cbSymbol |-> n]
Compile(lang) == [index |-> "compile", lang |-> lang]
Scope(index, offset, length, text) ==
    [index |-> index, seg |-> 1, offset |-> offset, length |-> length,
     start |-> 1, end |-> length - 1, name |-> text]
Datum(index, seg, offset, text) == [index |-> index, seg |-> seg, offset |-> offset, name |-> text]
Lex(index, offset, text) == [index |-> index, offset |-> offset, name |-> text]

\* Two functions, the first with a block and public too; lines in two segments.
MapA ==
    [sig |-> "NB09", coff |-> FALSE, sections |-> <<2, 14>>,
     dir |-> << [type |-> "alignSym",  lfo |-> 1,  cb |-> 13],
                [type |-> "srcModule", lfo |-> 14, cb |-> 1],
                [type |-> "globalSym", lfo |-> 15, cb |-> 2],
                [type |-> "globalPub", lfo |-> 17, cb |-> 3] >>,
     units |-> <<
       Prolog(0), Compile("C"),
       Scope("gproc", 0, 4, <<"f">>),
         Lex("bprel", -2, <<"x">>),
         Scope("block", 1, 2, <<>>), Lex("bprel", 2, <<"y">>), Unit("end"),
         Lex("register", 0, <<"r">>), Unit("end"),
       Scope("lproc", 4, 2, <<"_", "g">>), Lex("bprel", 1, <<"z">>), Unit("end"),
       Datum("ldata", 2, 0, <<"d">>),
       [index |-> "lines", files |->
          << [name |-> <<"s", "/", "a">>,
              segments |-> << [index |-> 1, pairs |-> << <<0, 10>>, <<2, 12>> >>],
                              [index |-> 1, pairs |-> << <<4, 15>>, <<5, 16>>, <<8, 19>> >>] >>] >>],
       Prolog(1), Datum("gdata", 2, 2, <<"e">>),
       Prolog(2), Datum("pub", 1, 0, <<"_", "f">>), Datum("pub", 1, 8, <<"h">>) >>]

\* A Dylan function with blocks in blocks, after static data.
MapB ==
    [sig |-> "NB11", coff |-> FALSE, sections |-> <<2, 14>>,
     dir |-> << [type |-> "staticSym", lfo |-> 1,  cb |-> 2],
                [type |-> "alignSym",  lfo |-> 3,  cb |-> 14],
                [type |-> "publicSym", lfo |-> 17, cb |-> 2] >>,
     units |-> <<
       Prolog(1), Datum("ldata", 2, 0, <<"d">>),
       Prolog(0), Compile("Dylan"),
       Scope("gproc", 0, 8, <<"K", "f", "I">>),
         Scope("block", 1, 4, <<>>), Lex("bprel", -1, <<"x">>),
           Scope("block", 2, 2, <<>>), Lex("register", 0, <<"y">>), Unit("end"),
           Lex("bprel", -3, <<"z">>), Unit("end"),
         Scope("block", 6, 1, <<>>), Lex("bprel", -2, <<"x">>), Unit("end"),
         Unit("end"),
       Prolog(0), Datum("pub", 1, 8, <<"h">>), Unit("other") >>]

\* Public symbols only: nothing lies above the last of them.
MapC ==
    [sig |-> "NB09", coff |-> FALSE, sections |-> <<2, 14>>,
     dir |-> << [type |-> "globalPub", lfo |-> 1, cb |-> 3] >>,
     units |-> << Prolog(2), Datum("pub", 1, 0, <<"_", "f">>), Datum("pub", 1, 4, <<"h">>) >>]

\* A function with all its entries, one without, and a mark of the linker.
CoffEntry(text, value, aux, function) ==
    [name |-> text, short |-> TRUE, value |-> value, aux |-> aux, function |-> function]
Aux(size) == [name |-> <<>>, size |-> size]
CoffTable ==
    << CoffEntry(<<".", "f">>, 0, 1, FALSE), Aux(0),
       CoffEntry(<<"_", "p">>, 1, 1, TRUE), Aux(3),
       CoffEntry(<<".", "b", "f">>, 1, 1, FALSE), Aux(0),
       CoffEntry(<<".", "l", "f">>, 1, 0, FALSE), CoffEntry(<<".", "e", "f">>, 3, 1, FALSE), Aux(0),
       CoffEntry(<<"q">>, 28, 0, TRUE), CoffEntry(<<"m">>, 6, 0, FALSE) >>

Dbg(address, size, text, function) ==
    [address |-> address, size |-> size, name |-> text, function |-> function]

Image(main, base, preferred, mapped, file, dbghelp) ==
    [main |-> main, base |-> base, preferred |-> preferred, mapped |-> mapped, file |-> file,
     dbghelp |-> dbghelp]

Pdb == [sig |-> "NB10", coff |-> FALSE, sections |-> <<>>, dir |-> <<>>, units |-> <<>>]

\* The image of the DLL is moved when its base is not the preferred one.
MCImages ==
    { [l \in Library |-> IF l = exe THEN Image(TRUE, 8, 8, MapA, Null, {})
                         ELSE Image(FALSE, 32, 24, Null, CoffTable, {})],
      [l \in Library |-> IF l = exe THEN Image(TRUE, 8, 8, MapB, Null, {})
                         ELSE Image(FALSE, 32, 32, Pdb, Null,
                                    {Dbg(33, 3, <<"K", "p", "I">>, TRUE), Dbg(36, 2, <<"q">>, FALSE)})],
      [l \in Library |-> IF l = exe THEN Image(TRUE, 8, 8, MapC, Null, {})
                         ELSE Image(FALSE, 32, 32, Null, Null, {})] }

MCWanted == {<<"f">>, <<"_", "h">>, <<"e">>, <<"p">>, <<"q">>}

MCSources == {<<<<"a">>, 15>>, <<<<"a">>, 11>>, <<<<"b">>, 1>>}

MCWalks == LET frame(fp, ip) == [fp |-> fp, ip |-> ip] IN
    {<<>>, <<frame(40, 11)>>, <<frame(40, 11), frame(44, 34), frame(48, 20)>>,
     <<frame(44, 52), frame(40, 34)>>}

MCCompiled == {<<50, 53>>, <<54, 55>>}

MCNonData == {<<"m">>}

MCProtection == [p \in 0 .. 3 |-> <<"readwrite", "execute", "readonly", "noaccess">>[p + 1]]

MCNubInts == {-1, 8}

MCFrames == {[fp |-> 1, sp |-> 2, ip |-> 3]}

(***************************************************************************)
(* The specification                                                       *)
(***************************************************************************)

lookupParts == {"symbols", "bounds", "tables", "lines", "stack"}

accessParts == {"memory", "registers"}

\* What the parts that are not used hold.
NoLookup ==
    /\ image = Null /\ libs = Null /\ list = <<>> /\ handler = FALSE /\ buffer = Null
    /\ name = Null /\ segments = <<>> /\ table = Null /\ locations = Null /\ trace = Null
    /\ answer = [call |-> <<"none">>]

NoAccess == memory = Null /\ context = Null /\ written = <<>> /\ writes = 0 /\ reply = [error |-> Null]

MCInit ==
    \/ part = "control" /\ Init /\ NoLookup /\ NoAccess
    \/ part \in lookupParts /\ Init /\ LookupInit /\ NoAccess
    \/ part \in accessParts /\ Init /\ NoLookup /\ MemoryInit

About(parts) == part \in parts /\ Alive /\ UNCHANGED <<part, vars, memoryVars>>

Access(where) == part = where /\ UNCHANGED <<part, vars, lookupVars>>

MCNext ==
    \/ part = "control"     /\ Next /\ UNCHANGED <<part, lookupVars, memoryVars>>
    \/ About(lookupParts)   /\ LibraryCall
    \/ About({"symbols"})   /\ SymbolCall
    \/ About({"bounds"})    /\ BoundsCall
    \/ About({"tables"})    /\ TableCall
    \/ About({"lines"})     /\ LineCall
    \/ About({"stack"})     /\ StackCall
    \/ Access("memory")     /\ (MemoryRead \/ MemoryWrite)
    \/ Access("registers")  /\ (RegisterRead \/ RegisterWrite)

MCSpec == MCInit /\ [][MCNext]_<<vars, lookupVars, memoryVars, part>>
=============================================================================
