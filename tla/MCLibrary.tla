---------------------------- MODULE MCLibrary -----------------------------
(***************************************************************************)
(* The kernel's library and what runs at boot, for model checking: the     *)
(* block allocator, the containers, strings with arrays, formatted output, *)
(* the layout of the page pools, the bytes of a file, the command line with*)
(* the utilities that it calls, and the interrupt table with its handlers. *)
(* They share no state: a behaviour exercises one.                         *)
(***************************************************************************)
EXTENDS Malloc, Containers, Arrays, Format, Pools, Boot, FileBytes, Interrupts

CONSTANTS e1, e2, e3, e4, e5

ASSUME LibraryAssumption == Lines \subseteq 0 .. 15

VARIABLE part  \* the part of the library that is exercised

MCKeyOf == e1 :> 1 @@ e2 :> 1 @@ e3 :> 2 @@ e4 :> 3 @@ e5 :> 3
MCHashOf == <<1, 2, 3>>
MCBits == [t \in Type |-> CASE t = "hh" -> 4 [] t = "h" -> 8 [] t = "" -> 12 [] OTHER -> 16]
MCFlagSets == {S \in SUBSET Flag : Cardinality(S) =< 3}
MCField(text, stars) == [text |-> text, stars |-> stars]
MCWidths == {MCField(<<>>, <<>>), MCField(<<"6">>, <<>>), MCField(<<"1", "0">>, <<>>), MCField(<<"*">>, <<-8>>)}
MCPrecisions == {MCField(<<>>, <<>>), MCField(<<".">>, <<>>), MCField(<<".", "3">>, <<>>),
                 MCField(<<".", "*">>, <<-1>>), MCField(<<".", "*">>, <<9>>)}
MCArea(start, size, type) == [start |-> PageSize * start, size |-> size, type |-> type]
MCEntry ==
    {MCArea(0, 3 * PageSize, USABLE), MCArea(0, 4 * PageSize - 10, USABLE), MCArea(3, PageSize, ACPI_RECLAIMABLE),
     MCArea(6, 2 * PageSize, 2)}
    \cup {MCArea(8, n * PageSize - d, USABLE) : n \in 10 .. 15, d \in {0, 7}}
    \cup {MCArea(24, n * PageSize, type) : n \in {1, 5}, type \in {USABLE, 2}}

MCW(name) == Word(name, NoValue)
MCActions == {<<"put", "a">>, <<"put", "b">>, <<"get", "a">>, <<"get", "o">>, <<"rm", "a">>,
              <<"cat", "b">>, <<"ls">>, <<"run", "x">>}
MCOptions == {MCW(n) : n \in {"-h", "-q", "-f", "-rs", "-mlfqs", "-threads-tests", "-x"}}
             \cup {Word("-rs", 9), Word("-rs", 77), Word("-ul", 3)}
MCWords(c) == FlattenSeq([i \in DOMAIN c |-> [j \in 1 .. Len(c[i]) |-> MCW(c[i][j])]])
MCLines ==
    {<<o, p>> : o, p \in MCOptions}
    \cup {<<MCW("-f")>> \o MCWords(c) : c \in [1 .. 4 -> MCActions]}
    \cup {<<MCW("-q")>> \o MCWords(c) : c \in [1 .. 3 -> MCActions]}
    \cup {[i \in 1 .. 10 |-> MCW("ls")]}
    \cup {<<MCW("ls")>> \o w : w \in {<<MCW("zap")>>, <<MCW("put")>>, <<MCW("-f")>>}}
MCArchive == <<<<1, 2, 3>>, <<>>, <<4, 5>>>>
MCOld == "o" :> <<9, 8, 7>>

libVars == <<vars, contVars, mem, spec, e820, bootVars, fileVars, interruptVars, part>>

LibraryInit ==
    /\ MallocInit /\ ContInit /\ StringInit /\ FormatInit /\ PoolsInit
    /\ part \in {"malloc", "containers", "strings", "format", "pools", "boot", "files", "interrupts"}
    /\ FilesInit /\ InterruptsInit
    /\ BootInit(IF part = "boot" THEN MCLines ELSE {<<MCW("-h"), MCW("-h")>>})

LibraryNext ==
    /\ UNCHANGED part
    /\ part # "malloc" => UNCHANGED vars
    /\ part # "containers" => UNCHANGED contVars
    /\ part # "strings" => UNCHANGED mem
    /\ part # "format" => UNCHANGED spec
    /\ part # "pools" => UNCHANGED e820
    /\ part # "boot" => UNCHANGED bootVars
    /\ part # "files" => UNCHANGED fileVars
    /\ part # "interrupts" => UNCHANGED interruptVars
    /\ \/ part = "malloc" /\ MallocNext
       \/ part = "containers" /\ ContNext
       \/ part = "strings" /\ StringNext
       \/ part = "format" /\ FormatNext
       \/ part = "pools" /\ PoolsNext
       \/ part = "boot" /\ BootNext
       \/ part = "files" /\ FilesNext
       \/ part = "interrupts" /\ InterruptsNext

LibrarySpec == LibraryInit /\ [][LibraryNext]_libVars

=============================================================================
