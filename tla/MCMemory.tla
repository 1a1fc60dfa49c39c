------------------------------ MODULE MCMemory -------------------------------
(***************************************************************************)
(* Memory for model checking: the threads of the page allocator, or two    *)
(* processes.  The first process runs programs that load or that load()    *)
(* must refuse: segments that overlap, reach the kernel or the stack, wrap *)
(* around, lie in page 0 or outside the file; the second mostly a small    *)
(* program that loads; with the smallest ones both get to user mode.       *)
(* Memory pools of different sizes make each of the allocations fail       *)
(* somewhere.  A behaviour exercises one of the two.                       *)
(***************************************************************************)
EXTENDS AddressSpace, Palloc, TLC

CONSTANTS p1, p2

VARIABLE part  \* the component that is exercised

Phdr(type, offset, vaddr, filesz, memsz, writable) ==
    [type |-> type, offset |-> offset, vaddr |-> vaddr, filesz |-> filesz, memsz |-> memsz, writable |-> writable]
File(elf, length, phdrs) == [elf |-> elf, length |-> length, phdrs |-> phdrs]

Text == Phdr("load", 1, 3, 2, 2, FALSE)
Note == Phdr("note", 0, 0, 0, 0, FALSE)
Bss == Phdr("load", 0, 8, 0, 2, TRUE)
Refused == {
    Phdr("dynamic", 0, 0, 0, 0, FALSE),
    Phdr("load", 4, 7, 1, 1, TRUE),     \* different offset in the page
    Phdr("load", 6, 8, 1, 1, TRUE),     \* outside the file
    Phdr("load", 4, 8, 2, 1, TRUE),     \* smaller than its part of the file
    Phdr("load", 4, 8, 0, 0, TRUE),     \* empty
    Phdr("load", 4, 14, 0, 2, TRUE),    \* reaches the kernel
    Phdr("load", 4, 8, 0, 31, TRUE),    \* wraps around
    Phdr("load", 0, 0, 1, 2, FALSE),    \* page 0
    Phdr("load", 4, 4, 1, 1, TRUE),     \* overlaps the text
    Phdr("load", 0, 10, 0, 1, TRUE),    \* overlaps the stack
    Phdr("load", 4, 8, 2, 2, TRUE)}     \* the file ends before it

Small == File(TRUE, 5, <<Text>>)
Large == File(TRUE, 5, <<Text, Note, Bss, Phdr("load", 4, 6, 1, 2, TRUE)>>)
Data(offset) == File(TRUE, 5, <<Phdr("load", offset, 12, 1, 2, TRUE)>>)
NotElf == File(FALSE, 5, <<>>)

Boot(n, first, second) == [kpages |-> n, prog |-> p1 :> first @@ p2 :> second]

MCBoots ==
    {Boot(n, Large, Small) : n \in {3, 5, 7, 9, 12}} \cup {Boot(16, Data(0), Data(2))}
    \cup {Boot(13, File(TRUE, 5, <<Text, h>>), NotElf) : h \in Refused}

\* Threads of Palloc are only compared for equality.
Symmetry == Permutations(Thread)

\* Processes that are not exercised have one initial state.
MemoryInit ==
    /\ part \in {"palloc", "processes"}
    /\ PallocInit /\ AddressSpaceInit
    /\ part = "processes" \/ LET boot == CHOOSE b \in Boots : TRUE
                             IN  m.kfree = 1 .. boot.kpages /\ prog = boot.prog

MemoryNext ==
    /\ UNCHANGED part
    /\ \/ part = "palloc" /\ PallocNext /\ UNCHANGED spaceVars
       \/ part = "processes" /\ AddressSpaceNext /\ UNCHANGED vars

MemorySpec == MemoryInit /\ [][MemoryNext]_<<vars, spaceVars, part>>

=============================================================================
