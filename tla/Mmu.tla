-------------------------------- MODULE Mmu ---------------------------------
(***************************************************************************)
(* Page tables (threads/mmu.c) as functions on the memory: s.kfree and     *)
(* s.ufree are the free pages of the two pools, s.mem the contents of the  *)
(* allocated ones.  A table has two entries instead of 512.  User          *)
(* addresses have the PML4 index 0, which is where programs are linked;    *)
(* what a PML4 has from base_pml4 for the kernel is left out.              *)
(***************************************************************************)
EXTENDS Integers, FiniteSets, FiniteSetsExt, TLC

CONSTANTS NULL

PDPE(va) == va \div 4
PDX(va) == (va \div 2) % 2
PTX(va) == va % 2
EmptyTable == [i \in {0, 1} |-> NULL]

\* palloc_get_page() and palloc_free_page(), of the kernel pool.
Get(s, content) ==
    LET page == Min(s.kfree) IN [s EXCEPT !.kfree = @ \ {page}, !.mem = (page :> content) @@ @]
Got(s) == Min(s.kfree)
Free(s, pages) ==
    [s EXCEPT !.kfree = @ \cup pages, !.mem = [p \in DOMAIN @ \ pages |-> @[p]]]
FreeUser(s, pages) ==
    [s EXCEPT !.ufree = @ \cup pages, !.mem = [p \in DOMAIN @ \ pages |-> @[p]]]

Link(s, table, idx, page) == [s EXCEPT !.mem[table][idx] = page]

\* The walks return the memory and, in pt, the page table or NULL.
Found(s, pt) == [s |-> s, pt |-> pt]

pgdir_walk(s, pdp, va, create) ==
    IF s.mem[pdp][PDX(va)] # NULL THEN Found(s, s.mem[pdp][PDX(va)])
    ELSE IF create /\ s.kfree # {} THEN Found(Link(Get(s, EmptyTable), pdp, PDX(va), Got(s)), Got(s))
    ELSE Found(s, NULL)

pdpe_walk_KeepTable(s, pdpe, va, create) ==
    IF s.mem[pdpe][PDPE(va)] # NULL THEN pgdir_walk(s, s.mem[pdpe][PDPE(va)], va, create)
    ELSE IF create /\ s.kfree # {}
    THEN LET page == Got(s)
             r == pgdir_walk(Link(Get(s, EmptyTable), pdpe, PDPE(va), page), page, va, create)
         IN  IF r.pt = NULL THEN Found(Link(r.s, pdpe, PDPE(va), NULL), NULL) ELSE r
    ELSE Found(s, NULL)

\* A table allocated in vain is freed again.
pdpe_walk(s, pdpe, va, create) ==
    IF s.mem[pdpe][PDPE(va)] # NULL THEN pgdir_walk(s, s.mem[pdpe][PDPE(va)], va, create)
    ELSE IF create /\ s.kfree # {}
    THEN LET page == Got(s)
             r == pgdir_walk(Link(Get(s, EmptyTable), pdpe, PDPE(va), page), page, va, create)
         IN  IF r.pt = NULL THEN Found(Link(Free(r.s, {page}), pdpe, PDPE(va), NULL), NULL) ELSE r
    ELSE Found(s, NULL)

pml4e_walk(s, pml4e, va, create) ==
    IF s.mem[pml4e][0] # NULL THEN pdpe_walk(s, s.mem[pml4e][0], va, create)
    ELSE IF create /\ s.kfree # {}
    THEN LET page == Got(s)
             r == pdpe_walk(Link(Get(s, EmptyTable), pml4e, 0, page), page, va, create)
         IN  IF r.pt = NULL THEN Found(Link(Free(r.s, {page}), pml4e, 0, NULL), NULL) ELSE r
    ELSE Found(s, NULL)

\* The page table entry of a user page, NULL if it is not present.
pml4_get_page(s, pml4, upage) ==
    LET r == pml4e_walk(s, pml4, upage, FALSE)
    IN  IF r.pt = NULL THEN NULL ELSE s.mem[r.pt][PTX(upage)]

\* The memory after the call; pt is NULL if it fails.
pml4_set_page(s, pml4, upage, kpage, rw) ==
    LET r == pml4e_walk(s, pml4, upage, TRUE)
    IN  IF r.pt = NULL THEN r ELSE Found(Link(r.s, r.pt, PTX(upage), [kpage |-> kpage, rw |-> rw]), r.pt)

Children(s, tables) == {s.mem[t][i] : t \in tables, i \in {0, 1}} \ {NULL}

\* The tables of a PML4 and the user pages they map: what pml4_destroy() and
\* the functions it calls free.
Tables(s, pml4) ==
    LET pdpe == Children(s, {pml4})
        pd == Children(s, pdpe)
    IN  {pml4} \cup pdpe \cup pd \cup Children(s, pd)
Mapped(s, pml4) ==
    {e.kpage : e \in Children(s, Children(s, Children(s, Children(s, {pml4}))))}

pml4_destroy(s, pml4) == Free(FreeUser(s, Mapped(s, pml4)), Tables(s, pml4))

=============================================================================
