-------------------------------- MODULE Pools -------------------------------
(***************************************************************************)
(* Boot of the page allocator (threads/palloc.c): the two pools are laid   *)
(* out over the memory that the firmware's E820 map calls usable.          *)
(* Addresses are physical ones; the map is in the order of addresses.      *)
(***************************************************************************)
EXTENDS Integers, Sequences, SequencesExt, FiniteSetsExt

CONSTANTS
    PageSize,            \* PGSIZE
    BASE_MEM_THRESHOLD,
    KernelEnd,           \* physical address of _end
    BitmapHeader, WordBits, WordSize,  \* bytes of struct bitmap, ELEM_BITS, sizeof (elem_type)
    Entry,               \* E820 entries that occur: start, size, type
    MaxEntries,          \* bound on the length of the map
    PageLimit            \* values of user_page_limit

VARIABLE e820           \* the firmware's memory map

USABLE == 1
ACPI_RECLAIMABLE == 3
Usable(map) == SelectSeq(map, LAMBDA e : e.type \in {USABLE, ACPI_RECLAIMABLE})

RoundUp(n, step) == ((n + step - 1) \div step) * step

\* resolve_area_info(): the areas of base and of extended memory.
Area(map, base) ==
    LET own == SelectSeq(Usable(map), LAMBDA e : (e.start < BASE_MEM_THRESHOLD) = base)
        extend(area, e) == IF area.size = 0 THEN [start |-> e.start, end |-> e.start + e.size, size |-> e.size]
                           ELSE [start |-> Min({area.start, e.start}), end |-> Max({area.end, e.start + e.size}),
                                 size |-> area.size + e.size]
    IN  FoldLeft(extend, [start |-> 0, end |-> 0, size |-> 0], own)

NoPool == [base |-> 0, cnt |-> 0]

\* init_pool(): a pool, and the room that its used_map takes at bm_base.
pool(start, end) == [base |-> start, cnt |-> (end - start) \div PageSize]
bm_pages(p) == RoundUp(BitmapHeader + WordSize * (RoundUp(p.cnt, WordBits) \div WordBits), PageSize)

page_from_pool(p, page) ==
    LET first == p.base \div PageSize IN first =< page \div PageSize /\ page \div PageSize < first + p.cnt

\* One usable entry of the first loop of populate_pools().
claim(s, e, user_pages) ==
    LET size_in_pg == e.size \div PageSize
        now == [s EXCEPT !.end = e.start + e.size,
                         !.region_start = IF s.state = "KERN_START" THEN e.start ELSE @,
                         !.state = IF @ = "KERN_START" THEN "KERN" ELSE @]
        split == e.start + s.rem * PageSize
    IN  IF s.panic THEN s
        ELSE IF now.state \in {"KERN", "USER"} /\ s.rem > size_in_pg THEN [now EXCEPT !.rem = @ - size_in_pg]
        ELSE IF now.state = "KERN" /\ s.rem = size_in_pg
        THEN [now EXCEPT !.kernel = pool(now.region_start, split), !.rem = user_pages, !.state = "USER_START"]
        ELSE IF now.state = "KERN"
        THEN [now EXCEPT !.kernel = pool(now.region_start, split), !.region_start = split,
                         !.rem = user_pages - size_in_pg + s.rem, !.state = "USER"]
        ELSE IF now.state = "USER_START" THEN [now EXCEPT !.region_start = e.start, !.state = "USER"]
        ELSE [now EXCEPT !.panic = s.rem # e.size]    \* ASSERT (rem == size)

\* The pages that the second loop of populate_pools() makes free for an entry
\* whose usable part is start to end; r.panic when it gets to no pool.
RECURSIVE split(_, _, _)
split(r, start, end) ==
    LET in == {name \in DOMAIN r.pools : page_from_pool(r.pools[name], start)}
        name == IF "kernel" \in in THEN "kernel" ELSE "user"
        p == r.pools[name]
        pool_end == p.base + p.cnt * PageSize
        idx == start \div PageSize - p.base \div PageSize
        take(cnt) == [r EXCEPT !.free = @ \cup {<<name, p.base + i * PageSize>> : i \in idx .. idx + cnt - 1}]
    IN  IF r.panic \/ in = {} THEN [r EXCEPT !.panic = TRUE]
        ELSE IF pool_end < end
        THEN split(take((pool_end - start) \div PageSize), pool_end, end)
        ELSE take((end - start) \div PageSize)

\* Where free memory begins: behind the kernel and the pools' bitmaps.
usable_bound_NoUserMap(pools) == RoundUp(KernelEnd, PageSize) + bm_pages(pools.kernel)

usable_bound(pools) == RoundUp(KernelEnd, PageSize) + bm_pages(pools.kernel) + bm_pages(pools.user)

\* The first loop of populate_pools().
lay_out(map, user_page_limit) ==
    LET total_pages == (Area(map, TRUE).size + Area(map, FALSE).size) \div PageSize
        user_pages == Min({user_page_limit, total_pages \div 2})
        start == [state |-> "KERN_START", rem |-> total_pages - user_pages, region_start |-> 0, end |-> 0,
                  kernel |-> NoPool, panic |-> FALSE]
    IN  FoldLeft(LAMBDA t, e : claim(t, e, user_pages), start, Usable(map))

\* The page allocator after palloc_init(): its pools, and its free pages with the
\* name of their pool.
populate_pools(map, user_page_limit) ==
    LET s == lay_out(map, user_page_limit)
        empty == [pools |-> [kernel |-> s.kernel, user |-> pool(s.region_start, s.end)],
                  free |-> {}, panic |-> s.panic]
        usable(r, e) ==
            LET bound == usable_bound(r.pools)
            IN  IF e.start + e.size < bound THEN r
                ELSE split(r, RoundUp(Max({e.start, bound}), PageSize), e.start + e.size)
    IN  FoldLeft(usable, empty, Usable(map))

----------------------------------------------------------------------------
PoolsInit == e820 = <<>>

\* The firmware's map has one more entry.
PoolsNext ==
    /\ Len(e820) < MaxEntries
    /\ \E e \in Entry : /\ e820 # <<>> => Last(e820).start + Last(e820).size =< e.start
                        /\ e820' = Append(e820, e)

PagesOf(e) == {a \in e.start .. e.start + e.size - 1 : a % PageSize = 0 /\ a + PageSize =< e.start + e.size}

\* The machine has its memory in one piece of whole pages, with the kernel and
\* bitmaps of bm bytes in it, beside base memory and reserved areas.
OnePiece(usable, bm) ==
    /\ Cardinality({i \in DOMAIN usable : usable[i].start >= BASE_MEM_THRESHOLD}) = 1
    /\ Last(usable).start < KernelEnd
    /\ Last(usable).size % PageSize = 0
    /\ Last(usable).start + Last(usable).size > KernelEnd + PageSize + bm

\* The allocator r has exactly the pages of the usable areas behind the bitmaps.
Covers(r, usable, bm, limit) ==
    LET ideal == {a \in UNION {PagesOf(usable[i]) : i \in DOMAIN usable} : a >= KernelEnd + bm}
    IN  OnePiece(usable, bm) =>
            /\ ~r.panic
            /\ {f[2] : f \in r.free} = ideal
            /\ Cardinality(r.free) = Cardinality(ideal)
            /\ Cardinality({f \in r.free : f[1] = "user"}) =< limit

\* On a machine whose extended memory is one usable area of whole pages the boot
\* does not panic, every page of usable memory beyond the kernel and the bitmaps is
\* free in exactly one pool, no other page is free, and user memory is limited to
\* the pages that -ul gives, zero included (palloc.c:116-235, init.c:330).  With
\* more areas than that the ASSERT in populate_pools() can fail: PoolAssertHolds.
PoolsExact ==
    e820 # <<>> => \A limit \in PageLimit :
        LET r == populate_pools(e820, limit)
        IN  Covers(r, Usable(e820), bm_pages(r.pools.kernel) + bm_pages(r.pools.user), limit)

----------------------------------------------------------------------------

\* ASSERT (rem == size); (palloc.c:182).
PoolAssertHolds == \A limit \in PageLimit : ~lay_out(e820, limit).panic

=============================================================================
