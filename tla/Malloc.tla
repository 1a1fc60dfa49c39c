------------------------------- MODULE Malloc -------------------------------
(***************************************************************************)
(* The block allocator (threads/malloc.c) on top of the page allocator.    *)
(*                                                                         *)
(* All accesses to a descriptor and its arenas are made with the           *)
(* descriptor's lock held, so that a call is one action.  Pages come from  *)
(* kernel_pool, of which only what module Palloc shows is used: it gives   *)
(* out contiguous pages that nobody has.  Sizes are computed modulo        *)
(* SIZE_MAX + 1, as size_t does.                                           *)
(***************************************************************************)
EXTENDS Integers, Sequences, FiniteSets, SequencesExt, TLC

CONSTANTS
    PGSIZE, MinBlock, ArenaSize,  \* page size, block_size of descs[0], sizeof (struct arena)
    SIZE_MAX,
    KernelPages,                  \* pages of kernel_pool
    Size, Factor                  \* arguments of malloc() and realloc(), and of calloc()

ASSUME MallocAssumption ==
    /\ {PGSIZE, MinBlock, ArenaSize, SIZE_MAX, KernelPages} \subseteq Nat \ {0}
    /\ ArenaSize < PGSIZE
    /\ Size \subseteq 0 .. SIZE_MAX /\ Factor \subseteq 0 .. SIZE_MAX

Page == 0 .. KernelPages - 1
DescCnt == 10
NoDesc == 0

VARIABLES
    arenas,     \* arena at the beginning of a page: desc and free_cnt
    free_list,  \* free list of each descriptor: blocks, as a page and an index
    held        \* blocks that callers have, with the bytes they asked for

vars == <<arenas, free_list, held>>

size_t(n) == n % (SIZE_MAX + 1)

\* DIV_ROUND_UP of round.h.
DivRoundUp(n, step) == size_t(n + step - 1) \div step

----------------------------------------------------------------------------
(* Descriptors.  One is named by its block_size. *)

Desc == {size \in {MinBlock * 2^k : k \in 0 .. DescCnt - 1} : size < PGSIZE \div 2}

blocks_per_arena_NoHeader(d) == PGSIZE \div d

blocks_per_arena(d) == (PGSIZE - ArenaSize) \div d

\* The smallest descriptor that satisfies a request.
desc_for(size) ==
    LET big == {d \in Desc : d >= size}
    IN  IF big = {} THEN NoDesc ELSE CHOOSE d \in big : \A e \in big : d =< e

block_to_arena(block) == block[1]

\* All the blocks of an arena, in order.
ArenaBlocks(a, d) == [i \in 1 .. blocks_per_arena(d) |-> <<a, i - 1>>]

\* Bytes available in a block.
block_size(block) ==
    LET a == arenas[block_to_arena(block)]
    IN  IF a.desc # NoDesc THEN a.desc ELSE PGSIZE * a.free_cnt - ArenaSize  \* pg_ofs (block)

\* Address of a block: arena_to_block().
arena_to_block(block) ==
    block[1] * PGSIZE + ArenaSize + block[2] * arenas[block_to_arena(block)].desc

\* Pages of an arena.
PageCnt(a) == IF arenas[a].desc = NoDesc THEN arenas[a].free_cnt ELSE 1

UsedPages == UNION {a .. a + PageCnt(a) - 1 : a \in DOMAIN arenas}

\* palloc_get_multiple(): any cnt contiguous pages that nobody has.
FreeRuns(cnt) ==
    {a \in Page : a + cnt =< KernelPages /\ a .. a + cnt - 1 \cap UsedPages = {}}

----------------------------------------------------------------------------
(* malloc() and free(), as functions on <<arenas, free_list>>. *)

NewArena(a, d, cnt) == (a :> [desc |-> d, free_cnt |-> cnt]) @@ arenas

\* A block is taken from a free list.
Take(as, fl, d) ==
    [as |-> [as EXCEPT ![block_to_arena(Head(fl[d]))].free_cnt = @ - 1],
     fl |-> [fl EXCEPT ![d] = Tail(@)],
     block |-> Head(fl[d])]

big_page_cnt(size) == DivRoundUp(size_t(size + ArenaSize), PGSIZE)

\* The outcomes of malloc(size), for size > 0; none when it returns null.
malloc_(size) ==
    LET d == desc_for(size)
    IN  IF d = NoDesc
        THEN {[as |-> NewArena(a, NoDesc, big_page_cnt(size)), fl |-> free_list, block |-> <<a, 0>>] :
                  a \in FreeRuns(big_page_cnt(size))}
        ELSE IF free_list[d] # <<>>
        THEN {Take(arenas, free_list, d)}
        ELSE {Take(NewArena(a, d, blocks_per_arena(d)),
                   [free_list EXCEPT ![d] = ArenaBlocks(a, d)], d) : a \in FreeRuns(1)}

Without(as, a) == [x \in DOMAIN as \ {a} |-> as[x]]

\* free(block): the arena goes back to the page allocator with its last block.
free_(as, fl, block) ==
    LET a == block_to_arena(block)
        d == as[a].desc
    IN  IF d = NoDesc
        THEN [as |-> Without(as, a), fl |-> fl]
        ELSE IF as[a].free_cnt + 1 >= blocks_per_arena(d)
        THEN [as |-> Without(as, a),
              fl |-> [fl EXCEPT ![d] = SelectSeq(@, LAMBDA b : block_to_arena(b) # a)]]
        ELSE [as |-> [as EXCEPT ![a].free_cnt = @ + 1],
              fl |-> [fl EXCEPT ![d] = <<block>> \o @]]

----------------------------------------------------------------------------
(* Calls. *)

MallocInit ==
    /\ arenas = <<>>
    /\ free_list = [d \in Desc |-> <<>>]
    /\ held = {}

malloc(size) ==
    /\ size > 0
    /\ \E m \in malloc_(size) :
          /\ arenas' = m.as
          /\ free_list' = m.fl
          /\ held' = held \cup {[block |-> m.block, want |-> size]}

calloc(a, b) ==
    /\ size_t(a * b) >= a /\ size_t(a * b) >= b
    /\ size_t(a * b) > 0
    /\ \E m \in malloc_(size_t(a * b)) :
          /\ arenas' = m.as
          /\ free_list' = m.fl
          /\ held' = held \cup {[block |-> m.block, want |-> a * b]}

free(h) ==
    LET m == free_(arenas, free_list, h.block)
    IN  /\ arenas' = m.as
        /\ free_list' = m.fl
        /\ held' = held \ {h}

\* The new block is taken before the old one is freed; without memory nothing
\* changes.  realloc (p, 0) is free (p).
realloc(h, new_size) ==
    /\ new_size > 0
    /\ \E m \in malloc_(new_size) :
          LET n == free_(m.as, m.fl, h.block)
          IN  /\ arenas' = n.as
              /\ free_list' = n.fl
              /\ held' = (held \ {h}) \cup {[block |-> m.block, want |-> new_size]}

MallocNext ==
    \/ \E size \in Size : malloc(size)
    \/ \E a, b \in Factor : calloc(a, b)
    \/ \E h \in held : free(h)
    \/ \E h \in held, new_size \in Size : realloc(h, new_size)

MallocSpec == MallocInit /\ [][MallocNext]_vars

----------------------------------------------------------------------------
(* Properties. *)

\* The bytes that a caller asked for.
BytesOf(h) == arena_to_block(h.block) .. arena_to_block(h.block) + h.want - 1

\* Memory handed out is really the caller's: the bytes asked for lie in the
\* pages of the block's own arena, beyond its header, and no two blocks share
\* a byte.
BlocksApart ==
    /\ \A h \in held :
          LET a == block_to_arena(h.block)
          IN  BytesOf(h) \subseteq a * PGSIZE + ArenaSize .. (a + PageCnt(a)) * PGSIZE - 1
    /\ \A g, h \in held : g # h => BytesOf(g) \cap BytesOf(h) = {}

\* A descriptor's free list holds each block of its arenas that no caller has,
\* once, and nothing else (no block of an arena that was given back); free_cnt
\* counts those of the arena.
FreeListExact ==
    \A d \in Desc :
        LET blocks == UNION {ToSet(ArenaBlocks(a, d)) : a \in {x \in DOMAIN arenas : arenas[x].desc = d}}
            unused == blocks \ {h.block : h \in held}
        IN  /\ ToSet(free_list[d]) = unused
            /\ Len(free_list[d]) = Cardinality(unused)
            /\ \A a \in DOMAIN arenas : arenas[a].desc = d =>
                  arenas[a].free_cnt = Cardinality({b \in unused : block_to_arena(b) = a})

\* The allocator as its callers and palloc see it; and no page is kept without
\* need: every arena has a block that a caller has (malloc.c:91-165, 218-262).
MallocExact == BlocksApart /\ FreeListExact /\ DOMAIN arenas = {block_to_arena(h.block) : h \in held}

\* "Obtains and returns a new block of at least SIZE bytes." (malloc.c:82);
\* realloc() copies as many as block_size() says.
AtLeastSize == \A h \in held : h.want =< SIZE_MAX => block_size(h.block) >= h.want

\* "Calculate block size and make sure it fits in size_t." (malloc.c:153): calloc()
\* allocates nothing for a product that does not fit.
ProductFits == \A h \in held : h.want =< SIZE_MAX
=============================================================================
