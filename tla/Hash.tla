-------------------------------- MODULE Hash --------------------------------
(***************************************************************************)
(* Chained hash tables (lib/kernel/hash.c), as functions on the heap of    *)
(* KernelList and a table t.  hash() of an element is a function of its    *)
(* key.  buckets names the array of buckets, of which malloc() has two to  *)
(* give: a table never has more than the old one and the new one.          *)
(***************************************************************************)
EXTENDS KernelList, FiniteSets

CONSTANTS
    HashOf,                \* hash value of each key
    MIN_BUCKET_CNT,        \* "at least four buckets"
    BEST_ELEMS_PER_BUCKET

Array == {"buckets", "new_buckets"}
bucket(t, i) == <<t.buckets, i>>
NewTable(array, bucket_cnt, elem_cnt) ==
    [buckets |-> array, bucket_cnt |-> bucket_cnt, elem_cnt |-> elem_cnt]
OtherArray(t) == CHOOSE a \in Array : a # t.buckets

\* The indices of the buckets in the order of a loop over them.
Indices(t) == [i \in 1 .. t.bucket_cnt |-> i - 1]
Chain(h, t, i) == Forwards(h, list_begin(h, bucket(t, i)), list_end(bucket(t, i)))

InitBuckets(h, t) == FoldLeft(LAMBDA g, i : list_init(g, bucket(t, i)), h, Indices(t))

\* hash & (bucket_cnt - 1), for a power of two.
find_bucket(t, e) == bucket(t, HashOf[KeyOf[e]] % t.bucket_cnt)

Equal(a, b) == ~less(a, b) /\ ~less(b, a)

find_elem(h, l, e) ==
    LET i == Seek(h, list_begin(h, l), list_end(l), LAMBDA f : Equal(f, e))
    IN  IF i = list_end(l) THEN NULL ELSE i

hash_find(h, t, e) == find_elem(h, find_bucket(t, e), e)

is_power_of_2(n) == \E k \in 0 .. n : n = 2^k

\* Turning off the least 1 bit until one is left leaves the highest.
BucketCnt(elem_cnt) ==
    LET best == elem_cnt \div BEST_ELEMS_PER_BUCKET
        want == IF best < MIN_BUCKET_CNT THEN MIN_BUCKET_CNT ELSE best
    IN  CHOOSE n \in 1 .. want : is_power_of_2(n) /\ 2 * n > want

\* The inner loop of rehash(): the elements of the old bucket l from e on move
\* to the buckets of t; next is read before its element is moved.
RECURSIVE ForChain(_, _, _, _)
ForChain(h, l, e, t) ==
    IF e = list_end(l) THEN h
    ELSE LET next == list_next(h, e)
             moved == list_push_front(list_remove(h, e), find_bucket(t, e), e)
         IN  ForChain(moved, l, next, t)

\* rehash(); room tells whether malloc() has the new buckets.
rehash(h, t, room) ==
    LET cnt == BucketCnt(t.elem_cnt)
        new == NewTable(OtherArray(t), cnt, t.elem_cnt)
    IN  IF cnt = t.bucket_cnt \/ ~room THEN <<h, t>>
        ELSE <<FoldLeft(LAMBDA g, i : ForChain(g, bucket(t, i), list_begin(g, bucket(t, i)), new),
                        InitBuckets(h, new), Indices(t)), new>>

insert_elem(h, t, l, e) == <<list_push_front(h, l, e), [t EXCEPT !.elem_cnt = @ + 1]>>
remove_elem(h, t, e) == <<list_remove(h, e), [t EXCEPT !.elem_cnt = @ - 1]>>

hash_insert(h, t, e, room) ==
    LET l == find_bucket(t, e)
        done == IF find_elem(h, l, e) = NULL THEN insert_elem(h, t, l, e) ELSE <<h, t>>
    IN  rehash(done[1], done[2], room)

hash_replace_KeepOld(h, t, e, room) ==
    LET done == insert_elem(h, t, find_bucket(t, e), e) IN rehash(done[1], done[2], room)

hash_replace(h, t, e, room) ==
    LET l == find_bucket(t, e)
        old == find_elem(h, l, e)
        out == IF old = NULL THEN <<h, t>> ELSE remove_elem(h, t, old)
        done == insert_elem(out[1], out[2], l, e)
    IN  rehash(done[1], done[2], room)

hash_delete(h, t, e, room) ==
    LET found == hash_find(h, t, e)
        out == remove_elem(h, t, found)
    IN  IF found = NULL THEN <<h, t>> ELSE rehash(out[1], out[2], room)

RECURSIVE PopAll(_, _)
PopAll(h, l) == IF list_empty(h, l) THEN h ELSE PopAll(list_pop_front(h, l), l)

\* hash_clear(); destructor tells whether there is one.
hash_clear(h, t, destructor) ==
    <<FoldLeft(LAMBDA g, i : list_init(IF destructor THEN PopAll(g, bucket(t, i)) ELSE g, bucket(t, i)),
               h, Indices(t)), [t EXCEPT !.elem_cnt = 0]>>

hash_init(h, array) ==
    LET t == NewTable(array, MIN_BUCKET_CNT, 0)
    IN  hash_clear(h, t, FALSE)

\* The elements that hash_apply() hands to its action.
hash_apply(h, t) == FoldLeft(LAMBDA s, i : s \o Chain(h, t, i), <<>>, Indices(t))

\* An iterator: the index of its bucket and its element.
hash_first(t) == [bucket |-> 0, elem |-> head(bucket(t, 0))]

RECURSIVE NextBucket(_, _, _)
NextBucket(h, t, it) ==
    IF it.elem # list_end(bucket(t, it.bucket)) THEN it
    ELSE IF it.bucket + 1 >= t.bucket_cnt THEN [bucket |-> it.bucket + 1, elem |-> NULL]
    ELSE NextBucket(h, t, [bucket |-> it.bucket + 1, elem |-> list_begin(h, bucket(t, it.bucket + 1))])

hash_next(h, t, it) == NextBucket(h, t, [it EXCEPT !.elem = list_next(h, @)])

\* The elements of "while (hash_next (&i))", in order.
RECURSIVE Iterate(_, _, _)
Iterate(h, t, it) ==
    LET next == hash_next(h, t, it)
    IN  IF next.elem = NULL THEN <<>> ELSE <<next.elem>> \o Iterate(h, t, next)

=============================================================================
