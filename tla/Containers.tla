----------------------------- MODULE Containers -----------------------------
(***************************************************************************)
(* A client of the kernel's lists and hash tables.  It moves elements      *)
(* between two lists and a hash table with every operation of list.c and   *)
(* hash.c, and keeps beside them what they should hold: the sequences seqs *)
(* and the set members.  The memory of an element on no list belongs to    *)
(* the client, which clears it.                                            *)
(***************************************************************************)
EXTENDS Hash, FiniteSetsExt

VARIABLES
    heap,     \* the list_elem of every element and sentinel
    table,    \* the struct hash, NULL when there is none
    seqs,     \* what each list should hold
    members   \* what the hash table should hold

contVars == <<heap, table, seqs, members>>

List == {<<"list", 1>>, <<"list", 2>>}
Pos(s, e) == CHOOSE i \in 1 .. Len(s) : s[i] = e
OnList == UNION {ToSet(seqs[l]) : l \in List}
Loose == Elem \ (OnList \cup members)

\* Of nodes, the elements that are loose afterwards have been cleared and the
\* sentinels of an array of buckets that has been freed are gone.
Cleared(h, t, loose) ==
    LET live == {n \in DOMAIN h : n \in Elem \/ n[2] \in List \/ (t # NULL /\ n[2][1] = t.buckets)}
    IN  [n \in live |-> IF n \in loose THEN [prev |-> NULL, next |-> NULL] ELSE h[n]]

ContInit ==
    /\ heap = FoldLeft(list_init, [e \in Elem |-> [prev |-> NULL, next |-> NULL]], SetToSeq(List))
    /\ table = NULL
    /\ seqs = [l \in List |-> <<>>]
    /\ members = {}

----------------------------------------------------------------------------
(* Operations on lists, with what they should do to sequences. *)

\* A call has left heap h and should have left sequences s.
ListCall(h, s) ==
    /\ seqs' = s
    /\ heap' = Cleared(h, table, Elem \ (UNION {ToSet(s[l]) : l \in List} \cup members))
    /\ UNCHANGED <<table, members>>

InsertBefore ==
    \E l \in List, e \in Loose : \E i \in 1 .. Len(seqs[l]) :
        ListCall(list_insert(heap, seqs[l][i], e), [seqs EXCEPT ![l] = InsertAt(@, i, e)])

PushFront ==
    \E l \in List, e \in Loose :
        ListCall(list_push_front(heap, l, e), [seqs EXCEPT ![l] = <<e>> \o @])

PushBack ==
    \E l \in List, e \in Loose :
        ListCall(list_push_back(heap, l, e), [seqs EXCEPT ![l] = Append(@, e)])

RemoveElem ==
    \E l \in List : \E e \in ToSet(seqs[l]) :
        ListCall(list_remove(heap, e), [seqs EXCEPT ![l] = RemoveAt(@, Pos(@, e))])

PopFront ==
    \E l \in List : seqs[l] # <<>> /\ ListCall(list_pop_front(heap, l), [seqs EXCEPT ![l] = Tail(@)])

PopBack ==
    \E l \in List : seqs[l] # <<>> /\ ListCall(list_pop_back(heap, l), [seqs EXCEPT ![l] = Front(@)])

\* Elements i to j - 1 of one list go before element k of the other, or to its end.
Splice ==
    \E from \in List, to \in List :
        /\ from # to
        /\ \E i \in 1 .. Len(seqs[from]) + 1, k \in 1 .. Len(seqs[to]) + 1 :
           \E j \in i .. Len(seqs[from]) + 1 :
               LET Node(l, n) == IF n > Len(seqs[l]) THEN list_end(l) ELSE seqs[l][n]
                   s == seqs[from]
                   d == seqs[to]
               IN  ListCall(list_splice(heap, Node(to, k), Node(from, i), Node(from, j)),
                            [seqs EXCEPT ![from] = SubSeq(s, 1, i - 1) \o SubSeq(s, j, Len(s)),
                                         ![to] = SubSeq(d, 1, k - 1) \o SubSeq(s, i, j - 1)
                                                     \o SubSeq(d, k, Len(d))])

ReverseList ==
    \E l \in List : ListCall(list_reverse(heap, l), [seqs EXCEPT ![l] = Reverse(@)])

\* s in the order of the keys, elements with the same key in the order of s.
StableSort(s) ==
    SetToSortSeq(ToSet(s), LAMBDA a, b : less(a, b) \/ (~less(b, a) /\ Pos(s, a) < Pos(s, b)))

Sort == \E l \in List : ListCall(list_sort(heap, l), [seqs EXCEPT ![l] = StableSort(@)])

\* The new element goes behind those with its key.
InsertOrdered ==
    \E l \in List, e \in Loose :
        /\ seqs[l] = StableSort(seqs[l])
        /\ ListCall(list_insert_ordered(heap, l, e),
                    [seqs EXCEPT ![l] = InsertAt(@, 1 + Cardinality({f \in ToSet(@) : ~less(e, f)}), e)])

Starts(s) == {s[i] : i \in {j \in 1 .. Len(s) : j = 1 \/ ~Equal(s[j - 1], s[j])}}

Unique ==
    \E l \in List : \E d \in (List \ {l}) \cup {NULL} :
        LET s == seqs[l]
            kept == [seqs EXCEPT ![l] = SelectSeq(s, LAMBDA e : e \in Starts(s))]
            dups == SelectSeq(s, LAMBDA e : e \notin Starts(s))
        IN  ListCall(list_unique(heap, l, d),
                     IF d = NULL THEN kept ELSE [kept EXCEPT ![d] = @ \o dups])

----------------------------------------------------------------------------
(* Operations on the hash table, with what they should do to a set. *)

\* A call has left <<h, t>> = r and should have left set m.
HashCall(r, m) ==
    /\ table' = r[2]
    /\ members' = m
    /\ heap' = Cleared(r[1], r[2], Elem \ (OnList \cup m))
    /\ UNCHANGED seqs

SameKey(e) == {m \in members : Equal(m, e)}

\* When malloc() has no buckets, hash_init() returns false and there is no table.
HashInit == table = NULL /\ \E a \in Array : HashCall(hash_init(heap, a), {})

HashInsert ==
    \E e \in Loose, room \in BOOLEAN :
        /\ table # NULL
        /\ HashCall(hash_insert(heap, table, e, room),
                    IF SameKey(e) = {} THEN members \cup {e} ELSE members)

HashReplace ==
    \E e \in Loose, room \in BOOLEAN :
        /\ table # NULL
        /\ HashCall(hash_replace(heap, table, e, room), (members \ SameKey(e)) \cup {e})

\* The element to delete is named by any element with its key.
HashDelete ==
    \E e \in Elem, room \in BOOLEAN :
        /\ table # NULL
        /\ HashCall(hash_delete(heap, table, e, room), members \ SameKey(e))

HashClear ==
    \E destructor \in BOOLEAN :
        /\ table # NULL
        /\ HashCall(hash_clear(heap, table, destructor), {})

\* hash_destroy(): the array of buckets is freed.
HashDestroy ==
    /\ table # NULL
    /\ HashCall(<<hash_clear(heap, table, TRUE)[1], NULL>>, {})

ContNext ==
    \/ InsertBefore \/ PushFront \/ PushBack \/ RemoveElem \/ PopFront \/ PopBack
    \/ Splice \/ ReverseList \/ Sort \/ InsertOrdered \/ Unique
    \/ HashInit \/ HashInsert \/ HashReplace \/ HashDelete \/ HashClear \/ HashDestroy

ContSpec == ContInit /\ [][ContNext]_contVars

----------------------------------------------------------------------------
(* Properties. *)

\* Whatever the calls so far, each list read forwards and backwards is the
\* sequence that the calls describe, list_size() is its length, and list_max()
\* and list_min() are the first of its largest and smallest elements
\* (list.c:457-489).  In particular list_sort() is stable.
ListsExact ==
    \A l \in List :
        LET s == seqs[l]
            First(S) == CHOOSE e \in S : \A f \in S : Pos(s, e) =< Pos(s, f)
        IN  /\ Forwards(heap, list_begin(heap, l), list_end(l)) = s
            /\ Backwards(heap, list_rbegin(heap, l), list_rend(l)) = Reverse(s)
            /\ list_size(heap, l) = Len(s)
            /\ list_max(heap, l) = IF s = <<>> THEN list_end(l)
                                   ELSE First({e \in ToSet(s) : \A f \in ToSet(s) : ~less(e, f)})
            /\ list_min(heap, l) = IF s = <<>> THEN list_end(l)
                                   ELSE First({e \in ToSet(s) : \A f \in ToSet(s) : ~less(f, e)})

\* Whatever the calls so far, and wherever malloc() failed in rehash(), the hash
\* table finds exactly its members by their keys, counts them, and an iterator
\* and hash_apply() visit each of them once (hash.c:120-230).
HashExact ==
    table # NULL =>
        /\ table.elem_cnt = Cardinality(members)
        /\ \A e \in Elem : hash_find(heap, table, e)
                               = IF SameKey(e) = {} THEN NULL ELSE CHOOSE m \in SameKey(e) : TRUE
        /\ LET visited == Iterate(heap, table, hash_first(table))
           IN  /\ ToSet(visited) = members /\ Len(visited) = Cardinality(members)
               /\ visited = hash_apply(heap, table)

\* Lists and tables hold what the calls so far have put there, in order.
ContainersExact == ListsExact /\ HashExact

=============================================================================
