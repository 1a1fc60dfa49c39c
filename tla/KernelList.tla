----------------------------- MODULE KernelList -----------------------------
(***************************************************************************)
(* Doubly linked lists (lib/kernel/list.c), as functions on a heap of      *)
(* list_elem records.  A list l has the two sentinels head(l) and tail(l); *)
(* less() compares the keys of two elements.                               *)
(*                                                                         *)
(* An ASSERT of the code is the guard of a CASE without another arm: a     *)
(* call that fails it has no value.                                        *)
(***************************************************************************)
EXTENDS Integers, Sequences, SequencesExt, TLC

CONSTANTS Elem, KeyOf, NULL

head(l) == <<"head", l>>
tail(l) == <<"tail", l>>

less(a, b) == KeyOf[a] < KeyOf[b]

is_head(h, e) == e # NULL /\ h[e].prev = NULL /\ h[e].next # NULL
is_interior(h, e) == e # NULL /\ h[e].prev # NULL /\ h[e].next # NULL
is_tail(h, e) == e # NULL /\ h[e].prev # NULL /\ h[e].next = NULL

list_init(h, l) ==
    (head(l) :> [prev |-> NULL, next |-> tail(l)])
        @@ (tail(l) :> [prev |-> head(l), next |-> NULL]) @@ h

list_begin(h, l) == h[head(l)].next
list_end(l) == tail(l)
list_rbegin(h, l) == h[tail(l)].prev
list_rend(l) == head(l)
list_next(h, e) == CASE is_head(h, e) \/ is_interior(h, e) -> h[e].next
list_prev(h, e) == CASE is_interior(h, e) \/ is_tail(h, e) -> h[e].prev
list_empty(h, l) == list_begin(h, l) = list_end(l)
list_front(h, l) == CASE ~list_empty(h, l) -> list_begin(h, l)
list_back(h, l) == CASE ~list_empty(h, l) -> list_rbegin(h, l)

\* The elements from a to b (exclusive), forwards and backwards.
RECURSIVE Forwards(_, _, _)
Forwards(h, a, b) == IF a = b THEN <<>> ELSE <<a>> \o Forwards(h, list_next(h, a), b)
RECURSIVE Backwards(_, _, _)
Backwards(h, a, b) == IF a = b THEN <<>> ELSE <<a>> \o Backwards(h, list_prev(h, a), b)

\* The first element from a to b (exclusive) that satisfies stop, or b.
Seek(h, a, b, stop(_)) ==
    LET walk == Forwards(h, a, b)
        i == SelectInSeq(walk, stop)
    IN  IF i = 0 THEN b ELSE walk[i]

list_size(h, l) == Len(Forwards(h, list_begin(h, l), list_end(l)))

----------------------------------------------------------------------------
(* Insertion and removal. *)

list_insert_OneWay(h, before, e) ==
    [h EXCEPT ![e] = [prev |-> h[before].prev, next |-> before],
              ![h[before].prev].next = e]

list_insert(h, before, e) ==
    CASE is_interior(h, before) \/ is_tail(h, before) ->
         [h EXCEPT ![e] = [prev |-> h[before].prev, next |-> before],
                   ![h[before].prev].next = e,
                   ![before].prev = e]

Unlink(h, first, last) ==
    [h EXCEPT ![h[first].prev].next = h[last].next,
              ![h[last].next].prev = h[first].prev]

Link(h, before, first, last) ==
    [h EXCEPT ![first].prev = h[before].prev,
              ![last].next = before,
              ![h[before].prev].next = first,
              ![before].prev = last]

list_splice(h, before, first, end) ==
    CASE is_interior(h, before) \/ is_tail(h, before) ->
         IF first = end THEN h
         ELSE LET last == list_prev(h, end)
              IN  CASE is_interior(h, first) /\ is_interior(h, last) ->
                       Link(Unlink(h, first, last), before, first, last)

list_push_front(h, l, e) == list_insert(h, list_begin(h, l), e)
list_push_back(h, l, e) == list_insert(h, list_end(l), e)

list_remove(h, e) == CASE is_interior(h, e) -> Unlink(h, e, e)
list_pop_front(h, l) == list_remove(h, list_front(h, l))
list_pop_back(h, l) == list_remove(h, list_back(h, l))

----------------------------------------------------------------------------
(* Reversing and sorting. *)

RECURSIVE SwapLinks(_, _, _)
SwapLinks(h, e, end) ==
    IF e = end THEN h
    ELSE LET swapped == [h EXCEPT ![e] = [prev |-> h[e].next, next |-> h[e].prev]]
         IN  SwapLinks(swapped, swapped[e].prev, end)

list_reverse(h, l) ==
    LET inner == SwapLinks(h, list_begin(h, l), list_end(l))
        first == inner[tail(l)].prev
        last == inner[head(l)].next
        ends == [inner EXCEPT ![head(l)].next = first, ![tail(l)].prev = last]
    IN  IF list_empty(h, l) THEN h
        ELSE [ends EXCEPT ![first].prev = ends[last].next, ![last].next = ends[first].prev]

Descends(h, e) == less(e, list_prev(h, e))

is_sorted(h, a, b) ==
    a # b => Seek(h, list_next(h, a), b, LAMBDA e : Descends(h, e)) = b

find_end_of_run(h, a, b) ==
    CASE a # b -> Seek(h, list_next(h, a), b, LAMBDA e : Descends(h, e))

RECURSIVE merge_loop(_, _, _, _)
merge_loop(h, a0, a1b0, b1) ==
    IF a0 = a1b0 \/ a1b0 = b1 THEN h
    ELSE IF ~less(a1b0, a0) THEN merge_loop(h, list_next(h, a0), a1b0, b1)
    ELSE LET rest == list_next(h, a1b0)
         IN  merge_loop(list_splice(h, a0, list_prev(h, rest), rest), a0, rest, b1)

inplace_merge(h, a0, a1b0, b1) ==
    CASE is_sorted(h, a0, a1b0) /\ is_sorted(h, a1b0, b1) -> merge_loop(h, a0, a1b0, b1)

\* One pass over the list: the heap and the number of runs put out.
RECURSIVE MergePass(_, _, _, _)
MergePass(h, l, a0, run_cnt) ==
    LET end == list_end(l)
        a1b0 == find_end_of_run(h, a0, end)
        b1 == find_end_of_run(h, a1b0, end)
    IN  IF a0 = end THEN <<h, run_cnt>>
        ELSE IF a1b0 = end THEN <<h, run_cnt + 1>>
        ELSE MergePass(inplace_merge(h, a0, a1b0, b1), l, b1, run_cnt + 1)

RECURSIVE list_sort(_, _)
list_sort(h, l) ==
    LET pass == MergePass(h, l, list_begin(h, l), 0)
    IN  IF pass[2] > 1 THEN list_sort(pass[1], l)
        ELSE CASE is_sorted(pass[1], list_begin(pass[1], l), list_end(l)) -> pass[1]

list_insert_ordered(h, l, e) ==
    list_insert(h, Seek(h, list_begin(h, l), list_end(l), LAMBDA f : less(e, f)), e)

\* dup is the list DUPLICATES, or NULL.
RECURSIVE unique_loop(_, _, _, _)
unique_loop(h, l, dup, e) ==
    LET next == list_next(h, e)
        removed == list_remove(h, next)
    IN  IF next = list_end(l) THEN h
        ELSE IF less(e, next) \/ less(next, e) THEN unique_loop(h, l, dup, next)
        ELSE unique_loop(IF dup = NULL THEN removed ELSE list_push_back(removed, dup, next), l, dup, e)

list_unique(h, l, dup) == IF list_empty(h, l) THEN h ELSE unique_loop(h, l, dup, list_begin(h, l))

\* The elements that list_max() and list_min() compare the first one with.
Rest(h, l) == Forwards(h, list_next(h, list_begin(h, l)), list_end(l))

list_max(h, l) ==
    IF list_empty(h, l) THEN list_end(l)
    ELSE FoldLeft(LAMBDA m, e : IF less(m, e) THEN e ELSE m, list_begin(h, l), Rest(h, l))

list_min(h, l) ==
    IF list_empty(h, l) THEN list_end(l)
    ELSE FoldLeft(LAMBDA m, e : IF less(e, m) THEN e ELSE m, list_begin(h, l), Rest(h, l))

=============================================================================
