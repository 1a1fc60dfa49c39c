------------------------------- MODULE Arrays -------------------------------
(***************************************************************************)
(* Sorting and searching arrays (lib/stdlib.c), bitmaps                    *)
(* (lib/kernel/bitmap.c) and 64-bit division (lib/arithmetic.c).  An array *)
(* is a sequence; the memory of module Strings serves as the array of      *)
(* elements and as the bits of a bitmap, of which the words have ELEM_BITS *)
(* bits.  Division is modelled with words of W bits instead of 32.         *)
(***************************************************************************)
EXTENDS Strings

CONSTANTS ELEM_BITS, W

----------------------------------------------------------------------------
(* stdlib.c *)

do_compare(a, i, j) == Sign(a[i] - a[j])
do_swap(a, i, j) == [a EXCEPT ![i] = a[j], ![j] = a[i]]

RECURSIVE heapify(_, _, _)
heapify(a, i, cnt) ==
    LET left == 2 * i
        right == 2 * i + 1
        max1 == IF left =< cnt /\ do_compare(a, left, i) > 0 THEN left ELSE i
        max == IF right =< cnt /\ do_compare(a, right, max1) > 0 THEN right ELSE max1
    IN  IF max = i THEN a ELSE heapify(do_swap(a, i, max), max, cnt)

BuildHeap_TopOnly(a, i) == IF i = 0 THEN a ELSE heapify(a, 1, Len(a))

RECURSIVE BuildHeap(_, _)
BuildHeap(a, i) == IF i = 0 THEN a ELSE BuildHeap(heapify(a, i, Len(a)), i - 1)

RECURSIVE SortHeap(_, _)
SortHeap(a, i) == IF i =< 1 THEN a ELSE SortHeap(heapify(do_swap(a, 1, i), 1, i - 1), i - 1)

sort(a) == SortHeap(BuildHeap(a, Len(a) \div 2), Len(a))

\* first and last are 0-based, last exclusive.
RECURSIVE BinarySearch(_, _, _, _)
BinarySearch(key, a, first, last) ==
    LET middle == first + (last - first) \div 2
        cmp == Sign(key - a[middle + 1])
    IN  IF first >= last THEN NullPtr
        ELSE IF cmp < 0 THEN BinarySearch(key, a, first, middle)
        ELSE IF cmp > 0 THEN BinarySearch(key, a, middle + 1, last)
        ELSE middle + 1
binary_search(key, a) == BinarySearch(key, a, 0, Len(a))

----------------------------------------------------------------------------
(* bitmap.c: b is the array of words, bit_cnt the number of bits. *)

elem_idx(bit_idx) == bit_idx \div ELEM_BITS
bit_mask(bit_idx) == 2^(bit_idx % ELEM_BITS)
elem_cnt(bit_cnt) == (bit_cnt + ELEM_BITS - 1) \div ELEM_BITS

\* How many values the bits in use of the last word have: last_mask() + 1.
last_values(bit_cnt) == IF bit_cnt % ELEM_BITS = 0 THEN 2^ELEM_BITS ELSE 2^(bit_cnt % ELEM_BITS)

bitmap_test(b, idx) == (b[elem_idx(idx) + 1] \div bit_mask(idx)) % 2 = 1

bitmap_flip(b, idx) ==
    [b EXCEPT ![elem_idx(idx) + 1] = IF bitmap_test(b, idx) THEN @ - bit_mask(idx) ELSE @ + bit_mask(idx)]

bitmap_mark(b, idx) == IF bitmap_test(b, idx) THEN b ELSE bitmap_flip(b, idx)    \* |= mask
bitmap_reset(b, idx) == IF bitmap_test(b, idx) THEN bitmap_flip(b, idx) ELSE b   \* &= ~mask
bitmap_set(b, idx, value) == IF value THEN bitmap_mark(b, idx) ELSE bitmap_reset(b, idx)

RECURSIVE bitmap_set_multiple(_, _, _, _)
bitmap_set_multiple(b, start, cnt, value) ==
    IF cnt = 0 THEN b ELSE bitmap_set_multiple(bitmap_set(b, start, value), start + 1, cnt - 1, value)
bitmap_set_all(b, bit_cnt, value) == bitmap_set_multiple(b, 0, bit_cnt, value)

RECURSIVE bitmap_count(_, _, _, _)
bitmap_count(b, start, cnt, value) ==
    IF cnt = 0 THEN 0
    ELSE (IF bitmap_test(b, start) = value THEN 1 ELSE 0) + bitmap_count(b, start + 1, cnt - 1, value)

RECURSIVE bitmap_contains(_, _, _, _)
bitmap_contains(b, start, cnt, value) ==
    cnt > 0 /\ (bitmap_test(b, start) = value \/ bitmap_contains(b, start + 1, cnt - 1, value))

bitmap_any(b, start, cnt) == bitmap_contains(b, start, cnt, TRUE)
bitmap_none(b, start, cnt) == ~bitmap_contains(b, start, cnt, TRUE)
bitmap_all(b, start, cnt) == ~bitmap_contains(b, start, cnt, FALSE)

BITMAP_ERROR == -1

RECURSIVE ScanFrom(_, _, _, _, _)
ScanFrom(b, i, last, cnt, value) ==
    IF i > last THEN BITMAP_ERROR
    ELSE IF ~bitmap_contains(b, i, cnt, ~value) THEN i ELSE ScanFrom(b, i + 1, last, cnt, value)

bitmap_scan(b, bit_cnt, start, cnt, value) ==
    IF cnt =< bit_cnt THEN ScanFrom(b, start, bit_cnt - cnt, cnt, value) ELSE BITMAP_ERROR

\* The bitmap after the call and what is returned.
bitmap_scan_and_flip(b, bit_cnt, start, cnt, value) ==
    LET idx == bitmap_scan(b, bit_cnt, start, cnt, value)
    IN  [bits |-> IF idx # BITMAP_ERROR THEN bitmap_set_multiple(b, idx, cnt, ~value) ELSE b,
         ret |-> idx]

\* A bitmap read from a file that holds the words file.
bitmap_read(bit_cnt, file) ==
    IF bit_cnt = 0 THEN <<>>
    ELSE [SubSeq(file, 1, elem_cnt(bit_cnt)) EXCEPT ![elem_cnt(bit_cnt)] = @ % last_values(bit_cnt)]

----------------------------------------------------------------------------
(* arithmetic.c; a trap of divl() has no value. *)

b_ == 2^W                           \* b of udiv64()
wide(n) == n % (b_ * b_)            \* uint64_t
divl(n, d) == CASE n \div d < b_ -> n \div d

\* k is half of the word at first, then half of that...
RECURSIVE NlzStep(_, _)
NlzStep(x, k) ==
    IF k = 0 THEN 0
    ELSE IF x < 2^(W - k) THEN k + NlzStep((x * 2^k) % b_, k \div 2)
    ELSE NlzStep(x, k \div 2)
nlz(x) == NlzStep(x, W \div 2)

udiv64(n, d) ==
    IF d < b_ THEN divl((b_ * ((n \div b_) % d)) + (n % b_), d) + (b_ * ((n \div b_) \div d))
    ELSE IF n < d THEN 0
    ELSE LET s == nlz(d \div b_)
             q == divl(n \div 2, wide(d * 2^s) \div b_) \div 2^(W - 1 - s)
         IN  IF wide(n - (q - 1) * d) < d THEN q - 1 ELSE q

umod64(n, d) == (n - d * udiv64(n, d)) % b_        \* returned as a uint32_t

int32(n) == IF 2 * n >= b_ THEN n - b_ ELSE n
int64(n) == IF 2 * n >= b_ * b_ THEN n - b_ * b_ ELSE n
magnitude(n) == IF n < 0 THEN -n ELSE n
sdiv64(n, d) ==
    LET q_abs == udiv64(magnitude(n), magnitude(d))
    IN  int64(wide(IF (n < 0) = (d < 0) THEN q_abs ELSE -q_abs))

smod64(n, d) == int32((n - d * sdiv64(n, d)) % b_)   \* returned as an int32_t

----------------------------------------------------------------------------
(* What the functions should do. *)

Count(a, x) == Cardinality({i \in DOMAIN a : a[i] = x})

\* sort() leaves the elements of the array in order, each as often as before,
\* and binary_search() then finds a match exactly if there is one.
SortExact ==
    LET a == sort(mem)
    IN  /\ \A i \in 1 .. Len(a) - 1 : a[i] =< a[i + 1]
        /\ \A x \in Byte : Count(a, x) = Count(mem, x)
        /\ \A key \in Byte : LET p == binary_search(key, a)
                             IN  IF key \in ToSet(a) THEN a[p] = key ELSE p = NullPtr

\* A bitmap is the set of its bits below bit_cnt, whatever the unused bits of its
\* last word: operations change only the bits they are given, and scans find
\* the first group and fail only if there is none, up to the very last bit.  The
\* index that bitmap_scan_and_flip() returns is claimed for groups that are not
\* empty.
BitmapExact ==
    \A bit_cnt \in {n \in 1 .. Len(mem) * ELEM_BITS : elem_cnt(n) = Len(mem)} :
        LET Bit == 0 .. bit_cnt - 1
            Set(b) == {i \in Bit : bitmap_test(b, i)}
            Of(value) == IF value THEN Set(mem) ELSE Bit \ Set(mem)
            Group(i, cnt) == i .. i + cnt - 1
        IN  /\ \A value \in BOOLEAN : Set(bitmap_set_all(mem, bit_cnt, value)) = IF value THEN Bit ELSE {}
            /\ Set(bitmap_read(bit_cnt, mem)) = Set(mem)
            /\ bitmap_read(bit_cnt, mem)[elem_cnt(bit_cnt)] < last_values(bit_cnt)
            /\ \A start \in Bit, cnt \in 0 .. bit_cnt : \A value \in BOOLEAN :
                  LET fits == {i \in start .. bit_cnt - cnt : Group(i, cnt) \subseteq Of(value)}
                      flip == bitmap_scan_and_flip(mem, bit_cnt, start, cnt, value)
                      found == IF fits = {} THEN BITMAP_ERROR ELSE Min(fits)
                      G == Group(start, cnt)
                  IN  /\ bitmap_scan(mem, bit_cnt, start, cnt, value) = found
                      /\ cnt > 0 => flip.ret = found
                      /\ Set(flip.bits) = IF fits = {} THEN Set(mem)
                                          ELSE IF value THEN Set(mem) \ Group(found, cnt)
                                          ELSE Set(mem) \cup Group(found, cnt)
                      /\ start + cnt =< bit_cnt =>
                            /\ bitmap_count(mem, start, cnt, value) = Cardinality(G \cap Of(value))
                            /\ bitmap_any(mem, start, cnt) = (G \cap Set(mem) # {})
                            /\ bitmap_none(mem, start, cnt) = (G \cap Set(mem) = {})
                            /\ bitmap_all(mem, start, cnt) = (G \subseteq Set(mem))

Dividend == FoldLeft(LAMBDA v, c : wide(v * 4 + c), 0, mem)   \* bytes of two bits

\* Whatever the dividend and the divisor, the division does not trap and its
\* quotient is exact; so is the remainder by a divisor with which it fits into the
\* 32 bits that umod64() and smod64() return.
DivisionExact ==
    Len(mem) = W => \A d \in 1 .. b_ * b_ - 1 :
        LET n == Dividend
            num == int64(n)
            den == int64(d)
            q == IF (num < 0) = (den < 0) THEN magnitude(num) \div magnitude(den)
                                          ELSE -(magnitude(num) \div magnitude(den))
        IN  /\ udiv64(n, d) = n \div d
            /\ d =< b_ => umod64(n, d) = n % d
            /\ sdiv64(num, den) = int64(wide(q))
            /\ 2 * magnitude(den) =< b_ => smod64(num, den) = num - den * q

\* Sorting, searching, bitmaps and division do what the comments of stdlib.c,
\* bitmap.c and arithmetic.c say, but for two of them: the remainder by a
\* divisor above 2^32, and what bitmap_scan_and_flip() returns for no bits at all.
ArraysExact == SortExact /\ BitmapExact /\ DivisionExact

----------------------------------------------------------------------------
(* What two comments say beyond that. *)

\* "Divides unsigned 64-bit N by unsigned 64-bit D and returns the remainder."
\* (arithmetic.c:118-119).
RemainderReturned ==
    Len(mem) = W => \A d \in 1 .. b_ * b_ - 1 : umod64(Dividend, d) = Dividend % d

\* "If CNT is zero, returns 0." (bitmap.c:289).
ScanOfNoneReturnsZero ==
    \A bit_cnt \in {n \in 1 .. Len(mem) * ELEM_BITS : elem_cnt(n) = Len(mem)} :
        \A start \in 0 .. bit_cnt, value \in BOOLEAN :
            bitmap_scan_and_flip(mem, bit_cnt, start, 0, value).ret = 0

=============================================================================
