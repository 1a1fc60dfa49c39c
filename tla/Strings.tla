------------------------------ MODULE Strings -------------------------------
(***************************************************************************)
(* Blocks and strings (lib/string.c, hex_dump() of stdio.c and the hashes  *)
(* of bytes in hash.c), as functions on a memory m, the sequence of its    *)
(* bytes.  A pointer is an index of m and NULL is 0.                       *)
(* Arguments that a function's ASSERTs refuse are not given.               *)
(***************************************************************************)
EXTENDS Integers, Sequences, SequencesExt, FiniteSetsExt, Bitwise

CONSTANTS
    Byte,      \* values of a byte, 0 among them
    Separator, \* the bytes of the delimiters that strtok_r() is given, and 0
    PerLine,   \* per_line of hex_dump()
    MaxMem     \* bound on the size of the memory

VARIABLE mem   \* the memory that the functions are called on

NullPtr == 0
Blank == -1   \* an empty column
Sign(n) == IF n > 0 THEN 1 ELSE IF n < 0 THEN -1 ELSE 0

\* A loop that stops at the first byte, from p, that is in S.
RECURSIVE Scan(_, _, _)
Scan(m, p, S) == IF m[p] \in S THEN p ELSE Scan(m, p + 1, S)

RECURSIVE memcpy(_, _, _, _)
memcpy(m, dst, src, size) ==
    IF size = 0 THEN m ELSE memcpy([m EXCEPT ![dst] = m[src]], dst + 1, src + 1, size - 1)

RECURSIVE CopyDown(_, _, _, _)
CopyDown(m, dst, src, size) ==
    IF size = 0 THEN m ELSE CopyDown([m EXCEPT ![dst - 1] = m[src - 1]], dst - 1, src - 1, size - 1)

memmove_Upwards(m, dst, src, size) == [mem |-> memcpy(m, dst, src, size), ret |-> dst + size]

\* The memory after the call and what is returned: the final value of dst.
memmove(m, dst, src, size) ==
    IF dst < src THEN [mem |-> memcpy(m, dst, src, size), ret |-> dst + size]
                 ELSE [mem |-> CopyDown(m, dst + size, src + size, size), ret |-> dst]

RECURSIVE memset(_, _, _, _)
memset(m, dst, value, size) ==
    IF size = 0 THEN m ELSE memset([m EXCEPT ![dst] = value], dst + 1, value, size - 1)

RECURSIVE memcmp(_, _, _, _)
memcmp(m, a, b, size) ==
    IF size = 0 THEN 0
    ELSE IF m[a] # m[b] THEN Sign(m[a] - m[b])
    ELSE memcmp(m, a + 1, b + 1, size - 1)

RECURSIVE strcmp(_, _, _)
strcmp(m, a, b) ==
    IF m[a] # 0 /\ m[a] = m[b] THEN strcmp(m, a + 1, b + 1) ELSE Sign(m[a] - m[b])

RECURSIVE memchr(_, _, _, _)
memchr(m, block, ch, size) ==
    IF size = 0 THEN NullPtr ELSE IF m[block] = ch THEN block ELSE memchr(m, block + 1, ch, size - 1)

strchr(m, string, c) ==
    LET p == Scan(m, string, {c, 0}) IN IF m[p] = c THEN p ELSE NullPtr

\* Bytes that occur in a string, its null byte among them.
Occurring(m, string) == {c \in Byte : strchr(m, string, c) # NullPtr}

strcspn(m, string, stop) == Scan(m, string, Occurring(m, stop)) - string

strspn(m, string, skip) == Scan(m, string, (Byte \ Occurring(m, skip)) \cup {0}) - string

strpbrk(m, string, stop) ==
    LET p == Scan(m, string, Occurring(m, stop)) IN IF m[p] = 0 THEN NullPtr ELSE p

RECURSIVE LastOf(_, _, _, _)
LastOf(m, string, c, p) ==
    IF m[string] = 0 THEN p ELSE LastOf(m, string + 1, c, IF m[string] = c THEN string ELSE p)
strrchr(m, string, c) == LastOf(m, string, c, NullPtr)

strlen(m, string) == Scan(m, string, {0}) - string

RECURSIVE strnlen(_, _, _)
strnlen(m, string, maxlen) ==
    IF m[string] # 0 /\ maxlen > 0 THEN 1 + strnlen(m, string + 1, maxlen - 1) ELSE 0

strstr(m, haystack, needle) ==
    LET len == strlen(m, needle)
        at == {i \in 0 .. strlen(m, haystack) - len : memcmp(m, haystack + i, needle, len) = 0}
    IN  IF at = {} THEN NullPtr ELSE haystack + Min(at)

strlcpy(m, dst, src, size) ==
    LET src_len == strlen(m, src)
        n == Min({size - 1, src_len})
    IN  [mem |-> IF size > 0 THEN [memcpy(m, dst, src, n) EXCEPT ![dst + n] = 0] ELSE m,
         ret |-> src_len]

strlcat(m, dst, src, size) ==
    LET src_len == strlen(m, src)
        dst_len == strlen(m, dst)
        n == Min({size - dst_len - 1, src_len})
    IN  [mem |-> IF size > 0 /\ dst_len < size
                 THEN [memcpy(m, dst + dst_len, src, n) EXCEPT ![dst + dst_len + n] = 0]
                 ELSE m,
         ret |-> src_len + dst_len]

\* A call with s or, when s is NULL, from the saved position.
strtok_r(m, s, save_ptr) ==
    LET token == Scan(m, IF s = NullPtr THEN save_ptr ELSE s, (Byte \ Separator) \cup {0})
        end == Scan(m, token, Separator)
    IN  IF m[token] = 0 THEN [mem |-> m, save_ptr |-> token, token |-> NullPtr]
        ELSE IF m[end] # 0 THEN [mem |-> [m EXCEPT ![end] = 0], save_ptr |-> end + 1, token |-> token]
        ELSE [mem |-> m, save_ptr |-> end, token |-> token]

\* The tokens of the loop in the comment of strtok_r(), and the memory it leaves.
RECURSIVE Tokenize(_, _, _, _)
Tokenize(m, s, save_ptr, found) ==
    LET r == strtok_r(m, s, save_ptr)
    IN  IF r.token = NullPtr THEN [mem |-> r.mem, tokens |-> found]
        ELSE Tokenize(r.mem, NullPtr, r.save_ptr, Append(found, r.token))

\* hex_dump(): the lines, each with its offset and the bytes of its columns.
RECURSIVE hex_dump(_, _)
hex_dump(ofs, buf) ==
    LET start == ofs % PerLine
        end == IF PerLine - start > Len(buf) THEN start + Len(buf) ELSE PerLine
        n == end - start
    IN  IF buf = <<>> THEN <<>>
        ELSE <<[ofs |-> ofs - start,
                cells |-> [i \in 0 .. PerLine - 1 |-> IF start =< i /\ i < end THEN buf[i - start + 1] ELSE Blank]]>>
             \o hex_dump(ofs + n, SubSeq(buf, n + 1, Len(buf)))

\* The hashes of hash.c, their low byte: it depends on the low bytes of the two
\* constants alone.
FNV_64_PRIME == 179
FNV_64_BASIS == 37
Mix(hash, byte) == ((hash * FNV_64_PRIME) % 256) ^^ byte

RECURSIVE BytesFrom(_, _, _, _)
BytesFrom(m, buf, size, hash) ==
    IF size = 0 THEN hash ELSE BytesFrom(m, buf + 1, size - 1, Mix(hash, m[buf]))
hash_bytes(m, buf, size) == BytesFrom(m, buf, size, FNV_64_BASIS)

RECURSIVE StringFrom(_, _, _)
StringFrom(m, s, hash) == IF m[s] = 0 THEN hash ELSE StringFrom(m, s + 1, Mix(hash, m[s]))
hash_string(m, s) == StringFrom(m, s, FNV_64_BASIS)

----------------------------------------------------------------------------
(* What the functions should do. *)

StringInit == mem = <<>>

\* One more byte of the memory that the functions are called on.
StringNext == Len(mem) < MaxMem /\ \E c \in Byte : mem' = Append(mem, c)

Ptr == 1 .. Len(mem)
IsString(p) == \E q \in p .. Len(mem) : mem[q] = 0
Str(m, p) == LET n == Min({q \in p .. Len(m) : m[q] = 0}) IN SubSeq(m, p, n - 1)
Copied(dst, src, n) == [i \in Ptr |-> IF i \in dst .. dst + n - 1 THEN mem[src + i - dst] ELSE mem[i]]

\* Blocks: memmove() moves overlapping blocks either way, and returns dst unless
\* dst is below src; memcpy() moves those that do not overlap upwards, memcmp()
\* orders them like their first difference and memchr() finds the first byte
\* (string.c:4-97).
BlocksExact ==
    \A a, b \in Ptr : \A n \in 0 .. Len(mem) + 1 - Max({a, b}) :
        LET differ == {i \in 0 .. n - 1 : mem[a + i] # mem[b + i]}
        IN  /\ memmove(mem, a, b, n).mem = Copied(a, b, n)
            /\ a >= b => memmove(mem, a, b, n).ret = a
            /\ a =< b \/ b + n =< a => memcpy(mem, a, b, n) = Copied(a, b, n)
            /\ memcmp(mem, a, b, n)
                   = IF differ = {} THEN 0 ELSE Sign(mem[a + Min(differ)] - mem[b + Min(differ)])
            /\ \A c \in Byte :
                  /\ LET at == {i \in a .. a + n - 1 : mem[i] = c}
                     IN  memchr(mem, a, c, n) = IF at = {} THEN NullPtr ELSE Min(at)
                  /\ memset(mem, a, c, n)
                         = [i \in Ptr |-> IF i \in a .. a + n - 1 THEN c ELSE mem[i]]

\* Strings: the searches find the first (strrchr() the last) occurrence, and
\* comparison is the lexicographic order (string.c:61-183).  A string hashes
\* like the bytes before its null byte (hash.c:240-271).
SearchesExact ==
    \A a, b \in {p \in Ptr : IsString(p)} :
        LET s == Str(mem, a)
            t == Str(mem, b)
            First(S) == IF S = {} THEN NullPtr ELSE a - 1 + Min(S)
            In == {i \in DOMAIN s : s[i] \in ToSet(t)}
        IN  /\ strcmp(mem, a, b) = 0 <=> s = t
            /\ strcmp(mem, a, b) < 0 <=> \/ IsStrictPrefix(s, t)
                                         \/ \E i \in DOMAIN s \cap DOMAIN t :
                                               /\ s[i] < t[i]
                                               /\ \A j \in 1 .. i - 1 : s[j] = t[j]
            /\ strlen(mem, a) = Len(s)
            /\ hash_string(mem, a) = hash_bytes(mem, a, Len(s))
            /\ \A n \in 0 .. MaxMem : strnlen(mem, a, n) = Min({n, Len(s)})
            /\ \A c \in Byte \ {0} :
                  LET at == {i \in DOMAIN s : s[i] = c}
                  IN  /\ strchr(mem, a, c) = First(at)
                      /\ strrchr(mem, a, c) = IF at = {} THEN NullPtr ELSE a - 1 + Max(at)
            /\ strpbrk(mem, a, b) = First(In)
            /\ strcspn(mem, a, b) = IF In = {} THEN Len(s) ELSE Min(In) - 1
            /\ strspn(mem, a, b) = LET out == DOMAIN s \ In
                                   IN  IF out = {} THEN Len(s) ELSE Min(out) - 1
            /\ strstr(mem, a, b) = First({i \in 1 .. Len(s) + 1 : IsPrefix(t, SubSeq(s, i, Len(s)))})

\* The lengths that bounded copies return are those of the whole strings, and
\* they write no byte outside dst's size bytes.  What they leave there holds as
\* much of the source as there is room for and ends in a null byte; of strlcat()
\* this is claimed if the string at dst ends within size, and otherwise that
\* it writes nothing (string.c:292-346).
CopiesBounded ==
    \A src \in {p \in Ptr : IsString(p)} : \A dst \in Ptr : \A size \in 0 .. Len(mem) - dst + 1 :
        LET room == dst .. dst + size - 1
            end == src + Len(Str(mem, src))
            cpy == strlcpy(mem, dst, src, size)
            cat == strlcat(mem, dst, src, size)
        IN  room \cap (src .. end) = {} =>
                /\ cpy.ret = end - src
                /\ \A i \in Ptr \ room : cpy.mem[i] = mem[i]
                /\ size > 0 => Str(cpy.mem, dst) = SubSeq(Str(mem, src), 1, Min({size - 1, end - src}))
                /\ IsString(dst) =>
                      LET all == Str(mem, dst) \o Str(mem, src)
                      IN  /\ cat.ret = Len(all)
                          /\ \A i \in Ptr \ room : cat.mem[i] = mem[i]
                          /\ IF \E q \in room : mem[q] = 0
                             THEN Str(cat.mem, dst) = SubSeq(all, 1, Min({size - 1, Len(all)}))
                             ELSE cat.mem = mem

\* strtok_r() in a loop yields every longest piece without delimiters once, in
\* order, and changes nothing but delimiters, to null bytes (string.c:185-254).
TokensExact ==
    \A p \in {q \in Ptr : IsString(q)} :
        LET s == Str(mem, p)
            IsSep(i) == i = 0 \/ i = Len(s) + 1 \/ s[i] \in Separator
            starts == {i \in DOMAIN s : ~IsSep(i) /\ IsSep(i - 1)}
            r == Tokenize(mem, p, NullPtr, <<>>)
        IN  /\ r.tokens = SetToSortSeq({p - 1 + i : i \in starts}, <)
            /\ \A i \in DOMAIN r.tokens :
                  \E n \in DOMAIN s : /\ Str(r.mem, r.tokens[i]) = SubSeq(mem, r.tokens[i], r.tokens[i] + n - 1)
                                      /\ IsSep(r.tokens[i] - p + 1 + n)
            /\ \A i \in Ptr : r.mem[i] # mem[i] => mem[i] \in Separator /\ r.mem[i] = 0

\* hex_dump() shows every byte once, in the column and on the line of its
\* offset, and nothing else (stdio.c:547-594).
DumpExact ==
    \A ofs \in 0 .. PerLine :
        LET lines == hex_dump(ofs, mem)
        IN  /\ \A n \in DOMAIN lines : \A i \in 0 .. PerLine - 1 :
                  LET at == lines[n].ofs + i - ofs + 1
                  IN  lines[n].cells[i] = IF at \in Ptr THEN mem[at] ELSE Blank
            /\ \A at \in Ptr : \E n \in DOMAIN lines : lines[n].ofs = ((ofs + at - 1) \div PerLine) * PerLine
            /\ \A n \in 2 .. Len(lines) : lines[n].ofs = lines[n - 1].ofs + PerLine

\* The functions of string.c move, find, compare, copy and split what their
\* comments say, for every memory and every arguments, blocks that overlap or end
\* at the last byte included.  Two sentences of the comments are not part of
\* this: that memmove() "Returns DST" also if dst is below src, and that strlcat()
\* writes a null byte also if the string at dst is longer than size.
StringsExact == BlocksExact /\ SearchesExact /\ CopiesBounded /\ TokensExact /\ DumpExact

----------------------------------------------------------------------------
(* What two comments say beyond that. *)

\* "Copies SIZE bytes from SRC to DST, which are allowed to overlap.  Returns
\* DST." (string.c:20-21).
MemmoveReturnsDst ==
    \A a, b \in Ptr : \A n \in 0 .. Len(mem) + 1 - Max({a, b}) : memmove(mem, a, b, n).ret = a

\* "A null terminator is always written to DST, unless SIZE is 0."
\* (string.c:320-321).
StrlcatTerminates ==
    \A src, dst \in {p \in Ptr : IsString(p)} : \A size \in 1 .. Len(mem) - dst + 1 :
        LET room == dst .. dst + size - 1
        IN  room \cap (src .. src + Len(Str(mem, src))) = {} =>
                \E q \in room : strlcat(mem, dst, src, size).mem[q] = 0

=============================================================================
