---------------------------- MODULE PallocProofs -----------------------------
(***************************************************************************)
(* Proofs about Palloc: PagesExclusive, ContentKept and FailsOnlyWhenFull  *)
(* hold for every number of threads, all sizes of the pools and all sizes  *)
(* of requests.                                                            *)
(***************************************************************************)
EXTENDS Palloc, TLAPS

-----------------------------------------------------------------------------
(* Groups of pages, and pools.                                             *)

\* A group grows at its end, page by page, and shrinks at its beginning.
LEMMA RunSteps ==
    ASSUME NEW first \in Nat, NEW cnt \in Nat
    PROVE  /\ \A p : p \in Run(first, cnt) <=> p \in Nat /\ first =< p /\ p < first + cnt
           /\ Run(first, 0) = {}
           /\ Run(first, cnt + 1) = Run(first, cnt) \cup {first + cnt}
           /\ \A k \in Nat : k < cnt =>
                 /\ Run(first + k, cnt - k) = Run(first + (k + 1), cnt - (k + 1)) \cup {first + k}
                 /\ first + k \notin Run(first + (k + 1), cnt - (k + 1))
  BY DEF Run

\* The pools do not overlap, and a page of a pool is a page.
LEMMA PoolsApart ==
    ASSUME NEW pool \in Pool, NEW other \in Pool, NEW p, page_from_pool(pool, p), p \in Nat
    PROVE  /\ page_from_pool(other, p) => other = pool
           /\ p \in Page
           /\ Base(pool) \in Nat /\ End(pool) \in Nat
  BY PallocAssumption DEF Pool, Base, End, page_from_pool, Page

LEMMA PoolTypes == \A pool \in Pool : Base(pool) \in Nat /\ End(pool) \in Nat
  BY PallocAssumption DEF Pool, Base, End

-----------------------------------------------------------------------------
(* What a step of one thread leaves to the others.                         *)

\* A thread that does not move owns what it owned, and what it knows stays true
\* unless pages are marked in the pool whose lock it holds.
LEMMA OthersKnow ==
    ASSUME PallocTypeOK, NEW u \in Thread, Knows(u),
           pc'[u] = pc[u], req'[u] = req[u], group'[u] = group[u],
           pc[u] \in {"scan", "flip"} =>
              \A p \in used_map' : p \in used_map \/ ~page_from_pool(req[u].pool, p)
    PROVE  Knows(u)' /\ Owned(u)' = Owned(u) /\ Pages(u)' = Pages(u)
  <1>1. Owned(u)' = Owned(u) /\ Pages(u)' = Pages(u)
    BY Zenon DEF Owned, Pages
  <1>2. /\ req[u].pool \in Pool /\ req[u].cnt \in Nat /\ req[u].idx \in Nat /\ req[u].k \in Nat
        /\ Base(req[u].pool) \in Nat /\ End(req[u].pool) \in Nat
    BY PoolTypes, Zenon DEF PallocTypeOK, Request
  <1>3. CASE pc[u] = "scan"
    <2>1. Run(req[u].idx, req[u].k) \cap used_map' = {}
      BY <1>2, <1>3 DEF Knows, InRange, Run, page_from_pool
    <2>2. ASSUME NEW i \in req[u].idx .. End(req[u].pool) - req[u].cnt,
                 Run(i, req[u].cnt) \cap used_map = {}
          PROVE  Run(i, req[u].cnt) \cap used_map' = {}
      BY <1>2, <1>3, <2>2 DEF Knows, Run, page_from_pool
    <2>3. QED
      BY <1>1, <1>3, <2>1, <2>2, Zenon DEF Knows, InRange
  <1>4. CASE pc[u] = "flip"
    <2>1. Run(req[u].idx + req[u].k, req[u].cnt - req[u].k) \cap used_map' = {}
      BY <1>2, <1>4 DEF Knows, InPool, Run, page_from_pool
    <2>2. QED
      BY <1>1, <1>4, <2>1, Zenon DEF Knows, InRange
  <1>5. CASE pc[u] \notin {"scan", "flip"}
    BY <1>1, <1>5, Zenon DEF Knows, InRange
  <1>6. QED
    BY <1>1, <1>3, <1>4, <1>5, Zenon

\* Only t moves.
OnlyMoves(t) ==
    \A u \in Thread \ {t} : pc'[u] = pc[u] /\ req'[u] = req[u] /\ group'[u] = group[u]

\* Pages are marked or cleared by their owner, and are marked only with the
\* lock; contents are changed by the thread that has the pages.
LEMMA OwnStep ==
    ASSUME PallocInv, NEW t \in Thread, OnlyMoves(t),
           PallocTypeOK', ScansWithLock', Knows(t)',
           used_map' = (used_map \ Owned(t)) \cup Owned(t)',
           Owned(t)' \cap (used_map \ Owned(t)) = {},
           \A p \in used_map' : p \in used_map \/
              (page_from_pool(req[t].pool, p) /\ lock[req[t].pool] = t /\ p \in Nat),
           content' = content \/ (pc[t] \in {"idle", "zero"} /\ \E v : Fill(t, v)),
           group'[t].data # "any" => \A p \in Pages(t)' : content'[p] = group'[t].data,
           pc'[t] = "failed" => ~req'[t].fit
    PROVE  PallocInv'
  <1> USE DEF PallocInv, OnlyMoves
  <1>1. ASSUME NEW u \in Thread \ {t}
        PROVE  Knows(u)' /\ Owned(u)' = Owned(u) /\ Pages(u)' = Pages(u)
    <2>1. ASSUME pc[u] \in {"scan", "flip"}, NEW p \in used_map', p \notin used_map
          PROVE  ~page_from_pool(req[u].pool, p)
      <3>1. req[u].pool \in Pool /\ req[t].pool \in Pool
        BY Zenon DEF PallocTypeOK, Request
      <3>2. req[u].pool # req[t].pool
        BY <2>1, <3>1 DEF ScansWithLock
      <3>3. QED
        BY <2>1, <3>1, <3>2, PoolsApart, Zenon
    <2>2. QED
      BY <2>1, OthersKnow, Zenon
  <1>2. \A u \in Thread : Knows(u)'
    BY <1>1, Zenon
  <1>3. PagesExclusive'
    <2>1. \A u, v \in Thread : u # v => Owned(u)' \cap Owned(v)' = {}
      <3>1. \A u \in Thread \ {t} : Owned(u)' \subseteq used_map \ Owned(t)
        BY <1>1 DEF PagesExclusive
      <3>2. \A u, v \in Thread \ {t} : u # v => Owned(u)' \cap Owned(v)' = {}
        BY <1>1 DEF PagesExclusive
      <3>3. QED
        BY <3>1, <3>2, Zenon
    <2>2. used_map' = UNION {Owned(u)' : u \in Thread}
      <3>1. used_map \ Owned(t) = UNION {Owned(u) : u \in Thread \ {t}}
        BY DEF PagesExclusive
      <3>2. UNION {Owned(u) : u \in Thread \ {t}} = UNION {Owned(u)' : u \in Thread \ {t}}
        BY <1>1
      <3>3. QED
        BY <3>1, <3>2
    <2>3. ASSUME NEW u \in Thread
          PROVE  \E pool \in Pool : \A p \in Pages(u)' : page_from_pool(pool, p)
      <3>1. group'[u].first \in Nat /\ group'[u].cnt \in Nat
        BY Zenon DEF PallocTypeOK, Group
      <3>2. CASE group'[u] = NoGroup
        <4>1. Pages(u)' = {}
          BY <3>2 DEF Pages, Run, NoGroup
        <4>2. QED
          BY <4>1, Zenon DEF Pool
      <3>3. CASE group'[u] # NoGroup
        <4>1. PICK pool \in Pool : InPool(pool, group'[u].first, group'[u].cnt)
          BY <1>2, <3>3, Zenon DEF Knows
        <4>2. \A p \in Pages(u)' : page_from_pool(pool, p)
          BY <3>1, <4>1, PoolTypes DEF Pages, Run, InPool, page_from_pool
        <4>3. QED
          BY <4>2, Zenon
      <3>4. QED
        BY <3>2, <3>3, Zenon
    <2>4. QED
      BY <2>1, <2>2, <2>3, Zenon DEF PagesExclusive, page_from_pool
  <1>4. ContentKept'
    <2> SUFFICES ASSUME NEW u \in Thread, group'[u].data # "any", NEW p \in Pages(u)'
                 PROVE  content'[p] = group'[u].data
      BY Zenon DEF ContentKept
    <2>1. CASE u = t
      BY <2>1, Zenon
    <2>2. CASE u # t
      <3>1. p \in Pages(u) /\ group[u].data # "any" /\ content[p] = group[u].data
        BY <1>1, <2>2, Zenon DEF ContentKept
      <3>2. CASE content' = content
        BY <2>2, <3>1, <3>2, Zenon
      <3>3. CASE pc[t] \in {"idle", "zero"} /\ \E v : Fill(t, v)
        <4>1. Owned(u) = Pages(u) /\ Owned(t) = Pages(t)
          BY <3>1, <3>3, Zenon DEF Knows, Owned
        <4>2. p \notin Pages(t)
          BY <2>2, <3>1, <4>1 DEF PagesExclusive
        <4>3. p \in Page
          <5>1. PICK pool \in Pool : page_from_pool(pool, p)
            BY <3>1, Zenon DEF PagesExclusive
          <5>2. p \in Nat
            BY <3>1 DEF Pages, Run, PallocTypeOK, Group
          <5>3. QED
            BY <5>1, <5>2, PoolsApart, Zenon
        <4>4. content'[p] = content[p]
          BY <3>3, <4>2, <4>3, Zenon DEF Fill
        <4>5. QED
          BY <2>2, <3>1, <4>4, Zenon
      <3>4. QED
        BY <3>2, <3>3, Zenon
    <2>3. QED
      BY <2>1, <2>2, Zenon
  <1>5. FailsOnlyWhenFull'
    BY Zenon DEF FailsOnlyWhenFull
  <1>6. QED
    BY <1>2, <1>3, <1>4, <1>5, Zenon

\* The loop variables of bitmap_scan() and bitmap_set_multiple() stay numbers.
LEMMA RequestStep ==
    ASSUME NEW r \in Request
    PROVE  /\ [r EXCEPT !.k = r.k + 1] \in Request
           /\ [r EXCEPT !.idx = r.idx + 1, !.k = 0] \in Request
  <1>1. r.k + 1 \in Nat /\ r.idx + 1 \in Nat
    BY DEF Request
  <1>2. \A n \in Nat : [r EXCEPT !.k = n] \in Request
    BY Zenon DEF Request
  <1>3. \A m, n \in Nat : [r EXCEPT !.idx = m, !.k = n] \in Request
    BY Zenon DEF Request
  <1>4. QED
    BY <1>1, <1>2, <1>3, Zenon

\* The steps that mark and clear nothing.

LEMMA SameOwner ==
    ASSUME PallocInv, NEW t \in Thread, OnlyMoves(t),
           PallocTypeOK', ScansWithLock', Knows(t)', used_map' = used_map, Owned(t)' = Owned(t),
           \/ content' = content /\ group'[t].data = group[t].data /\ Pages(t)' = Pages(t)
           \/ content' = content /\ group'[t].data = "any"
           \/ /\ pc[t] \in {"idle", "zero"} /\ \E v : Fill(t, v)
              /\ group'[t].data # "any" => \A p \in Pages(t)' : content'[p] = group'[t].data,
           pc'[t] = "failed" => ~req'[t].fit
    PROVE  PallocInv'
  <1>1. Owned(t) \subseteq used_map
    BY Zenon DEF PallocInv, PagesExclusive
  <1>2. group'[t].data # "any" => \A p \in Pages(t)' : content'[p] = group'[t].data
    BY Zenon DEF PallocInv, ContentKept
  <1>3. QED
    BY <1>1, <1>2, OwnStep, Zenon

LEMMA StepInductive == ASSUME PallocInv, NEW t \in Thread, Step(t) PROVE PallocInv'
  <1> USE PallocAssumption DEF PallocInv
  <1>0. /\ req[t] \in Request /\ group[t] \in Group
        /\ req \in [Thread -> Request] /\ group \in [Thread -> Group]
        /\ NoReq \in Request /\ NoGroup \in Group
        /\ Base(req[t].pool) \in Nat /\ End(req[t].pool) \in Nat
        /\ Knows(t) /\ t # NoHolder
    BY PoolTypes, Zenon DEF PallocTypeOK, Request, Group, NoReq, NoGroup, Pool

  <1>1. ASSUME NEW pool \in Pool, NEW zeroed \in BOOLEAN, NEW cnt \in PageCnt,
               palloc_get_multiple(t, pool, zeroed, cnt)
        PROVE  PallocInv'
    <2>1. OnlyMoves(t)
      BY <1>1, Zenon DEF palloc_get_multiple, OnlyMoves, Goto, PallocTypeOK
    <2>2. PallocTypeOK'
      <3>1. req' \in [Thread -> Request]
        BY <1>1, <1>0, Zenon DEF palloc_get_multiple, Request, NoReq
      <3>2. QED
        BY <1>1, <1>0, <3>1, Zenon DEF palloc_get_multiple, PallocTypeOK, Goto
    <2>3. ScansWithLock'
      BY <1>1, <1>0 DEF palloc_get_multiple, ScansWithLock, PallocTypeOK, Goto, Request, NoReq
    <2>4. Knows(t)'
      BY <1>1, <1>0 DEF palloc_get_multiple, Knows, PallocTypeOK, Goto, InRange, Request, Group, NoReq, NoGroup
    <2>5. Owned(t)' = Owned(t)
      BY <1>1, <1>0, Zenon DEF palloc_get_multiple, PallocTypeOK, Goto, Owned, Pages
    <2>6. pc'[t] # "failed"
      BY <1>1, <1>0, Zenon DEF palloc_get_multiple, PallocTypeOK, Goto
    <2>7. content' = content /\ group'[t].data = group[t].data /\ Pages(t)' = Pages(t)
      BY <1>1, Zenon DEF palloc_get_multiple, Pages
    <2>8. QED
      BY <1>1, <2>1, <2>2, <2>3, <2>4, <2>5, <2>6, <2>7, SameOwner, Zenon DEF palloc_get_multiple

  <1>2. CASE acquire(t)
    <2>1. OnlyMoves(t)
      BY <1>2, Zenon DEF acquire, OnlyMoves, Goto, PallocTypeOK
    <2>2. PallocTypeOK'
      <3>1. req' \in [Thread -> Request]
        <4>1. Fits(req[t].pool, req[t].cnt) \in BOOLEAN
          BY Zenon DEF Fits
        <4>2. QED
          BY <1>2, <1>0, <4>1, Zenon DEF acquire, Request
      <3>2. QED
        BY <1>2, <1>0, <3>1, Zenon DEF acquire, PallocTypeOK, Goto
    <2>3. ScansWithLock'
      BY <1>2, <1>0 DEF acquire, ScansWithLock, PallocTypeOK, Goto, Request
    <2>4. Knows(t)'
      BY <1>2, <1>0 DEF acquire, Knows, PallocTypeOK, Goto, InRange, Request, Group, Fits, Run
    <2>5. Owned(t)' = Owned(t)
      BY <1>2, <1>0, Zenon DEF acquire, PallocTypeOK, Goto, Request, Group, Owned, Pages
    <2>6. content' = content /\ group'[t].data = group[t].data /\ Pages(t)' = Pages(t)
      BY <1>2, <1>0, Zenon DEF acquire, PallocTypeOK, Pages
    <2>7. pc'[t] # "failed"
      BY <1>2, <1>0, Zenon DEF acquire, PallocTypeOK, Goto, Knows, InRange
    <2>8. QED
      BY <1>2, <2>1, <2>2, <2>3, <2>4, <2>5, <2>6, <2>7, SameOwner, Zenon DEF acquire

  <1>3. CASE bitmap_scan(t)
    <2> DEFINE p == req[t].idx + req[t].k
               passed == [req[t] EXCEPT !.idx = req[t].idx + 1, !.k = 0]
               seen == [req[t] EXCEPT !.k = req[t].k + 1]
    <2>1. OnlyMoves(t)
      BY <1>3, Zenon DEF bitmap_scan, OnlyMoves, PallocTypeOK
    <2>2. /\ pc[t] = "scan" /\ InRange(t) /\ req[t].k < req[t].cnt
          /\ UNCHANGED <<used_map, lock, content, pc, group>>
          /\ p \in used_map => req' = [req EXCEPT ![t] = passed]
          /\ p \notin used_map => req' = [req EXCEPT ![t] = seen]
      BY <1>3, <1>0, Zenon DEF bitmap_scan
    <2>3. passed \in Request /\ seen \in Request
      BY <1>0, RequestStep, Zenon
    <2>4. PallocTypeOK'
      <3>1. req' \in [Thread -> Request]
        BY <1>0, <2>2, <2>3, Zenon
      <3>2. QED
        BY <2>2, <3>1, Zenon DEF PallocTypeOK
    <2>5. ScansWithLock'
      <3>1. passed.pool = req[t].pool /\ seen.pool = req[t].pool
        BY <1>0, Zenon DEF Request
      <3>2. req'[t] \in {passed, seen} /\ \A u \in Thread \ {t} : req'[u] = req[u]
        BY <1>0, <2>2, Zenon
      <3>3. \A u \in Thread : req'[u].pool = req[u].pool
        BY <3>1, <3>2, Zenon
      <3>4. QED
        BY <2>2, <3>3 DEF ScansWithLock
    <2>6. Knows(t)'
      <3>1. CASE p \in used_map
        <4>1. req'[t] = passed
          BY <1>0, <2>2, <3>1, Zenon
        <4>2. ASSUME req[t].fit
              PROVE  \E i \in req[t].idx + 1 .. End(req[t].pool) - req[t].cnt :
                        Run(i, req[t].cnt) \cap used_map = {}
          <5>1. PICK i \in req[t].idx .. End(req[t].pool) - req[t].cnt :
                   Run(i, req[t].cnt) \cap used_map = {}
            BY <1>0, <2>2, <4>2, Zenon DEF Knows
          <5>2. i # req[t].idx
            BY <1>0, <2>2, <3>1, <5>1 DEF Run, Request
          <5>3. i \in req[t].idx + 1 .. End(req[t].pool) - req[t].cnt
            BY <1>0, <5>1, <5>2 DEF Request
          <5>4. QED
            BY <5>1, <5>3, Zenon
        <4>3. Run(req[t].idx + 1, 0) = {}
          BY <1>0 DEF Run, Request
        <4>4. QED
          BY <1>0, <2>2, <4>1, <4>2, <4>3 DEF Knows, InRange, Request
      <3>2. CASE p \notin used_map
        <4>1. req'[t] = seen
          BY <1>0, <2>2, <3>2, Zenon
        <4>2. Run(req[t].idx, req[t].k + 1) \cap used_map = {}
          BY <1>0, <2>2, <3>2, RunSteps DEF Knows, Request
        <4>3. QED
          BY <1>0, <2>2, <4>1, <4>2 DEF Knows, InRange, Request
      <3>3. QED
        BY <3>1, <3>2, Zenon
    <2>7. Owned(t)' = Owned(t) /\ Pages(t)' = Pages(t)
      BY <2>2, Zenon DEF Owned, Pages
    <2>8. QED
      BY <2>1, <2>2, <2>4, <2>5, <2>6, <2>7, SameOwner, Zenon

  <1>4. CASE scan_found(t)
    <2>1. OnlyMoves(t)
      BY <1>4, Zenon DEF scan_found, OnlyMoves, Goto, PallocTypeOK
    <2>2. PallocTypeOK'
      <3>1. req' \in [Thread -> Request]
        BY <1>4, <1>0, Zenon DEF scan_found, Request
      <3>2. QED
        BY <1>4, <1>0, <3>1, Zenon DEF scan_found, PallocTypeOK, Goto
    <2>3. ScansWithLock'
      BY <1>4, <1>0 DEF scan_found, ScansWithLock, PallocTypeOK, Goto, Request
    <2>4. Knows(t)'
      BY <1>4, <1>0 DEF scan_found, Knows, PallocTypeOK, Goto, InRange, Request, Group, InPool, Run
    <2>5. Owned(t)' = Owned(t)
      BY <1>4, <1>0 DEF scan_found, PallocTypeOK, Goto, Request, Group, Owned, Pages, Run, Knows, NoGroup
    <2>6. content' = content /\ group'[t].data = group[t].data /\ Pages(t)' = Pages(t)
      BY <1>4, <1>0, Zenon DEF scan_found, PallocTypeOK, Pages
    <2>7. pc'[t] # "failed"
      BY <1>4, <1>0, Zenon DEF scan_found, PallocTypeOK, Goto, Knows, InRange
    <2>8. QED
      BY <1>4, <2>1, <2>2, <2>3, <2>4, <2>5, <2>6, <2>7, SameOwner, Zenon DEF scan_found

  <1>5. CASE scan_error(t)
    <2>1. OnlyMoves(t)
      BY <1>5, Zenon DEF scan_error, OnlyMoves, Goto, PallocTypeOK
    <2>2. PallocTypeOK'
      <3>1. req' \in [Thread -> Request]
        BY <1>5, <1>0, Zenon DEF scan_error, Request
      <3>2. QED
        BY <1>5, <1>0, <3>1, Zenon DEF scan_error, PallocTypeOK, Goto, release
    <2>3. ScansWithLock'
      BY <1>5, <1>0 DEF scan_error, ScansWithLock, PallocTypeOK, Goto, Request, release
    <2>4. Knows(t)'
      BY <1>5, <1>0, Zenon DEF scan_error, Knows, PallocTypeOK, Goto, InRange, Request, Group
    <2>5. Owned(t)' = Owned(t)
      BY <1>5, <1>0, Zenon DEF scan_error, PallocTypeOK, Goto, Request, Group, Owned, Pages
    <2>6. content' = content /\ group'[t].data = group[t].data /\ Pages(t)' = Pages(t)
      BY <1>5, <1>0, Zenon DEF scan_error, PallocTypeOK, Pages
    <2>7. pc'[t] = "failed" => ~req'[t].fit
      BY <1>5, <1>0 DEF scan_error, PallocTypeOK, Goto, Knows, InRange, Request
    <2>8. QED
      BY <1>5, <2>1, <2>2, <2>3, <2>4, <2>5, <2>6, <2>7, SameOwner, Zenon DEF scan_error

  <1>6. CASE return_null(t)
    <2>1. OnlyMoves(t)
      BY <1>6, Zenon DEF return_null, OnlyMoves, Goto, PallocTypeOK
    <2>2. PallocTypeOK'
      <3>1. req' \in [Thread -> Request]
        BY <1>6, <1>0, Zenon DEF return_null, Request
      <3>2. QED
        BY <1>6, <1>0, <3>1, Zenon DEF return_null, PallocTypeOK, Goto
    <2>3. ScansWithLock'
      BY <1>6, <1>0 DEF return_null, ScansWithLock, PallocTypeOK, Goto, Request, NoReq
    <2>4. Knows(t)'
      BY <1>6, <1>0, Zenon DEF return_null, Knows, PallocTypeOK, Goto, InRange, Request, Group, NoGroup
    <2>5. Owned(t)' = Owned(t)
      BY <1>6, <1>0, Zenon DEF return_null, PallocTypeOK, Goto, Request, Group, Owned, Pages
    <2>6. content' = content /\ group'[t].data = group[t].data /\ Pages(t)' = Pages(t)
      BY <1>6, <1>0, Zenon DEF return_null, PallocTypeOK, Pages
    <2>7. pc'[t] # "failed"
      BY <1>6, <1>0, Zenon DEF return_null, PallocTypeOK, Goto, Knows, InRange
    <2>8. QED
      BY <1>6, <2>1, <2>2, <2>3, <2>4, <2>5, <2>6, <2>7, SameOwner, Zenon DEF return_null
  <1>7. CASE bitmap_mark(t)
    <2> DEFINE p == req[t].idx + req[t].k
               marked == [req[t] EXCEPT !.k = req[t].k + 1]
    <2>1. OnlyMoves(t)
      BY <1>7, Zenon DEF bitmap_mark, OnlyMoves, PallocTypeOK
    <2>2. /\ pc[t] = "flip" /\ req[t].k < req[t].cnt /\ used_map' = used_map \cup {p}
          /\ UNCHANGED <<lock, content, pc, group>>
          /\ req' = [req EXCEPT ![t] = marked]
      BY <1>7, <1>0, Zenon DEF bitmap_mark
    <2>3. marked \in Request /\ req'[t] = marked /\ marked.pool = req[t].pool
      BY <1>0, <2>2, RequestStep, Zenon DEF Request
    <2>4. PallocTypeOK'
      <3>1. req' \in [Thread -> Request]
        BY <1>0, <2>2, <2>3, Zenon
      <3>2. QED
        BY <2>2, <3>1, Zenon DEF PallocTypeOK
    <2>5. ScansWithLock'
      BY <2>1, <2>2, <2>3 DEF ScansWithLock, OnlyMoves
    <2>6. Run(p, req[t].cnt - req[t].k) = Run(req[t].idx + (req[t].k + 1), req[t].cnt - (req[t].k + 1)) \cup {p}
      BY <1>0, <2>2, RunSteps DEF Request
    <2>7. Knows(t)'
      <3>1. Run(req[t].idx + (req[t].k + 1), req[t].cnt - (req[t].k + 1)) \cap used_map' = {}
        BY <1>0, <2>2, <2>6 DEF Knows, Run, Request
      <3>2. QED
        BY <1>0, <2>2, <2>3, <3>1 DEF Knows, InRange, InPool, Request
    <2>8. Owned(t) = Run(req[t].idx, req[t].k) /\ Owned(t)' = Run(req[t].idx, req[t].k) \cup {p}
      BY <1>0, <2>2, <2>3, RunSteps DEF Owned, Request
    <2>9. p \notin used_map
      BY <1>0, <2>2, <2>6, Zenon DEF Knows
    <2>10. page_from_pool(req[t].pool, p) /\ lock[req[t].pool] = t /\ p \in Nat
      BY <1>0, <2>2 DEF Knows, InPool, page_from_pool, ScansWithLock, Request
    <2>11. Owned(t) \subseteq used_map
      BY Zenon DEF PagesExclusive
    <2>12. Pages(t)' = Pages(t) /\ group'[t] = group[t]
      BY <2>2, Zenon DEF Pages
    <2>13. QED
      BY <2>1, <2>2, <2>4, <2>5, <2>7, <2>8, <2>9, <2>10, <2>11, <2>12, OwnStep DEF ContentKept

  <1>8. CASE flip_done(t)
    <2> DEFINE g == [first |-> req[t].idx, cnt |-> req[t].cnt, data |-> "any"]
    <2>1. OnlyMoves(t)
      BY <1>8, Zenon DEF flip_done, OnlyMoves, Goto, PallocTypeOK
    <2>2. /\ pc[t] = "flip" /\ req[t].k = req[t].cnt /\ lock' = [lock EXCEPT ![req[t].pool] = NoHolder]
          /\ group' = [group EXCEPT ![t] = g]
          /\ \/ pc' = [pc EXCEPT ![t] = "zero"] /\ req' = req
             \/ pc' = [pc EXCEPT ![t] = "idle"] /\ req' = [req EXCEPT ![t] = NoReq]
          /\ UNCHANGED <<used_map, content>>
      BY <1>8, Zenon DEF flip_done, Goto, release
    <2>3. /\ g \in Group /\ g # NoGroup /\ g.data = "any" /\ g.first = req[t].idx /\ g.cnt = req[t].cnt
          /\ group'[t] = g
      <3>2. req[t].idx \in Nat /\ req[t].cnt \in Nat /\ req[t].cnt # 0
        BY <1>0, <2>2 DEF Request, Knows
      <3>3. g \in Group /\ g # NoGroup
        BY <3>2, Zenon DEF Group, NoGroup
      <3>4. QED
        BY <1>0, <2>2, <3>3, Zenon
    <2>4. PallocTypeOK'
      <3>1. req' \in [Thread -> Request] /\ group' \in [Thread -> Group]
        BY <1>0, <2>2, <2>3, Zenon
      <3>2. QED
        BY <1>0, <2>2, <3>1, Zenon DEF PallocTypeOK, Request
    <2>5. ScansWithLock'
      BY <1>0, <2>1, <2>2 DEF ScansWithLock, OnlyMoves, PallocTypeOK, Request
    <2>6. Knows(t)'
      <3>1. pc'[t] \in {"zero", "idle"}
        BY <2>2, Zenon DEF PallocTypeOK
      <3>2. req[t].cnt > 0 /\ InPool(req[t].pool, req[t].idx, req[t].cnt)
        BY <1>0, <2>2, Zenon DEF Knows
      <3>3. req[t].pool \in Pool
        BY <1>0, Zenon DEF Request
      <3>4. group'[t] # NoGroup /\ group'[t].cnt = req[t].cnt /\ group'[t].first = req[t].idx
            /\ group'[t].data = "any"
        BY <2>3, Zenon
      <3> HIDE DEF g
      <3>5. QED
        BY <3>1, <3>2, <3>3, <3>4, Zenon DEF Knows
    <2>7. Owned(t)' = Owned(t)
      BY <1>0, <2>2, <2>3, Zenon DEF Owned, Pages, PallocTypeOK
    <2>8. pc'[t] # "failed"
      BY <2>2, Zenon DEF PallocTypeOK
    <2>9. QED
      BY <2>1, <2>2, <2>3, <2>4, <2>5, <2>6, <2>7, <2>8, SameOwner, Zenon

  <1>9. ASSUME zero(t) \/ use(t), NEW data \in Thread \cup {"zeros"}, Fill(t, data),
               group' = [group EXCEPT ![t].data = data], req' \in {req, [req EXCEPT ![t] = NoReq]}
        PROVE  PallocInv'
    <2>1. /\ pc[t] \in {"idle", "zero"} /\ pc' = [pc EXCEPT ![t] = "idle"]
          /\ UNCHANGED <<used_map, lock>>
      BY <1>9, Zenon DEF zero, use, Goto, PallocTypeOK
    <2>2. OnlyMoves(t)
      BY <1>0, <1>9, <2>1, Zenon DEF OnlyMoves, PallocTypeOK
    <2>3. /\ group'[t].data = data /\ group'[t].first = group[t].first /\ group'[t].cnt = group[t].cnt
          /\ group' \in [Thread -> Group]
          /\ group[t] # NoGroup
      <3>1. group'[t] = [group[t] EXCEPT !.data = data]
        BY <1>0, <1>9, Zenon
      <3>2. group[t] # NoGroup
        BY <1>0, <1>9, Zenon DEF zero, use, Knows
      <3>3. QED
        BY <1>0, <1>9, <3>1, <3>2, Zenon DEF Group
    <2>4. Pages(t)' = Pages(t) /\ Owned(t)' = Owned(t)
      BY <2>1, <2>3, Zenon DEF Pages, Owned, PallocTypeOK
    <2>5. PallocTypeOK'
      <3>1. req' \in [Thread -> Request]
        BY <1>0, <1>9, Zenon
      <3>2. content' \in [Page -> Thread \cup {"any", "zeros", "cc"}]
        BY <1>9, Zenon DEF Fill, PallocTypeOK
      <3>3. QED
        BY <2>1, <2>3, <3>1, <3>2, Zenon DEF PallocTypeOK
    <2>6. ScansWithLock'
      BY <2>1, <2>2 DEF ScansWithLock, OnlyMoves, PallocTypeOK
    <2>7. Knows(t)'
      BY <1>0, <2>1, <2>3, Zenon DEF Knows, PallocTypeOK, InRange
    <2>8. \A p \in Pages(t) : content'[p] = data
      <3>1. \A p \in Pages(t) : p \in Page
        <4> TAKE p \in Pages(t)
        <4>1. PICK pool \in Pool : page_from_pool(pool, p)
          BY Zenon DEF PagesExclusive
        <4>2. p \in Nat
          BY <1>0 DEF Pages, Run, Group
        <4>3. QED
          BY <4>1, <4>2, PoolsApart, Zenon
      <3>2. QED
        BY <1>9, <3>1, Zenon DEF Fill
    <2>9. pc'[t] # "failed"
      BY <2>1, Zenon DEF PallocTypeOK
    <2>10. QED
      BY <1>9, <2>1, <2>2, <2>3, <2>4, <2>5, <2>6, <2>7, <2>8, <2>9, SameOwner, Zenon

  <1>10. CASE palloc_free_multiple(t)
    <2> DEFINE pl == CHOOSE pool \in Pool : page_from_pool(pool, group[t].first)
               r == [NoReq EXCEPT !.cnt = group[t].cnt, !.idx = group[t].first, !.pool = pl]
    <2>1. /\ pc[t] = "idle" /\ group[t] # NoGroup /\ Fill(t, "cc")
          /\ req' = [req EXCEPT ![t] = r]
          /\ group' = [group EXCEPT ![t].data = "any"]
          /\ pc' = [pc EXCEPT ![t] = "free"]
          /\ UNCHANGED <<used_map, lock>>
      BY <1>10, Zenon DEF palloc_free_multiple, Goto
    <2>2. pl \in Pool
      BY <1>0, <2>1, PoolTypes DEF Knows, InPool, page_from_pool, Group
    <2> HIDE DEF pl
    <2>3. r \in Request /\ r.idx = group[t].first /\ r.cnt = group[t].cnt /\ r.k = 0
      BY <1>0, <2>2, Zenon DEF NoReq, Request, Group
    <2> HIDE DEF r
    <2>4. OnlyMoves(t)
      BY <1>0, <2>1, Zenon DEF OnlyMoves, PallocTypeOK
    <2>5. /\ group'[t].data = "any" /\ group'[t].first = group[t].first /\ group'[t].cnt = group[t].cnt
          /\ group' \in [Thread -> Group] /\ req' \in [Thread -> Request] /\ req'[t] = r
      <3>1. group'[t] = [group[t] EXCEPT !.data = "any"]
        BY <1>0, <2>1, Zenon
      <3>2. QED
        BY <1>0, <2>1, <2>3, <3>1, Zenon DEF Group
    <2>6. Owned(t)' = Owned(t)
      <3>1. Owned(t)' = Run(group[t].first + 0, group[t].cnt - 0)
        BY <2>1, <2>3, <2>5, Zenon DEF Owned, PallocTypeOK
      <3>2. Owned(t) = Run(group[t].first, group[t].cnt)
        BY <2>1, Zenon DEF Owned, Pages
      <3>3. QED
        BY <1>0, <3>1, <3>2 DEF Group
    <2>7. PallocTypeOK'
      <3>1. content' \in [Page -> Thread \cup {"any", "zeros", "cc"}]
        BY <2>1, Zenon DEF Fill, PallocTypeOK
      <3>2. QED
        BY <2>1, <2>5, <3>1, Zenon DEF PallocTypeOK
    <2>8. ScansWithLock'
      BY <2>1, <2>4 DEF ScansWithLock, OnlyMoves, PallocTypeOK
    <2>9. Knows(t)'
      BY <1>0, <2>1, <2>3, <2>5 DEF Knows, PallocTypeOK, InRange, Group
    <2>10. pc'[t] # "failed"
      BY <2>1, Zenon DEF PallocTypeOK
    <2>11. QED
      BY <2>1, <2>4, <2>5, <2>6, <2>7, <2>8, <2>9, <2>10, SameOwner, Zenon

  <1>11. CASE bitmap_reset(t)
    <2> DEFINE p == req[t].idx + req[t].k
               cleared == [req[t] EXCEPT !.k = req[t].k + 1]
    <2>1. OnlyMoves(t)
      BY <1>11, Zenon DEF bitmap_reset, OnlyMoves, PallocTypeOK
    <2>2. /\ pc[t] = "free" /\ req[t].k < req[t].cnt /\ used_map' = used_map \ {p}
          /\ UNCHANGED <<lock, content, pc, group>>
          /\ req' = [req EXCEPT ![t] = cleared]
      BY <1>11, <1>0, Zenon DEF bitmap_reset
    <2>3. cleared \in Request /\ req'[t] = cleared /\ cleared.pool = req[t].pool
      BY <1>0, <2>2, RequestStep, Zenon DEF Request
    <2>4. PallocTypeOK'
      <3>1. req' \in [Thread -> Request]
        BY <1>0, <2>2, <2>3, Zenon
      <3>2. QED
        BY <2>2, <3>1, Zenon DEF PallocTypeOK
    <2>5. ScansWithLock'
      BY <2>1, <2>2, <2>3 DEF ScansWithLock, OnlyMoves
    <2>6. Knows(t)'
      BY <1>0, <2>2, <2>3 DEF Knows, InRange, Request
    <2>7. Owned(t) = Owned(t)' \cup {p} /\ p \notin Owned(t)'
      <3>1. /\ Owned(t) = Run(req[t].idx + req[t].k, req[t].cnt - req[t].k)
            /\ Owned(t)' = Run(req[t].idx + (req[t].k + 1), req[t].cnt - (req[t].k + 1))
        BY <1>0, <2>2, <2>3, Zenon DEF Owned, Request
      <3>2. req[t].idx \in Nat /\ req[t].cnt \in Nat /\ req[t].k \in Nat
        BY <1>0, Zenon DEF Request
      <3>3. Owned(t) = Owned(t)' \cup {p}
        BY <2>2, <3>1, <3>2, RunSteps
      <3>4. p \notin Owned(t)'
        BY <2>2, <3>1, <3>2, RunSteps
      <3>5. QED
        BY <3>3, <3>4, Zenon
    <2>8. Owned(t) \subseteq used_map
      BY Zenon DEF PagesExclusive
    <2>9. Pages(t)' = Pages(t) /\ group'[t] = group[t]
      BY <2>2, Zenon DEF Pages
    <2>10. QED
      BY <2>1, <2>2, <2>4, <2>5, <2>6, <2>7, <2>8, <2>9, OwnStep, Zenon DEF ContentKept

  <1>12. CASE free_done(t)
    <2>1. /\ pc[t] = "free" /\ req[t].k = req[t].cnt
          /\ group' = [group EXCEPT ![t] = NoGroup] /\ req' = [req EXCEPT ![t] = NoReq]
          /\ pc' = [pc EXCEPT ![t] = "idle"] /\ UNCHANGED <<used_map, lock, content>>
      BY <1>12, Zenon DEF free_done, Goto
    <2>2. OnlyMoves(t)
      BY <1>0, <2>1, Zenon DEF OnlyMoves, PallocTypeOK
    <2>3. group'[t] = NoGroup /\ NoGroup.data = "any"
      BY <1>0, <2>1, Zenon DEF NoGroup
    <2>4. PallocTypeOK'
      BY <1>0, <2>1, Zenon DEF PallocTypeOK
    <2>5. ScansWithLock'
      BY <2>1, <2>2 DEF ScansWithLock, OnlyMoves, PallocTypeOK
    <2>6. Knows(t)'
      BY <2>1, <2>3, Zenon DEF Knows, PallocTypeOK, InRange
    <2>7. Owned(t)' = Owned(t)
      <3>1. Owned(t)' = {}
        BY <2>1, <2>3 DEF Owned, Pages, Run, NoGroup, PallocTypeOK
      <3>2. Owned(t) = {}
        BY <1>0, <2>1 DEF Owned, Run, Request
      <3>3. QED
        BY <3>1, <3>2, Zenon
    <2>8. pc'[t] # "failed"
      BY <2>1, Zenon DEF PallocTypeOK
    <2>9. QED
      BY <2>1, <2>2, <2>3, <2>4, <2>5, <2>6, <2>7, <2>8, SameOwner, Zenon

  <1>13. zero(t) => PallocInv'
    BY <1>9, Zenon DEF zero
  <1>14. use(t) => PallocInv'
    BY <1>9, Zenon DEF use
  <1>20. QED
    BY <1>1, <1>2, <1>3, <1>4, <1>5, <1>6, <1>7, <1>8, <1>10, <1>11, <1>12, <1>13, <1>14, Zenon DEF Step

\* The invariant holds whatever the sizes of the pools and of the requests.
THEOREM PallocInvariant == PallocSpec => []PallocInv
  <1>1. PallocInit => PallocInv
    <2> SUFFICES ASSUME PallocInit PROVE PallocInv
      OBVIOUS
    <2> USE PallocAssumption DEF PallocInit
    <2>1. NoReq \in Request /\ NoGroup \in Group /\ NoGroup.data = "any"
      BY Zenon DEF NoReq, NoGroup, Request, Group, Pool
    <2>2. PallocTypeOK
      BY <2>1, Zenon DEF PallocTypeOK
    <2>3. ScansWithLock /\ FailsOnlyWhenFull
      BY Zenon DEF ScansWithLock, FailsOnlyWhenFull
    <2>4. \A t \in Thread : Knows(t)
      BY <2>1, Zenon DEF Knows
    <2>5. ContentKept
      BY <2>1, Zenon DEF ContentKept
    <2>6. \A t \in Thread : Owned(t) = {} /\ Pages(t) = {}
      BY DEF Owned, Pages, Run, NoGroup
    <2>7. PagesExclusive
      BY <2>6, Zenon DEF PagesExclusive, Pool
    <2>8. QED
      BY <2>2, <2>3, <2>4, <2>5, <2>7, Zenon DEF PallocInv
  <1>2. PallocInv /\ [PallocNext]_vars => PallocInv'
    <2>1. PallocInv /\ UNCHANGED vars => PallocInv'
      <3> SUFFICES ASSUME PallocInv, UNCHANGED vars PROVE PallocInv'
        OBVIOUS
      <3> USE DEF vars, PallocInv
      <3>1. PallocTypeOK' /\ ScansWithLock' /\ FailsOnlyWhenFull'
        BY Zenon DEF PallocTypeOK, ScansWithLock, FailsOnlyWhenFull
      <3>2. \A t \in Thread : Knows(t)'
        BY Zenon DEF Knows, InRange
      <3>3. \A t \in Thread : Owned(t)' = Owned(t) /\ Pages(t)' = Pages(t)
        BY Zenon DEF Owned, Pages
      <3>4. PagesExclusive'
        BY <3>3 DEF PagesExclusive
      <3>5. ContentKept'
        BY <3>3, Zenon DEF ContentKept
      <3>6. QED
        BY <3>1, <3>2, <3>4, <3>5, Zenon
    <2>2. QED
      BY <2>1, StepInductive, Zenon DEF PallocNext
  <1>3. QED
    BY <1>1, <1>2, PTL DEF PallocSpec

\* palloc_get_multiple() never gives a page to two threads, and the bitmap is
\* exact, although palloc_free_multiple() clears its bits without the lock.
THEOREM PallocPagesExclusive == PallocSpec => []PagesExclusive
  BY PallocInvariant, PTL DEF PallocInv

\* No memset() of the allocator reaches pages that another thread has.
THEOREM PallocContentKept == PallocSpec => []ContentKept
  BY PallocInvariant, PTL DEF PallocInv

\* A null pointer means that there was no group of the size when the lock was
\* taken, however many pages are freed while bitmap_scan() runs.
THEOREM PallocFailsOnlyWhenFull == PallocSpec => []FailsOnlyWhenFull
  BY PallocInvariant, PTL DEF PallocInv

=============================================================================
