------------------------------- MODULE Palloc -------------------------------
(***************************************************************************)
(* The page allocator (threads/palloc.c) on its bitmaps                    *)
(* (lib/kernel/bitmap.c): palloc_get_multiple() scans and flips under the  *)
(* pool's lock, palloc_free_multiple() clears bits without it.  A step     *)
(* tests, sets or clears one bit, which is what the bitmap does atomically.*)
(*                                                                         *)
(* A thread holds at most one group of pages at a time; the pools' locks   *)
(* are those of module Synch seen as atomic mutual exclusion.              *)
(***************************************************************************)
EXTENDS Integers, FiniteSets

CONSTANTS
    Thread, NoHolder,
    KernelPages, UserPages,  \* sizes of kernel_pool and user_pool
    PageCnt                  \* values of page_cnt

ASSUME PallocAssumption ==
    /\ NoHolder \notin Thread
    /\ KernelPages \in Nat /\ UserPages \in Nat
    /\ PageCnt \subseteq Nat \ {0}

Pool == {"kernel_pool", "user_pool"}
Base(pool) == IF pool = "kernel_pool" THEN 0 ELSE KernelPages
End(pool) == Base(pool) + (IF pool = "kernel_pool" THEN KernelPages ELSE UserPages)
Page == 0 .. KernelPages + UserPages - 1

VARIABLES
    used_map,  \* pages whose bit is set, in both pools
    lock,      \* holder of each pool's lock
    content,   \* what each page contains: "any", "zeros", "cc" or a thread's data
    pc, req,   \* where each thread is, its arguments and loop variables
    group      \* the pages it holds, and what it may expect to find there

vars == <<used_map, lock, content, pc, req, group>>

Run(first, cnt) == first .. first + cnt - 1

NoReq == [pool |-> "kernel_pool", zero |-> FALSE, cnt |-> 0, idx |-> 0, k |-> 0, fit |-> FALSE]
NoGroup == [first |-> 0, cnt |-> 0, data |-> "any"]

Pages(t) == Run(group[t].first, group[t].cnt)

PallocInit ==
    /\ used_map = {}
    /\ lock = [pool \in Pool |-> NoHolder]
    /\ content = [p \in Page |-> "any"]
    /\ pc = [t \in Thread |-> "idle"]
    /\ req = [t \in Thread |-> NoReq]
    /\ group = [t \in Thread |-> NoGroup]

Goto(t, label) == pc' = [pc EXCEPT ![t] = label]

\* Some cnt consecutive pages of the pool are free.
Fits(pool, cnt) ==
    \E i \in Base(pool) .. End(pool) - cnt : Run(i, cnt) \cap used_map = {}

palloc_get_multiple(t, pool, zero, cnt) ==
    /\ pc[t] = "idle" /\ group[t] = NoGroup
    /\ req' = [req EXCEPT ![t] = [NoReq EXCEPT !.pool = pool, !.zero = zero, !.cnt = cnt]]
    /\ Goto(t, "acquire")
    /\ UNCHANGED <<used_map, lock, content, group>>

\* lock_acquire(); fit remembers whether the request could be met then.
acquire_NoLock(t) ==
    /\ pc[t] = "acquire"
    /\ req' = [req EXCEPT ![t].idx = Base(req[t].pool), ![t].k = 0,
                          ![t].fit = Fits(req[t].pool, req[t].cnt)]
    /\ Goto(t, "scan")
    /\ UNCHANGED <<used_map, lock, content, group>>

acquire(t) ==
    /\ pc[t] = "acquire"
    /\ lock[req[t].pool] = NoHolder
    /\ lock' = [lock EXCEPT ![req[t].pool] = t]
    /\ req' = [req EXCEPT ![t].idx = Base(req[t].pool), ![t].k = 0,
                          ![t].fit = Fits(req[t].pool, req[t].cnt)]
    /\ Goto(t, "scan")
    /\ UNCHANGED <<used_map, content, group>>

release(t) == lock' = [lock EXCEPT ![req[t].pool] = NoHolder]

\* bitmap_scan(): the groups that start at idx =< last are tried in turn.
\* Mutant: the last one is not.
InRange_LastExcluded(t) == req[t].idx + req[t].cnt < End(req[t].pool)

InRange(t) == req[t].idx + req[t].cnt =< End(req[t].pool)

bitmap_scan(t) ==
    /\ pc[t] = "scan"
    /\ InRange(t) /\ req[t].k < req[t].cnt
    /\ req' = IF req[t].idx + req[t].k \in used_map
              THEN [req EXCEPT ![t].idx = @ + 1, ![t].k = 0]
              ELSE [req EXCEPT ![t].k = @ + 1]
    /\ UNCHANGED <<used_map, lock, content, pc, group>>

scan_found(t) ==
    /\ pc[t] = "scan"
    /\ req[t].k = req[t].cnt
    /\ req' = [req EXCEPT ![t].k = 0]
    /\ Goto(t, "flip")
    /\ UNCHANGED <<used_map, lock, content, group>>

\* BITMAP_ERROR: a null pointer is returned.
scan_error(t) ==
    /\ pc[t] = "scan"
    /\ ~InRange(t) /\ req[t].k < req[t].cnt
    /\ release(t)
    /\ Goto(t, "failed")
    /\ UNCHANGED <<used_map, content, req, group>>

return_null(t) ==
    /\ pc[t] = "failed"
    /\ req' = [req EXCEPT ![t] = NoReq]
    /\ Goto(t, "idle")
    /\ UNCHANGED <<used_map, lock, content, group>>

\* bitmap_set_multiple(): the bits of the group found.
bitmap_mark(t) ==
    /\ pc[t] = "flip"
    /\ req[t].k < req[t].cnt
    /\ used_map' = used_map \cup {req[t].idx + req[t].k}
    /\ req' = [req EXCEPT ![t].k = @ + 1]
    /\ UNCHANGED <<lock, content, pc, group>>

\* lock_release(), and the pages are the caller's.
flip_done(t) ==
    /\ pc[t] = "flip"
    /\ req[t].k = req[t].cnt
    /\ release(t)
    /\ group' = [group EXCEPT ![t] = [first |-> req[t].idx, cnt |-> req[t].cnt, data |-> "any"]]
    /\ IF req[t].zero
       THEN Goto(t, "zero") /\ UNCHANGED req
       ELSE Goto(t, "idle") /\ req' = [req EXCEPT ![t] = NoReq]
    /\ UNCHANGED <<used_map, content>>

Fill(t, value) == content' = [p \in Page |-> IF p \in Pages(t) THEN value ELSE content[p]]

\* PAL_ZERO: memset (pages, 0, ...), after the lock is released.
zero(t) ==
    /\ pc[t] = "zero"
    /\ Fill(t, "zeros")
    /\ group' = [group EXCEPT ![t].data = "zeros"]
    /\ req' = [req EXCEPT ![t] = NoReq]
    /\ Goto(t, "idle")
    /\ UNCHANGED <<used_map, lock>>

\* The caller stores its data.
use(t) ==
    /\ pc[t] = "idle" /\ group[t] # NoGroup
    /\ Fill(t, t)
    /\ group' = [group EXCEPT ![t].data = t]
    /\ UNCHANGED <<used_map, lock, pc, req>>

page_from_pool(pool, page) == Base(pool) =< page /\ page < End(pool)

\* palloc_free_multiple(): memset (pages, 0xcc, ...) comes before the bits.
palloc_free_multiple(t) ==
    /\ pc[t] = "idle" /\ group[t] # NoGroup
    /\ Fill(t, "cc")
    /\ req' = [req EXCEPT ![t] =
                  [NoReq EXCEPT !.cnt = group[t].cnt, !.idx = group[t].first,
                                !.pool = CHOOSE pool \in Pool : page_from_pool(pool, group[t].first)]]
    /\ group' = [group EXCEPT ![t].data = "any"]
    /\ Goto(t, "free")
    /\ UNCHANGED <<used_map, lock>>

\* bitmap_set_multiple() without the lock.
bitmap_reset(t) ==
    /\ pc[t] = "free"
    /\ req[t].k < req[t].cnt
    /\ used_map' = used_map \ {req[t].idx + req[t].k}
    /\ req' = [req EXCEPT ![t].k = @ + 1]
    /\ UNCHANGED <<lock, content, pc, group>>

free_done_Memset(t) ==
    /\ pc[t] = "free"
    /\ req[t].k = req[t].cnt
    /\ Fill(t, "cc")
    /\ group' = [group EXCEPT ![t] = NoGroup]
    /\ req' = [req EXCEPT ![t] = NoReq]
    /\ Goto(t, "idle")
    /\ UNCHANGED <<used_map, lock>>

free_done(t) ==
    /\ pc[t] = "free"
    /\ req[t].k = req[t].cnt
    /\ group' = [group EXCEPT ![t] = NoGroup]
    /\ req' = [req EXCEPT ![t] = NoReq]
    /\ Goto(t, "idle")
    /\ UNCHANGED <<used_map, lock, content>>

Step(t) ==
    \/ \E pool \in Pool, zeroed \in BOOLEAN, cnt \in PageCnt :
          palloc_get_multiple(t, pool, zeroed, cnt)
    \/ acquire(t) \/ bitmap_scan(t) \/ scan_found(t) \/ scan_error(t) \/ return_null(t)
    \/ bitmap_mark(t) \/ flip_done(t) \/ zero(t) \/ use(t)
    \/ palloc_free_multiple(t) \/ bitmap_reset(t) \/ free_done(t)

PallocNext == \E t \in Thread : Step(t)

PallocSpec == PallocInit /\ [][PallocNext]_vars

----------------------------------------------------------------------------
(* Properties. *)

\* Pages that belong to t: its group, less the pages it has given back, and
\* the pages of the group that it has marked so far.
Owned(t) ==
    CASE pc[t] = "free" -> Run(req[t].idx + req[t].k, req[t].cnt - req[t].k)
      [] pc[t] = "flip" -> Run(req[t].idx, req[t].k)
      [] OTHER -> Pages(t)

\* No page is given to two threads, although pages are freed without the
\* lock; used_map marks exactly the pages that somebody has, so that the
\* ASSERT of palloc_free_multiple() holds; and a group lies in one pool.
PagesExclusive ==
    /\ \A t, u \in Thread : t # u => Owned(t) \cap Owned(u) = {}
    /\ used_map = UNION {Owned(t) : t \in Thread}
    /\ \A t \in Thread : \E pool \in Pool : \A p \in Pages(t) : page_from_pool(pool, p)

\* What a thread stored in its pages, and the zeros of PAL_ZERO, stay there:
\* no memset() of a thread that frees or gets pages reaches them.
ContentKept ==
    \A t \in Thread : group[t].data # "any" =>
        \A p \in Pages(t) : content[p] = group[t].data

\* A null pointer is returned only if, when the lock was taken, too few
\* contiguous pages were available: the scan cannot miss a group because of
\* pages that are freed while it runs.
FailsOnlyWhenFull == \A t \in Thread : pc[t] = "failed" => ~req[t].fit

----------------------------------------------------------------------------
(* The inductive invariant from which the properties follow.                *)

Request == [pool : Pool, zero : BOOLEAN, cnt : Nat, idx : Nat, k : Nat, fit : BOOLEAN]
Group == [first : Nat, cnt : Nat, data : Thread \cup {"any", "zeros"}]

PallocTypeOK ==
    /\ lock \in [Pool -> Thread \cup {NoHolder}]
    /\ content \in [Page -> Thread \cup {"any", "zeros", "cc"}]
    /\ pc \in [Thread -> {"idle", "acquire", "scan", "failed", "flip", "zero", "free"}]
    /\ req \in [Thread -> Request]
    /\ group \in [Thread -> Group]

\* A pool's lock is held by the thread that scans its bitmap or marks a group.
ScansWithLock ==
    \A t \in Thread, pool \in Pool :
        lock[pool] = t <=> pc[t] \in {"scan", "flip"} /\ req[t].pool = pool

InPool(pool, first, cnt) == Base(pool) =< first /\ first + cnt =< End(pool)

\* What a thread knows where it is: the pages it has looked at are still free,
\* and if there was a group when it took the lock, one is still ahead of it.
Knows(t) ==
    /\ pc[t] \in {"acquire", "scan", "failed", "flip"} => group[t] = NoGroup /\ req[t].cnt > 0
    /\ pc[t] = "scan" =>
          /\ Base(req[t].pool) =< req[t].idx /\ req[t].k =< req[t].cnt
          /\ req[t].k > 0 => InRange(t)
          /\ Run(req[t].idx, req[t].k) \cap used_map = {}
          /\ req[t].fit => \E i \in req[t].idx .. End(req[t].pool) - req[t].cnt :
                               Run(i, req[t].cnt) \cap used_map = {}
    /\ pc[t] = "flip" =>
          /\ InPool(req[t].pool, req[t].idx, req[t].cnt) /\ req[t].k =< req[t].cnt
          /\ Run(req[t].idx + req[t].k, req[t].cnt - req[t].k) \cap used_map = {}
    /\ pc[t] = "free" =>
          req[t].idx = group[t].first /\ req[t].cnt = group[t].cnt /\ req[t].k =< req[t].cnt
    /\ pc[t] = "zero" => group[t] # NoGroup
    /\ group[t] # NoGroup =>
          group[t].cnt > 0 /\ \E pool \in Pool : InPool(pool, group[t].first, group[t].cnt)
    /\ group[t].data # "any" => pc[t] = "idle"

PallocInv ==
    /\ PallocTypeOK /\ ScansWithLock /\ \A t \in Thread : Knows(t)
    /\ PagesExclusive /\ ContentKept /\ FailsOnlyWhenFull
=============================================================================
