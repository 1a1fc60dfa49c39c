--------------------------- MODULE SchedulerProofs ---------------------------
(***************************************************************************)
(* Proofs about Scheduler: the type invariant, SchedSafe and NoRugPulled   *)
(* hold for every set of threads and every time slice.                     *)
(***************************************************************************)
EXTENDS Scheduler, Integers, TLAPS

-----------------------------------------------------------------------------
(* The kernel's lists (lib/kernel/list.c) are used as queues throughout:   *)
(* list_push_back() and list_pop_front() on a list in which no element     *)
(* occurs twice.  The models represent them as sequences.                  *)

\* list_push_back() adds its argument and nothing else, and keeps a list
\* without duplicates free of them.
LEMMA PushBack ==
    ASSUME NEW S, NEW s \in Seq(S), NEW x \in S
    PROVE  /\ Append(s, x) \in Seq(S)
           /\ Append(s, x) # <<>>
           /\ Range(Append(s, x)) = Range(s) \cup {x}
           /\ IsInjective(s) /\ x \notin Range(s) => IsInjective(Append(s, x))
  <1>1. /\ Append(s, x) \in Seq(S)
        /\ Append(s, x) # <<>>
        /\ Len(Append(s, x)) = Len(s) + 1
        /\ \A i \in 1 .. Len(s) : Append(s, x)[i] = s[i]
        /\ Append(s, x)[Len(s) + 1] = x
    OBVIOUS
  <1>2. /\ Len(s) \in Nat
        /\ DOMAIN s = 1 .. Len(s)
        /\ DOMAIN Append(s, x) = 1 .. Len(s) + 1
    BY <1>1
  <1>3. Range(Append(s, x)) = Range(s) \cup {x}
    BY <1>1, <1>2 DEF Range
  <1>4. ASSUME IsInjective(s), x \notin Range(s)
        PROVE  IsInjective(Append(s, x))
    BY <1>1, <1>2, <1>4 DEF IsInjective, Range
  <1>5. QED
    BY <1>1, <1>3, <1>4, Zenon

\* list_pop_front() removes exactly the first element of a list without
\* duplicates.
LEMMA PopFront ==
    ASSUME NEW S, NEW s \in Seq(S), s # <<>>, IsInjective(s)
    PROVE  /\ Head(s) \in Range(s)
           /\ Head(s) \in S
           /\ Tail(s) \in Seq(S)
           /\ Range(Tail(s)) = Range(s) \ {Head(s)}
           /\ IsInjective(Tail(s))
  <1>1. /\ Head(s) \in S
        /\ Tail(s) \in Seq(S)
        /\ Len(Tail(s)) = Len(s) - 1
        /\ \A i \in 1 .. Len(Tail(s)) : Tail(s)[i] = s[i + 1]
    OBVIOUS
  <1>2. /\ Len(s) \in Nat \ {0}
        /\ DOMAIN s = 1 .. Len(s)
        /\ DOMAIN Tail(s) = 1 .. Len(s) - 1
        /\ Head(s) = s[1]
    BY <1>1
  <1>3. \A a, b \in 1 .. Len(s) : s[a] = s[b] => a = b
    BY <1>2, Zenon DEF IsInjective
  <1>4. Range(s) = {s[i] : i \in 1 .. Len(s)}
    BY <1>2, Zenon DEF Range
  <1>5. Range(Tail(s)) = {s[i + 1] : i \in 1 .. Len(s) - 1}
    BY <1>1, <1>2, Zenon DEF Range
  <1>6. Range(Tail(s)) = Range(s) \ {Head(s)}
    <2>1. ASSUME NEW y \in Range(Tail(s))
          PROVE  y \in Range(s) \ {Head(s)}
      BY <2>1, <1>2, <1>3, <1>4, <1>5
    <2>2. ASSUME NEW y \in Range(s), y # Head(s)
          PROVE  y \in Range(Tail(s))
      <3>1. PICK i \in 1 .. Len(s) : y = s[i]
        BY <1>4, Zenon
      <3>2. /\ i # 1
            /\ i - 1 \in 1 .. Len(s) - 1
            /\ y = s[(i - 1) + 1]
        BY <3>1, <2>2, <1>2
      <3>3. QED
        BY <3>2, <1>5, Zenon
    <2>3. QED
      BY <2>1, <2>2, Zenon
  <1>7. IsInjective(Tail(s))
    BY <1>1, <1>2, <1>3 DEF IsInjective
  <1>8. Head(s) \in Range(s)
    BY <1>2, <1>4
  <1>9. QED
    BY <1>1, <1>6, <1>7, <1>8, Zenon

\* A fresh list (list_init()) has no elements.
LEMMA EmptyList ==
    ASSUME NEW S
    PROVE  <<>> \in Seq(S) /\ Range(<<>>) = {} /\ IsInjective(<<>>)
  <1>1. <<>> \in Seq(S) /\ Len(<<>>) = 0
    OBVIOUS
  <1>2. DOMAIN <<>> = {}
    BY <1>1
  <1>3. QED
    BY <1>1, <1>2, Zenon DEF Range, IsInjective

\* Every element of a list is of the list's type.
LEMMA ListElements ==
    ASSUME NEW S, NEW s \in Seq(S)
    PROVE  Range(s) \subseteq S
  BY DEF Range

\* No element of a list moves away from its front when another is pushed at
\* the back and the first is popped or not.
Closer(s, t) == \A i \in DOMAIN s : \A j \in DOMAIN t : s[i] = t[j] => j <= i

LEMMA FifoOrder ==
    ASSUME NEW S, NEW s \in Seq(S), IsInjective(s)
    PROVE  /\ Closer(s, s)
           /\ s # <<>> => Closer(s, Tail(s))
           /\ \A x \in S \ Range(s) : Closer(s, Append(s, x)) /\ Closer(s, Tail(Append(s, x)))
  <1>1. Len(s) \in Nat /\ DOMAIN s = 1 .. Len(s)
    OBVIOUS
  <1>2. \A a, b \in 1 .. Len(s) : s[a] = s[b] => a = b
    BY <1>1, Zenon DEF IsInjective
  <1>3. Closer(s, s)
    BY <1>1, <1>2 DEF Closer
  <1>4. ASSUME s # <<>> PROVE Closer(s, Tail(s))
    <2>1. /\ DOMAIN Tail(s) = 1 .. Len(s) - 1
          /\ \A i \in 1 .. Len(s) - 1 : Tail(s)[i] = s[i + 1]
      BY <1>4
    <2>2. QED
      BY <1>1, <1>2, <2>1 DEF Closer
  <1>5. ASSUME NEW x \in S \ Range(s)
        PROVE  Closer(s, Append(s, x)) /\ Closer(s, Tail(Append(s, x)))
    <2>1. /\ Append(s, x) \in Seq(S) /\ Append(s, x) # <<>>
          /\ Len(Append(s, x)) = Len(s) + 1
          /\ \A i \in 1 .. Len(s) : Append(s, x)[i] = s[i]
          /\ Append(s, x)[Len(s) + 1] = x
      OBVIOUS
    <2>2. /\ DOMAIN Append(s, x) = 1 .. Len(s) + 1
          /\ DOMAIN Tail(Append(s, x)) = 1 .. Len(s)
          /\ \A i \in 1 .. Len(s) : Tail(Append(s, x))[i] = Append(s, x)[i + 1]
      BY <1>1, <2>1
    <2>3. \A i \in 1 .. Len(s) : s[i] # x
      BY <1>1, Zenon DEF Range
    <2>4. \A i \in 1 .. Len(s) : \A j \in 1 .. Len(s) + 1 : s[i] = Append(s, x)[j] => j = i
      BY <1>1, <1>2, <2>1, <2>3
    <2>5. QED
      BY <1>1, <2>2, <2>4 DEF Closer
  <1>6. QED
    BY <1>3, <1>4, <1>5, Zenon

-----------------------------------------------------------------------------
(* The one place where the processor changes hands.                        *)

\* schedule() keeps the invariant if its caller has taken the current thread
\* out of the running state, put it on the ready list if it is ready, and if
\* there is a thread to switch to.
LEMMA ScheduleStep ==
    ASSUME current \in Thread, idle_thread \in {NULL, IdlePage},
           NEW STATE st, st \in [Thread -> Status], NEW STATE rl, rl \in Seq(Thread),
           NEW STATE dr, dr \in Seq(Thread), NEW STATE lv, lv \in [Thread -> BOOLEAN],
           \A t \in Thread : st[t] # "running",
           IsInjective(rl),
           \A t \in Thread : t \in Range(rl) <=> st[t] = "ready" /\ t # idle_thread,
           IsInjective(dr),
           \A t \in Thread : t \in Range(dr) <=>
                               st[t] = "dying" /\ t # initial_thread /\ t # current,
           idle_thread # NULL => st[IdlePage] \in {"ready", "blocked"},
           idle_thread = NULL => rl # <<>>,
           schedule(st, rl, dr, lv),
           idle_thread' = idle_thread
    PROVE  /\ status' \in [Thread -> Status]
           /\ ready_list' \in Seq(Thread)
           /\ current' \in Thread
           /\ destruction_req' \in Seq(Thread)
           /\ thread_ticks' \in 0 .. TIME_SLICE - 1
           /\ intr' \in BOOLEAN
           /\ level' \in [Thread -> BOOLEAN]
           /\ current' = next_thread_to_run(rl)
           /\ current' = idle_thread \/ st[current'] = "ready"
           /\ \A t \in Thread : status'[t] = IF t = current' THEN "running" ELSE st[t]
           /\ OneRunning'
           /\ ReadyListExact'
           /\ DeadQueued'
  <1> DEFINE next == next_thread_to_run(rl)
  <1>1. /\ next \in Thread
        /\ rl # <<>> => next = Head(rl) /\ next \in Range(rl)
        /\ rl = <<>> => next = IdlePage /\ next = idle_thread
    BY PopFront, SchedulerAssumption, Zenon DEF next_thread_to_run
  <1>2. /\ current' = next
        /\ status' = [t \in Thread |-> IF t = next THEN "running" ELSE st[t]]
        /\ ready_list' = IF rl = <<>> THEN rl ELSE Tail(rl)
        /\ thread_ticks' = 0
        /\ level' = lv
        /\ intr' = IF next = NULL THEN FALSE ELSE lv[next]
        /\ destruction_req' = IF /\ next # current
                                 /\ st[current] = "dying"
                                 /\ current # initial_thread
                              THEN Append(dr, current) ELSE dr
    BY Zenon DEF schedule
  <1> HIDE DEF next
  <1>3. /\ status' \in [Thread -> Status]
        /\ current' \in Thread
        /\ thread_ticks' \in 0 .. TIME_SLICE - 1
        /\ intr' \in BOOLEAN
        /\ level' \in [Thread -> BOOLEAN]
    <2>1. status' \in [Thread -> Status] /\ current' \in Thread
      BY <1>1, <1>2, Zenon DEF Status
    <2>2. thread_ticks' \in 0 .. TIME_SLICE - 1
      BY <1>2, SchedulerAssumption
    <2>3. intr' \in BOOLEAN /\ level' \in [Thread -> BOOLEAN]
      BY <1>1, <1>2, Zenon
    <2>4. QED
      BY <2>1, <2>2, <2>3, Zenon
  <1>4. \A t \in Thread : status'[t] = IF t = current' THEN "running" ELSE st[t]
    BY <1>2, Zenon
  <1>5. OneRunning'
    BY <1>3, <1>4, Zenon DEF OneRunning
  <1>6. /\ ready_list' \in Seq(Thread)
        /\ IsInjective(ready_list')
        /\ Range(ready_list') = Range(rl) \ {next}
    <2>1. CASE rl = <<>>
      BY <2>1, <1>2, EmptyList, Zenon
    <2>2. CASE rl # <<>>
      BY <2>2, <1>1, <1>2, PopFront, Zenon
    <2>3. QED
      BY <2>1, <2>2, Zenon
  <1>7. ReadyListExact'
    BY <1>2, <1>4, <1>6, Zenon DEF ReadyListExact
  <1>8. st[next] \in {"ready", "blocked"}
    BY <1>1, Zenon
  <1>9. destruction_req' \in Seq(Thread) /\ DeadQueued'
    <2>1. CASE next # current /\ st[current] = "dying" /\ current # initial_thread
      <3>1. destruction_req' = Append(dr, current)
        BY <2>1, <1>2, Zenon
      <3>2. /\ destruction_req' \in Seq(Thread)
            /\ Range(destruction_req') = Range(dr) \cup {current}
            /\ IsInjective(destruction_req')
        BY <3>1, PushBack
      <3>3. QED
        BY <3>2, <2>1, <1>2, <1>4, <1>8, Zenon DEF DeadQueued
    <2>2. CASE ~(next # current /\ st[current] = "dying" /\ current # initial_thread)
      <3>1. destruction_req' = dr
        BY <2>2, <1>2, Zenon
      <3>2. QED
        BY <3>1, <2>2, <1>2, <1>4, <1>8, Zenon DEF DeadQueued
    <2>3. QED
      BY <2>1, <2>2, Zenon
  <1>10. current' = idle_thread \/ st[current'] = "ready"
    BY <1>1, <1>2, Zenon
  <1>11. QED
    BY <1>2, <1>3, <1>4, <1>5, <1>6, <1>7, <1>9, <1>10, Zenon DEF next

\* What a thread switch preserves, and what it does to the status of threads.
Switched(st) ==
    /\ status' \in [Thread -> Status]
    /\ ready_list' \in Seq(Thread)
    /\ current' \in Thread
    /\ destruction_req' \in Seq(Thread)
    /\ thread_ticks' \in 0 .. TIME_SLICE - 1
    /\ intr' \in BOOLEAN
    /\ level' \in [Thread -> BOOLEAN]
    /\ current' = idle_thread \/ st[current'] = "ready"
    /\ \A t \in Thread : status'[t] = IF t = current' THEN "running" ELSE st[t]
    /\ OneRunning'
    /\ ReadyListExact'
    /\ DeadQueued'

\* thread_block() keeps the invariant while there is a thread to switch to.
LEMMA BlockStep ==
    ASSUME SchedInv, NEW lv \in BOOLEAN, thread_block(lv),
           idle_thread' = idle_thread,
           idle_thread = NULL => ready_list # <<>> /\ current # IdlePage
    PROVE  /\ Switched([status EXCEPT ![current] = "blocked"])
           /\ current' = next_thread_to_run(ready_list)
  <1> DEFINE st == [status EXCEPT ![current] = "blocked"]
             lvs == [level EXCEPT ![current] = lv]
  <1>1. /\ current \in Thread /\ idle_thread \in {NULL, IdlePage}
        /\ ready_list \in Seq(Thread) /\ destruction_req \in Seq(Thread)
        /\ IsInjective(ready_list) /\ IsInjective(destruction_req)
    BY Zenon DEF SchedInv, SchedTypeOK, SchedSafe, ReadyListExact, DeadQueued
  <1>2. /\ st \in [Thread -> Status]
        /\ lvs \in [Thread -> BOOLEAN]
        /\ \A t \in Thread : st[t] = IF t = current THEN "blocked" ELSE status[t]
    BY Zenon DEF SchedInv, SchedTypeOK, Status
  <1>3. \A t \in Thread : status[t] = "running" <=> t = current
    BY Zenon DEF SchedInv, SchedSafe, OneRunning
  <1>4. \A t \in Thread : st[t] # "running"
    BY <1>2, <1>3, Zenon
  <1>5. \A t \in Thread : t \in Range(ready_list) <=> st[t] = "ready" /\ t # idle_thread
    BY <1>2, <1>3, Zenon DEF SchedInv, SchedSafe, ReadyListExact
  <1>6. \A t \in Thread : t \in Range(destruction_req) <=>
                            st[t] = "dying" /\ t # initial_thread /\ t # current
    BY <1>2, <1>3, Zenon DEF SchedInv, SchedSafe, DeadQueued
  <1>7. idle_thread # NULL => st[IdlePage] \in {"ready", "blocked"}
    BY <1>2, <1>3, <1>4, SchedulerAssumption, Zenon DEF SchedInv, SchedSafe, PermanentThreads
  <1>8. schedule(st, ready_list, destruction_req, lvs)
    BY Zenon DEF thread_block
  <1> HIDE DEF st, lvs
  <1>9. Switched(st) /\ current' = next_thread_to_run(ready_list)
    BY <1>1, <1>2, <1>4, <1>5, <1>6, <1>7, <1>8, ScheduleStep DEF Switched
  <1>10. QED
    BY <1>9, Zenon DEF st

\* do_schedule() with a ready or dying current thread keeps the invariant and
\* frees exactly the dead threads.
LEMMA DoScheduleStep ==
    ASSUME SchedInv, NEW ns \in {"ready", "dying"},
           NEW STATE rl, rl \in Seq(Thread), NEW STATE lvs, lvs \in [Thread -> BOOLEAN],
           IsInjective(rl),
           ns = "ready" /\ current # idle_thread => Range(rl) = Range(ready_list) \cup {current},
           ns = "dying" \/ current = idle_thread => Range(rl) = Range(ready_list),
           ns = "dying" => current # IdlePage,
           idle_thread = NULL => rl # <<>>,
           do_schedule(ns, rl, lvs), idle_thread' = idle_thread
    PROVE  /\ Switched([t \in Thread |-> IF t \in Range(destruction_req) THEN "none"
                                         ELSE IF t = current THEN ns ELSE status[t]])
           /\ current' = next_thread_to_run(rl)
  <1> DEFINE st == [t \in Thread |-> IF t \in Range(destruction_req) THEN "none"
                                     ELSE IF t = current THEN ns ELSE status[t]]
  <1>1. /\ current \in Thread /\ idle_thread \in {NULL, IdlePage}
        /\ ready_list \in Seq(Thread) /\ destruction_req \in Seq(Thread)
    BY Zenon DEF SchedInv, SchedTypeOK
  <1>2. /\ st \in [Thread -> Status]
        /\ \A t \in Thread : st[t] = IF t \in Range(destruction_req) THEN "none"
                                     ELSE IF t = current THEN ns ELSE status[t]
    BY Zenon DEF SchedInv, SchedTypeOK, Status
  <1>3. \A t \in Thread : status[t] = "running" <=> t = current
    BY Zenon DEF SchedInv, SchedSafe, OneRunning
  <1>4. \A t \in Thread : t \in Range(destruction_req) <=> status[t] = "dying" /\ t # initial_thread
    BY Zenon DEF SchedInv, SchedSafe, DeadQueued
  <1>5. \A t \in Thread : st[t] # "running"
    BY <1>2, <1>3, Zenon
  <1>6. \A t \in Thread : t \in Range(rl) <=> st[t] = "ready" /\ t # idle_thread
    BY <1>1, <1>2, <1>3, <1>4, Zenon DEF SchedInv, SchedSafe, ReadyListExact
  <1>7. <<>> \in Seq(Thread) /\ IsInjective(<<>>) /\ Range(<<>>) = {}
    BY EmptyList, Zenon
  <1>8. \A t \in Thread : t \in Range(<<>>) <=>
                            st[t] = "dying" /\ t # initial_thread /\ t # current
    BY <1>2, <1>4, <1>7, Zenon
  <1>9. idle_thread # NULL => st[IdlePage] \in {"ready", "blocked"}
    BY <1>2, <1>3, <1>4, SchedulerAssumption, Zenon DEF SchedInv, SchedSafe, PermanentThreads
  <1>10. schedule(st, rl, <<>>, lvs)
    BY Zenon DEF do_schedule
  <1> HIDE DEF st
  <1>11. Switched(st) /\ current' = next_thread_to_run(rl)
    BY <1>1, <1>2, <1>5, <1>6, <1>7, <1>8, <1>9, <1>10, ScheduleStep, Zenon DEF Switched
  <1>12. QED
    BY <1>11, Zenon DEF st

\* thread_yield(), by choice or on return from the timer interrupt.
LEMMA YieldStep ==
    ASSUME SchedInv, NEW lv \in BOOLEAN, thread_yield(lv), idle_thread' = idle_thread
    PROVE  Switched([t \in Thread |-> IF t \in Range(destruction_req) THEN "none"
                                      ELSE IF t = current THEN "ready" ELSE status[t]])
  <1> DEFINE rl == IF current # idle_thread THEN Append(ready_list, current) ELSE ready_list
             lvs == [level EXCEPT ![current] = lv]
  <1>1. /\ current \in Thread /\ idle_thread \in {NULL, IdlePage}
        /\ ready_list \in Seq(Thread) /\ IsInjective(ready_list)
        /\ current \notin Range(ready_list)
    BY Zenon DEF SchedInv, SchedTypeOK, SchedSafe, OneRunning, ReadyListExact
  <1>2. lvs \in [Thread -> BOOLEAN]
    BY Zenon DEF SchedInv, SchedTypeOK
  <1>3. /\ rl \in Seq(Thread) /\ IsInjective(rl)
        /\ current # idle_thread => Range(rl) = Range(ready_list) \cup {current} /\ rl # <<>>
        /\ current = idle_thread => Range(rl) = Range(ready_list)
    BY <1>1, PushBack
  <1>4. do_schedule("ready", rl, lvs)
    BY Zenon DEF thread_yield
  <1>5. idle_thread = NULL => rl # <<>>
    BY <1>1, <1>3, SchedulerAssumption, Zenon
  <1> HIDE DEF rl, lvs
  <1>6. QED
    BY <1>2, <1>3, <1>4, <1>5, DoScheduleStep, Zenon

\* thread_unblock() of a blocked thread other than the idle thread.
LEMMA UnblockStep ==
    ASSUME SchedInv, NEW t \in Thread, status[t] = "blocked", t # idle_thread,
           thread_unblock(t), UNCHANGED <<current, idle_thread, destruction_req>>
    PROVE  /\ status' \in [Thread -> Status]
           /\ \A u \in Thread : status'[u] = IF u = t THEN "ready" ELSE status[u]
           /\ ready_list' \in Seq(Thread)
           /\ SchedSafe'
  <1>1. /\ ready_list' = Append(ready_list, t)
        /\ status' = [status EXCEPT ![t] = "ready"]
    BY Zenon DEF thread_unblock
  <1>2. status \in [Thread -> Status] /\ ready_list \in Seq(Thread)
    BY Zenon DEF SchedInv, SchedTypeOK
  <1>3. /\ status' \in [Thread -> Status]
        /\ \A u \in Thread : status'[u] = IF u = t THEN "ready" ELSE status[u]
    BY <1>1, <1>2, Zenon DEF Status
  <1>4. IsInjective(ready_list) /\ t \notin Range(ready_list)
    BY Zenon DEF SchedInv, SchedSafe, ReadyListExact
  <1>5. /\ ready_list' \in Seq(Thread)
        /\ Range(ready_list') = Range(ready_list) \cup {t}
        /\ IsInjective(ready_list')
    BY <1>1, <1>2, <1>4, PushBack
  <1>6. OneRunning'
    BY <1>3, Zenon DEF SchedInv, SchedSafe, OneRunning
  <1>7. ReadyListExact'
    BY <1>3, <1>5, Zenon DEF SchedInv, SchedSafe, ReadyListExact
  <1>8. DeadQueued'
    BY <1>3, Zenon DEF SchedInv, SchedSafe, DeadQueued
  <1>9. PermanentThreads'
    BY <1>3, SchedulerAssumption, Zenon DEF SchedInv, SchedSafe, PermanentThreads
  <1>10. QED
    BY <1>3, <1>5, <1>6, <1>7, <1>8, <1>9, Zenon DEF SchedSafe

-----------------------------------------------------------------------------
(* The invariant is inductive: one lemma per group of actions.             *)

\* thread_start() preserves the invariant; in particular there is always a
\* thread to switch to while main() waits for the idle thread.
LEMMA BootInductive == SchedInv /\ Boot => SchedInv'
  <1> SUFFICES ASSUME SchedInv, Boot PROVE SchedInv'
    OBVIOUS
  <1> USE SchedulerAssumption
  <1>1. CASE thread_start_create
    <2>1. /\ status \in [Thread -> Status] /\ ready_list \in Seq(Thread)
          /\ status[IdlePage] = "none" /\ idle_pc = "none" /\ idle_thread = NULL
          /\ IsInjective(ready_list) /\ IdlePage \notin Range(ready_list)
      BY <1>1, Zenon DEF thread_start_create, SchedInv, SchedTypeOK, SchedSafe, ReadyListExact, BootOrder
    <2>2. /\ ready_list' \in Seq(Thread)
          /\ Range(ready_list') = Range(ready_list) \cup {IdlePage}
          /\ IsInjective(ready_list')
      BY <1>1, <2>1, PushBack DEF thread_start_create
    <2>3. /\ status' \in [Thread -> Status]
          /\ \A t \in Thread : status'[t] = IF t = IdlePage THEN "ready" ELSE status[t]
      BY <1>1, <2>1, Zenon DEF thread_start_create, Status
    <2>4. SchedTypeOK'
      BY <1>1, <2>2, <2>3, Zenon DEF thread_start_create, SchedInv, SchedTypeOK
    <2>5. OneRunning' /\ DeadQueued' /\ PermanentThreads'
      BY <1>1, <2>1, <2>3, Zenon DEF thread_start_create, SchedInv, SchedSafe, OneRunning,
                              DeadQueued, PermanentThreads
    <2>6. ReadyListExact'
      BY <1>1, <2>1, <2>2, <2>3, Zenon DEF thread_start_create, SchedInv, SchedSafe, ReadyListExact
    <2>7. BootOrder'
      BY <1>1, <2>1, <2>3, Zenon DEF thread_start_create, SchedInv, BootOrder
    <2>8. QED
      BY <2>4, <2>5, <2>6, <2>7, Zenon DEF SchedInv, SchedSafe
  <1>2. CASE thread_start_enable
    BY <1>2, Zenon DEF thread_start_enable, SchedInv, SchedTypeOK, SchedSafe, OneRunning,
                ReadyListExact, DeadQueued, PermanentThreads, BootOrder
  <1>3. CASE thread_start_wait
    <2>1. CASE idle_started = 0
      <3>1. /\ thread_block(FALSE) /\ boot' = "retry" /\ UNCHANGED <<idle_thread, idle_pc, idle_started>>
            /\ current = initial_thread /\ boot \in {"wait", "retry"}
        <4>1. ~(idle_started > 0)
          BY <2>1
        <4>2. QED
          BY <1>3, <4>1, Zenon DEF thread_start_wait
      <3>2. idle_thread = NULL => ready_list # <<>> /\ current # IdlePage
        <4> SUFFICES ASSUME idle_thread = NULL
                     PROVE  ready_list # <<>>
          BY <3>1, Zenon
        <4>1. idle_pc = "entry"
          BY <3>1, Zenon DEF SchedInv, SchedTypeOK, BootOrder
        <4>2. status[IdlePage] = "ready"
          BY <3>1, <4>1, Zenon DEF SchedInv, SchedSafe, OneRunning, BootOrder
        <4>3. IdlePage \in Range(ready_list)
          BY <4>2, Zenon DEF SchedInv, SchedSafe, ReadyListExact
        <4>4. QED
          BY <4>3, EmptyList, Zenon
      <3>3. Switched([status EXCEPT ![current] = "blocked"])
        BY <3>1, <3>2, BlockStep, Zenon
      <3>4. \A t \in Thread : status'[t] = IF t = current' THEN "running"
                                           ELSE IF t = current THEN "blocked" ELSE status[t]
        BY <3>3, Zenon DEF Switched, SchedInv, SchedTypeOK
      <3>9. current' = idle_thread \/ (current' # current /\ status[current'] = "ready")
        BY <3>3, Zenon DEF Switched, SchedInv, SchedTypeOK
      <3>5. SchedTypeOK'
        BY <3>1, <3>3, Zenon DEF Switched, SchedInv, SchedTypeOK
      <3>6. PermanentThreads'
        BY <3>1, <3>3, <3>4, Zenon DEF Switched, DeadQueued, SchedInv, SchedSafe, PermanentThreads
      <3>7. BootOrder'
        <4>1. \A t \in Thread \ {initial_thread, IdlePage} : status'[t] = "none"
          BY <3>1, <3>4, <3>9, Zenon DEF SchedInv, SchedTypeOK, BootOrder
        <4>2. QED
          BY <3>1, <3>3, <3>4, <4>1, Zenon DEF Switched, SchedInv, SchedTypeOK, SchedSafe, OneRunning, BootOrder
      <3>8. QED
        BY <3>3, <3>5, <3>6, <3>7, Zenon DEF Switched, SchedInv, SchedSafe
    <2>2. CASE idle_started > 0
      <3>1. /\ boot' = "done" /\ idle_started' = 0 /\ intr' = TRUE
            /\ UNCHANGED <<status, ready_list, current, destruction_req, thread_ticks,
                           level, idle_thread, idle_pc>>
        <4>1. ~(idle_started = 0) /\ idle_started - 1 = 0
          BY <2>2 DEF SchedInv, SchedTypeOK
        <4>2. QED
          BY <1>3, <4>1, Zenon DEF thread_start_wait
      <3>2. SchedTypeOK'
        BY <3>1, Zenon DEF SchedInv, SchedTypeOK
      <3>3. SchedSafe'
        BY <3>1, Zenon DEF SchedInv, SchedSafe, OneRunning, ReadyListExact, DeadQueued, PermanentThreads
      <3>4. BootOrder'
        BY <1>3, <2>2, <3>1 DEF thread_start_wait, SchedInv, BootOrder
      <3>5. QED
        BY <3>2, <3>3, <3>4, Zenon DEF SchedInv
    <2>3. QED
      BY <1>3, <2>1, <2>2, Zenon DEF thread_start_wait
  <1>4. QED
    BY <1>1, <1>2, <1>3, Zenon DEF Boot

\* A thread switch after thread_start() has enabled interrupts preserves the
\* invariant, if all it does to the status of threads is to change that of the
\* current thread and to free dead ones.
LEMMA SwitchInductive ==
    ASSUME SchedInv, NEW STATE st, Switched(st),
           UNCHANGED <<idle_thread, boot, idle_started>>,
           boot \notin {"create", "enable"},
           idle_pc' = idle_pc \/ (idle_pc \in {"loop", "hlt"} /\ idle_pc' \in {"loop", "hlt"}),
           \A t \in Thread :
             st[t] = status[t] \/ t = current \/ (status[t] = "dying" /\ t # initial_thread),
           st[initial_thread] # "none",
           current = IdlePage => st[IdlePage] = "ready" \/ (st[IdlePage] = "blocked" /\ idle_pc = "loop")
    PROVE  SchedInv'
  <1> USE SchedulerAssumption
  <1>1. SchedTypeOK'
    BY Zenon DEF Switched, SchedInv, SchedTypeOK
  <1>2. status[IdlePage] # "dying"
    BY Zenon DEF SchedInv, SchedTypeOK, BootOrder
  <1>3. PermanentThreads'
    BY <1>1, <1>2, Zenon DEF Switched, DeadQueued, SchedInv, SchedTypeOK, SchedSafe, OneRunning, PermanentThreads
  <1>4. boot # "done" => \A t \in Thread \ {initial_thread, IdlePage} : status'[t] = "none"
    <2> SUFFICES ASSUME boot # "done", NEW t \in Thread \ {initial_thread, IdlePage}
                 PROVE  status'[t] = "none"
      OBVIOUS
    <2>1. status[t] = "none" /\ t # current
      BY Zenon DEF SchedInv, SchedSafe, OneRunning, BootOrder
    <2>2. st[t] = "none"
      BY <2>1, Zenon
    <2>3. current' # t
      BY <2>2, Zenon DEF Switched, SchedInv, SchedTypeOK
    <2>4. QED
      BY <2>2, <2>3, Zenon DEF Switched
  <1>5. BootOrder'
    <2>1. /\ idle_pc = "entry" => status'[IdlePage] \in {"ready", "running"}
          /\ idle_pc # "none" => status'[IdlePage] \in {"ready", "running", "blocked"}
      BY <1>2, Zenon DEF Switched, SchedInv, SchedTypeOK, SchedSafe, OneRunning, BootOrder
    <2>2. idle_pc # "none" /\ idle_pc' # "none"
      BY Zenon DEF SchedInv, SchedTypeOK, BootOrder
    <2>3. QED
      BY <1>4, <2>1, <2>2, Zenon DEF SchedInv, SchedTypeOK, BootOrder
  <1>6. QED
    BY <1>1, <1>3, <1>5, Zenon DEF Switched, SchedInv, SchedSafe

\* Waking a thread preserves the invariant.
LEMMA WakeInductive ==
    ASSUME SchedInv, NEW t \in Thread, status[t] = "blocked", t # IdlePage,
           thread_unblock(t),
           UNCHANGED <<current, idle_thread, destruction_req, thread_ticks, intr,
                       level, boot, idle_started>>,
           idle_pc' = idle_pc \/ (idle_pc \in {"loop", "hlt"} /\ idle_pc' \in {"loop", "hlt"})
    PROVE  SchedInv'
  <1>1. t # idle_thread
    BY SchedulerAssumption, Zenon DEF SchedInv, SchedTypeOK
  <1>2. /\ status' \in [Thread -> Status] /\ ready_list' \in Seq(Thread) /\ SchedSafe'
        /\ \A u \in Thread : status'[u] = IF u = t THEN "ready" ELSE status[u]
    BY <1>1, UnblockStep, Zenon
  <1>3. SchedTypeOK'
    BY <1>2, Zenon DEF SchedInv, SchedTypeOK
  <1>4. BootOrder'
    BY <1>2, SchedulerAssumption, Zenon DEF SchedInv, SchedTypeOK, BootOrder
  <1>5. QED
    BY <1>2, <1>3, <1>4, Zenon DEF SchedInv

\* The idle thread's own steps preserve the invariant.
LEMMA IdleInductive == SchedInv /\ Idle => SchedInv'
  <1> SUFFICES ASSUME SchedInv, Idle PROVE SchedInv'
    OBVIOUS
  <1> USE SchedulerAssumption
  <1>1. CASE idle_entry
    <2>1. /\ current = IdlePage /\ idle_pc = "entry" /\ idle_pc' = "up" /\ idle_thread' = IdlePage
          /\ UNCHANGED <<status, ready_list, current, destruction_req, thread_ticks,
                         intr, level, boot, idle_started>>
      BY <1>1, Zenon DEF idle_entry
    <2>2. SchedTypeOK'
      BY <2>1, Zenon DEF SchedInv, SchedTypeOK
    <2>3. status[IdlePage] = "running"
      BY <2>1, Zenon DEF SchedInv, SchedSafe, OneRunning
    <2>4. SchedSafe'
      BY <2>1, <2>3, Zenon DEF SchedInv, SchedTypeOK, SchedSafe, OneRunning, ReadyListExact, DeadQueued,
                        PermanentThreads, BootOrder
    <2>5. BootOrder'
      BY <2>1, <2>3, Zenon DEF SchedInv, BootOrder
    <2>6. QED
      BY <2>2, <2>4, <2>5, Zenon DEF SchedInv
  <1>2. CASE idle_up
    <2>1. /\ current = IdlePage /\ idle_pc = "up" /\ idle_pc' = "loop"
          /\ idle_started' = 1 /\ boot \in {"wait", "retry"}
          /\ UNCHANGED <<current, idle_thread, destruction_req, thread_ticks, intr, level, boot>>
      BY <1>2 DEF idle_up, SchedInv, SchedTypeOK, BootOrder
    <2>2. /\ status' \in [Thread -> Status] /\ ready_list' \in Seq(Thread) /\ SchedSafe'
          /\ \A u \in Thread : status'[u] = status[u] \/ (u = initial_thread /\ status'[u] = "ready")
      <3>1. CASE status[initial_thread] = "blocked"
        <4>1. thread_unblock(initial_thread)
          BY <1>2, <3>1, Zenon DEF idle_up
        <4>2. initial_thread # idle_thread
          BY Zenon DEF SchedInv, SchedTypeOK
        <4>3. QED
          BY <2>1, <3>1, <4>1, <4>2, UnblockStep, Zenon
      <3>2. CASE status[initial_thread] # "blocked"
        <4>1. UNCHANGED <<ready_list, status>>
          BY <1>2, <3>2, Zenon DEF idle_up
        <4>2. QED
          BY <2>1, <4>1, Zenon DEF SchedInv, SchedTypeOK, SchedSafe, OneRunning, ReadyListExact,
                            DeadQueued, PermanentThreads
      <3>3. QED
        BY <3>1, <3>2, Zenon
    <2>3. SchedTypeOK'
      BY <2>1, <2>2, Zenon DEF SchedInv, SchedTypeOK
    <2>4. BootOrder'
      BY <2>1, <2>2, Zenon DEF SchedInv, SchedTypeOK, BootOrder
    <2>5. QED
      BY <2>2, <2>3, <2>4, Zenon DEF SchedInv
  <1>3. CASE idle_block
    <2>1. /\ current = IdlePage /\ idle_pc = "loop" /\ idle_pc' = "hlt" /\ thread_block(TRUE)
          /\ UNCHANGED <<idle_thread, boot, idle_started>>
      BY <1>3, Zenon DEF idle_block
    <2>2. idle_thread = IdlePage /\ boot \notin {"create", "enable"}
      BY <2>1, Zenon DEF SchedInv, BootOrder
    <2>3. Switched([status EXCEPT ![current] = "blocked"])
      BY <2>1, <2>2, BlockStep, Zenon
    <2>4. QED
      BY <2>1, <2>2, <2>3, SwitchInductive, Zenon DEF SchedInv, SchedTypeOK, SchedSafe, PermanentThreads
  <1>4. QED
    BY <1>1, <1>2, <1>3, Zenon DEF Idle

\* A yield, by choice or on return from the timer interrupt.
LEMMA YieldInductive ==
    ASSUME SchedInv, NEW lv \in BOOLEAN, thread_yield(lv),
           boot \notin {"create", "enable"},
           idle_pc' = idle_pc \/ (idle_pc \in {"loop", "hlt"} /\ idle_pc' \in {"loop", "hlt"}),
           UNCHANGED <<idle_thread, boot, idle_started>>
    PROVE  SchedInv'
  <1> USE SchedulerAssumption
  <1> DEFINE st == [t \in Thread |-> IF t \in Range(destruction_req) THEN "none"
                                     ELSE IF t = current THEN "ready" ELSE status[t]]
  <1>1. Switched(st)
    BY YieldStep, Zenon
  <1>2. \A t \in Thread :
          st[t] = status[t] \/ t = current \/ (status[t] = "dying" /\ t # initial_thread)
    BY Zenon DEF SchedInv, SchedSafe, DeadQueued
  <1>3. st[initial_thread] # "none"
    BY Zenon DEF SchedInv, SchedSafe, PermanentThreads
  <1>4. current = IdlePage => st[IdlePage] = "ready"
    BY Zenon DEF SchedInv, SchedSafe, OneRunning, DeadQueued
  <1> HIDE DEF st
  <1>5. QED
    BY <1>1, <1>2, <1>3, <1>4, SwitchInductive, Zenon

\* The timer and the other devices preserve the invariant.
LEMMA InterruptInductive == SchedInv /\ (timer_interrupt \/ device_interrupt) => SchedInv'
  <1> SUFFICES ASSUME SchedInv, timer_interrupt \/ device_interrupt PROVE SchedInv'
    OBVIOUS
  <1> USE SchedulerAssumption
  <1>1. /\ boot \notin {"create", "enable"}
        /\ idle_pc' = idle_pc \/ (idle_pc \in {"loop", "hlt"} /\ idle_pc' \in {"loop", "hlt"})
        /\ UNCHANGED <<idle_thread, boot, idle_started>>
    BY Zenon DEF timer_interrupt, device_interrupt, leave_hlt, SchedInv, SchedTypeOK, BootOrder
  <1>2. CASE timer_interrupt
    <2>1. CASE slice_used_up
      BY <1>1, <1>2, <2>1, YieldInductive, Zenon DEF timer_interrupt
    <2>2. CASE ~slice_used_up
      <3>1. /\ thread_ticks' = thread_ticks + 1
            /\ UNCHANGED <<status, ready_list, current, destruction_req, intr, level>>
        BY <1>2, <2>2, Zenon DEF timer_interrupt
      <3>2. thread_ticks' \in 0 .. TIME_SLICE - 1
        BY <2>2, <3>1 DEF slice_used_up, SchedInv, SchedTypeOK
      <3>3. idle_pc' \in {"none", "entry", "up", "loop", "hlt"}
        BY <1>1, Zenon DEF SchedInv, SchedTypeOK
      <3>4. SchedTypeOK'
        BY <1>1, <3>1, <3>2, <3>3, Zenon DEF SchedInv, SchedTypeOK
      <3>5. SchedSafe'
        BY <1>1, <3>1, Zenon DEF SchedInv, SchedSafe, OneRunning, ReadyListExact, DeadQueued, PermanentThreads
      <3>6. BootOrder'
        BY <1>1, <3>1, Zenon DEF SchedInv, BootOrder
      <3>7. QED
        BY <3>4, <3>5, <3>6, Zenon DEF SchedInv
    <2>3. QED
      BY <2>1, <2>2, Zenon
  <1>3. CASE device_interrupt
    <2>1. UNCHANGED <<current, destruction_req, thread_ticks, intr, level>>
      BY <1>3, Zenon DEF device_interrupt
    <2>2. CASE \E t \in Thread : Wakeable(t) /\ thread_unblock(t)
      BY <1>1, <2>1, <2>2, WakeInductive, Zenon DEF Wakeable
    <2>3. CASE UNCHANGED <<ready_list, status>>
      <3>1. SchedTypeOK'
        BY <1>1, <2>1, <2>3, Zenon DEF SchedInv, SchedTypeOK
      <3>2. SchedSafe'
        BY <1>1, <2>1, <2>3, Zenon DEF SchedInv, SchedSafe, OneRunning, ReadyListExact, DeadQueued, PermanentThreads
      <3>3. BootOrder'
        BY <1>1, <2>1, <2>3, Zenon DEF SchedInv, BootOrder
      <3>4. QED
        BY <3>1, <3>2, <3>3, Zenon DEF SchedInv
    <2>4. QED
      BY <1>3, <2>2, <2>3, Zenon DEF device_interrupt
  <1>4. QED
    BY <1>2, <1>3, Zenon

\* Whatever thread.h operations the other threads call, the invariant holds.
LEMMA ClientInductive == SchedInv /\ Client => SchedInv'
  <1> SUFFICES ASSUME SchedInv, Client PROVE SchedInv'
    OBVIOUS
  <1> USE SchedulerAssumption
  <1>0. /\ InClient /\ UNCHANGED <<idle_thread, boot, idle_started, idle_pc>>
    BY Zenon DEF Client, client_set_level, client_create, client_unblock, client_block, client_yield, thread_exit
  <1>1. current # IdlePage /\ boot = "done" /\ idle_thread = IdlePage
    BY <1>0, Zenon DEF InClient, SchedInv, SchedTypeOK, SchedSafe, OneRunning, BootOrder
  <1>2. ASSUME NEW lv \in BOOLEAN, client_set_level(lv) PROVE SchedInv'
    <2>1. /\ intr' = lv
          /\ UNCHANGED <<status, ready_list, current, destruction_req, thread_ticks, level>>
      BY <1>2, Zenon DEF client_set_level
    <2>2. SchedTypeOK'
      BY <1>0, <2>1, Zenon DEF SchedInv, SchedTypeOK
    <2>3. SchedSafe'
      BY <1>0, <2>1, Zenon DEF SchedInv, SchedSafe, OneRunning, ReadyListExact, DeadQueued, PermanentThreads
    <2>4. BootOrder'
      BY <1>0, <1>1, <2>1, Zenon DEF SchedInv, BootOrder
    <2>5. QED
      BY <2>2, <2>3, <2>4, Zenon DEF SchedInv
  <1>3. ASSUME NEW t \in Thread, client_create(t) PROVE SchedInv'
    <2>1. /\ status[t] = "none" /\ t # IdlePage
          /\ level' = [level EXCEPT ![t] = TRUE]
          /\ UNCHANGED <<ready_list, current, destruction_req, thread_ticks, intr>>
      BY <1>3, Zenon DEF client_create
    <2>2. /\ status' \in [Thread -> Status]
          /\ \A u \in Thread : status'[u] = IF u = t THEN "blocked" ELSE status[u]
      BY <1>3, Zenon DEF client_create, SchedInv, SchedTypeOK, Status
    <2>3. SchedTypeOK'
      BY <1>0, <2>1, <2>2, Zenon DEF SchedInv, SchedTypeOK
    <2>4. SchedSafe'
      BY <1>0, <2>1, <2>2, Zenon DEF SchedInv, SchedSafe, OneRunning, ReadyListExact, DeadQueued, PermanentThreads
    <2>5. BootOrder'
      BY <1>0, <1>1, <2>1, <2>2, Zenon DEF SchedInv, BootOrder
    <2>6. QED
      BY <2>3, <2>4, <2>5, Zenon DEF SchedInv
  <1>4. ASSUME NEW t \in Thread, client_unblock(t) PROVE SchedInv'
    BY <1>0, <1>4, WakeInductive, Zenon DEF client_unblock, Wakeable
  <1>5. CASE client_block
    <2>1. thread_block(FALSE)
      BY <1>5, Zenon DEF client_block
    <2>2. Switched([status EXCEPT ![current] = "blocked"])
      BY <1>0, <1>1, <2>1, BlockStep, Zenon
    <2>3. QED
      BY <1>0, <1>1, <2>2, SwitchInductive, Zenon DEF SchedInv, SchedTypeOK, SchedSafe, PermanentThreads
  <1>6. CASE client_yield
    <2>1. thread_yield(intr) /\ intr \in BOOLEAN
      BY <1>6, Zenon DEF client_yield, SchedInv, SchedTypeOK
    <2>2. QED
      BY <1>0, <1>1, <2>1, YieldInductive, Zenon
  <1>7. CASE thread_exit
    <2> DEFINE st == [t \in Thread |-> IF t \in Range(destruction_req) THEN "none"
                                       ELSE IF t = current THEN "dying" ELSE status[t]]
    <2>1. do_schedule("dying", ready_list, level)
      BY <1>7, Zenon DEF thread_exit
    <2>2. ready_list \in Seq(Thread) /\ level \in [Thread -> BOOLEAN] /\ IsInjective(ready_list)
      BY Zenon DEF SchedInv, SchedTypeOK, SchedSafe, ReadyListExact
    <2>3. idle_thread # NULL
      BY <1>1, Zenon
    <2>4. Switched(st)
      BY <1>0, <1>1, <2>1, <2>2, <2>3, DoScheduleStep, Zenon
    <2>5. /\ \A t \in Thread :
              st[t] = status[t] \/ t = current \/ (status[t] = "dying" /\ t # initial_thread)
          /\ st[initial_thread] # "none"
      BY Zenon DEF SchedInv, SchedSafe, DeadQueued, PermanentThreads
    <2> HIDE DEF st
    <2>6. QED
      BY <1>0, <1>1, <2>4, <2>5, SwitchInductive, Zenon
  <1>8. QED
    BY <1>2, <1>3, <1>4, <1>5, <1>6, <1>7, Zenon DEF Client

\* Initially, when main() runs alone.
LEMMA SchedInitial == SchedInit => SchedInv
  <1> SUFFICES ASSUME SchedInit PROVE SchedInv
    OBVIOUS
  <1> USE SchedulerAssumption DEF SchedInit
  <1>1. SchedTypeOK
    <2>1. thread_ticks \in 0 .. TIME_SLICE - 1
      OBVIOUS
    <2>2. status \in [Thread -> Status] /\ level \in [Thread -> BOOLEAN]
      BY Zenon DEF Status
    <2>3. QED
      BY <2>1, <2>2, EmptyList, Zenon DEF SchedTypeOK
  <1>2. SchedSafe
    BY EmptyList, Zenon DEF SchedSafe, OneRunning, ReadyListExact, DeadQueued, PermanentThreads
  <1>3. BootOrder
    BY Zenon DEF BootOrder
  <1>4. QED
    BY <1>1, <1>2, <1>3, Zenon DEF SchedInv

\* Every step of the scheduler keeps its invariant.
LEMMA SchedInductive == SchedInv /\ [SchedNext]_schedvars => SchedInv'
  <1>1. SchedInv /\ UNCHANGED schedvars => SchedInv'
    BY DEF schedvars, SchedInv, SchedTypeOK, SchedSafe, OneRunning, ReadyListExact, DeadQueued,
           PermanentThreads, BootOrder
  <1>2. QED
    BY <1>1, BootInductive, IdleInductive, InterruptInductive, ClientInductive, Zenon DEF SchedNext

-----------------------------------------------------------------------------
\* SchedInv is an invariant of the scheduler for every set of threads and every
\* TIME_SLICE; it contains the type invariant and SchedSafe.
THEOREM SchedInvariant == SchedSpec => []SchedInv
  BY SchedInitial, SchedInductive, PTL DEF SchedSpec

\* Every value of every variable is one the C types and the ASSERTs of thread.c
\* allow; in particular next_thread_to_run() never returns a null idle_thread.
THEOREM SchedTypeCorrect == SchedSpec => []SchedTypeOK
  BY SchedInvariant, PTL DEF SchedInv

\* One running thread, an exact ready list, no dead thread lost or freed twice.
THEOREM SchedSafety == SchedSpec => []SchedSafe
  BY SchedInvariant, PTL DEF SchedInv

-----------------------------------------------------------------------------
(* Action properties.                                                      *)

\* Only do_schedule() frees pages, and only those in destruction_req.
LEMMA FreedWasQueued ==
    ASSUME SchedInv, SchedNext, NEW t \in Thread, status[t] # "none", status'[t] = "none"
    PROVE  t \in Range(destruction_req)
  <1> USE SchedulerAssumption DEF SchedInv, SchedTypeOK
  <1>1. CASE Boot
    BY <1>1, Zenon DEF Boot, thread_start_create, thread_start_enable, thread_start_wait, thread_block, schedule
  <1>2. CASE Idle
    BY <1>2, Zenon DEF Idle, idle_entry, idle_up, idle_block, thread_unblock, thread_block, schedule
  <1>3. CASE timer_interrupt
    <2>1. thread_yield(TRUE) \/ UNCHANGED status
      BY <1>3, Zenon DEF timer_interrupt
    <2>2. QED
      BY <2>1, Zenon DEF thread_yield, do_schedule, schedule
  <1>4. CASE device_interrupt
    BY <1>4, Zenon DEF device_interrupt, thread_unblock
  <1>5. CASE Client
    BY <1>5, Zenon DEF Client, client_set_level, client_create, client_unblock, client_block,
                client_yield, thread_exit, thread_unblock, thread_block, thread_yield,
                do_schedule, schedule
  <1>6. QED
    BY <1>1, <1>2, <1>3, <1>4, <1>5, Zenon DEF SchedNext

\* thread_exit() never frees a page that a stack in use lies in, however many
\* threads exit, and in whatever order they are preempted.
THEOREM NoRugIsPulled == SchedSpec => NoRugPulled
  <1> DEFINE Freed == \A t \in Thread :
                        status[t] # "none" /\ status'[t] = "none" =>
                          /\ status[t] = "dying"
                          /\ t # current
                          /\ t # current'
  <1>1. SchedInv /\ SchedInv' /\ [SchedNext]_schedvars => [Freed]_schedvars
    <2> SUFFICES ASSUME SchedInv, SchedInv', SchedNext, NEW t \in Thread,
                        status[t] # "none", status'[t] = "none"
                 PROVE  status[t] = "dying" /\ t # current /\ t # current'
      OBVIOUS
    <2>1. t \in Range(destruction_req)
      BY FreedWasQueued, Zenon
    <2>2. status[t] = "dying" /\ t # current
      BY <2>1, Zenon DEF SchedInv, SchedSafe, DeadQueued, OneRunning
    <2>3. t # current'
      BY Zenon DEF SchedInv, SchedSafe, OneRunning
    <2>4. QED
      BY <2>2, <2>3, Zenon
  <1>2. QED
    BY <1>1, SchedInvariant, PTL DEF SchedSpec, NoRugPulled

\* What any step does to the ready list: threads enter at the back and leave
\* at the front.
LEMMA ReadyListStep ==
    ASSUME SchedInv, SchedNext
    PROVE  Closer(ready_list, ready_list')
  <1> USE SchedulerAssumption
  <1>1. /\ ready_list \in Seq(Thread) /\ IsInjective(ready_list)
        /\ current \in Thread \ Range(ready_list)
    BY Zenon DEF SchedInv, SchedTypeOK, SchedSafe, OneRunning, ReadyListExact
  <1>2. ASSUME NEW t \in Thread, thread_unblock(t), status[t] \in {"blocked", "none"}
        PROVE  Closer(ready_list, ready_list')
    <2>1. t \notin Range(ready_list)
      BY <1>2, Zenon DEF SchedInv, SchedSafe, ReadyListExact
    <2>2. QED
      BY <1>1, <1>2, <2>1, FifoOrder, Zenon DEF thread_unblock
  <1>3. ASSUME NEW lv, thread_block(lv) PROVE Closer(ready_list, ready_list')
    BY <1>1, <1>3, FifoOrder, Zenon DEF thread_block, schedule
  <1>4. ASSUME NEW lv, thread_yield(lv) PROVE Closer(ready_list, ready_list')
    <2>1. Append(ready_list, current) # <<>>
      BY <1>1, PushBack, Zenon
    <2>2. QED
      BY <1>1, <1>4, <2>1, FifoOrder, Zenon DEF thread_yield, do_schedule, schedule
  <1>5. UNCHANGED ready_list => Closer(ready_list, ready_list')
    BY <1>1, FifoOrder, Zenon
  <1>6. CASE Boot
    <2>1. CASE thread_start_create
      <3>1. status[IdlePage] = "none" /\ thread_unblock(IdlePage)
        BY <2>1, Zenon DEF thread_start_create, thread_unblock, SchedInv, BootOrder
      <3>2. QED
        BY <3>1, <1>2, Zenon
    <2>2. CASE thread_start_enable
      BY <2>2, <1>5, Zenon DEF thread_start_enable
    <2>3. CASE thread_start_wait
      BY <2>3, <1>3, <1>5, Zenon DEF thread_start_wait
    <2>4. QED
      BY <1>6, <2>1, <2>2, <2>3, Zenon DEF Boot
  <1>7. CASE Idle
    BY <1>7, <1>2, <1>3, <1>5, Zenon DEF Idle, idle_entry, idle_up, idle_block
  <1>8. CASE timer_interrupt
    BY <1>8, <1>4, <1>5, Zenon DEF timer_interrupt
  <1>9. CASE device_interrupt
    BY <1>9, <1>2, <1>5, Zenon DEF device_interrupt, Wakeable
  <1>10. CASE Client
    <2>1. CASE thread_exit
      BY <1>1, <2>1, FifoOrder, Zenon DEF thread_exit, do_schedule, schedule
    <2>2. CASE ~thread_exit
      BY <1>10, <2>2, <1>2, <1>3, <1>4, <1>5, Zenon
         DEF Client, client_set_level, client_create, client_unblock, client_block, client_yield, Wakeable
    <2>3. QED
      BY <2>1, <2>2, Zenon
  <1>11. QED
    BY <1>6, <1>7, <1>8, <1>9, <1>10, Zenon DEF SchedNext

\* Scheduling is first come, first served for every number of threads.
THEOREM Fifo == SchedSpec => NoOvertaking
  <1>1. SchedInv /\ [SchedNext]_schedvars => [Closer(ready_list, ready_list')]_schedvars
    BY ReadyListStep, Zenon
  <1>2. QED
    BY <1>1, SchedInvariant, PTL DEF SchedSpec, NoOvertaking, Closer

=============================================================================
