----------------------------- MODULE SynchCalls -----------------------------
(***************************************************************************)
(* Proofs about Synch, continued: what locks and condition variables       *)
(* guarantee, which steps change a semaphore, that the calls respect the   *)
(* preconditions of the scheduler, and what steps do to the threads: who   *)
(* sleeps, who lives, which thread is being created.                       *)
(***************************************************************************)
EXTENDS SynchSteps

-----------------------------------------------------------------------------
(* Locks.                                                                  *)

\* What a step may do with lock l: nothing, take it, or give it back.
Same(l) ==
    /\ value'[l] = value[l]
    /\ \A t \in Thread : t = current =>
         /\ Has(t, l)' <=> Has(t, l)
         /\ pc'[t] \in {"acquired", "release", "wait_up"} /\ arg'[t] = l => holder'[l] = NULL

Gets(l) ==
    /\ value[l] > 0 /\ value'[l] = value[l] - 1 /\ holder' = holder
    /\ pc'[current] = "acquired" /\ arg'[current] = l

Gives(l) ==
    /\ value'[l] = value[l] + 1 /\ holder' = holder
    /\ pc[current] \in {"release", "wait_up"} /\ arg[current] = l
    /\ pc'[current] \notin {"acquired", "release", "wait_up"}

\* Each of them keeps the lock exclusive.
LEMMA LockCases ==
    ASSUME SynchInv, CallStep, \A l \in Lock : Same(l) \/ Gets(l) \/ Gives(l)
    PROVE  LockExclusion'
  <1>1. current \in Thread /\ NULL \notin Thread /\ holder \in [Lock -> Thread \cup {NULL}]
    BY SchedulerAssumption, Zenon DEF SynchInv, SchedInv, SchedTypeOK, SynchTypeOK
  <1>2. holder' \in [Lock -> Thread \cup {NULL}]
    BY TypesKept, Zenon DEF SynchTypeOK
  <1>3. \A t \in Thread \ {current}, l \in Lock :
          /\ Has(t, l)' <=> Has(t, l)
          /\ pc'[t] = pc[t] /\ arg'[t] = arg[t] /\ (holder'[l] = t <=> holder[l] = t)
    BY CurrentOnly, Zenon DEF Has
  <1> SUFFICES ASSUME NEW l \in Lock
               PROVE  /\ value'[l] = IF \E t \in Thread : Has(t, l)' THEN 0 ELSE 1
                      /\ \A t, u \in Thread : Has(t, l)' /\ Has(u, l)' => t = u
                      /\ \A t \in Thread : pc'[t] \in {"acquired", "release", "wait_up"} /\ arg'[t] = l =>
                                           holder'[l] = NULL
    BY Zenon DEF LockExclusion
  <1>4. /\ value[l] = IF \E t \in Thread : Has(t, l) THEN 0 ELSE 1
        /\ \A t, u \in Thread : Has(t, l) /\ Has(u, l) => t = u
        /\ \A t \in Thread : pc[t] \in {"acquired", "release", "wait_up"} /\ arg[t] = l => holder[l] = NULL
    BY Zenon DEF SynchInv, LockExclusion
  <1>5. CASE Same(l)
    <2>1. \A t \in Thread : Has(t, l)' <=> Has(t, l)
      BY <1>3, <1>5, Zenon DEF Same
    <2>2. value'[l] = value[l]
      BY <1>5, Zenon DEF Same
    <2>3. ASSUME NEW t \in Thread, pc'[t] \in {"acquired", "release", "wait_up"}, arg'[t] = l
          PROVE  holder'[l] = NULL
      <3>1. CASE t = current
        BY <1>5, <2>3, <3>1, Zenon DEF Same
      <3>2. CASE t # current
        <4>1. Has(t, l) /\ holder[l] = NULL
          BY <1>3, <1>4, <2>3, <3>2, Zenon DEF Has
        <4>2. ~Has(current, l)
          BY <1>1, <1>4, <3>2, <4>1, Zenon
        <4>3. \A u \in Thread : u = current => holder'[l] # u
          BY <2>1, <4>2, Zenon DEF Has
        <4>4. \A u \in Thread : holder'[l] # u
          BY <1>1, <1>3, <4>1, <4>3, Zenon
        <4>5. QED
          BY <1>2, <4>4, Zenon
      <3>3. QED
        BY <3>1, <3>2, Zenon
    <2>4. QED
      BY <1>4, <2>1, <2>2, <2>3, Zenon
  <1>6. CASE Gets(l)
    <2>1. value[l] = 1 /\ value'[l] = 0 /\ \A t \in Thread : ~Has(t, l)
      BY <1>4, <1>6 DEF Gets
    <2>2. \A t \in Thread : Has(t, l)' <=> t = current
      BY <1>1, <1>3, <1>6, <2>1, Zenon DEF Has, Gets
    <2>3. holder'[l] = NULL
      BY <1>1, <1>6, <2>1, Zenon DEF Gets, Has
    <2>4. QED
      BY <1>1, <2>1, <2>2, <2>3, Zenon
  <1>7. CASE Gives(l)
    <2>1. Has(current, l) /\ holder[l] = NULL
      BY <1>1, <1>4, <1>7, Zenon DEF Gives, Has
    <2>2. value[l] = 0 /\ value'[l] = 1
      BY <1>1, <1>4, <1>7, <2>1 DEF Gives
    <2>3. \A t \in Thread \ {current} : ~Has(t, l)'
      BY <1>1, <1>3, <1>4, <2>1, Zenon
    <2>4. \A t \in Thread : t = current => ~Has(t, l)'
      BY <1>1, <1>7, <2>1, Zenon DEF Gives, Has
    <2>5. \A t \in Thread : ~Has(t, l)'
      BY <2>3, <2>4, Zenon
    <2>6. QED
      BY <2>2, <2>5, Zenon DEF Has
  <1>8. QED
    BY <1>5, <1>6, <1>7, Zenon

\* At most one thread has a lock, whichever step is taken.
LEMMA LocksKept ==
    ASSUME SynchInv, CallStep
    PROVE  LockExclusion'
  <1> USE SynchAssumption
  <1>0. /\ value \in [Semaphore -> Nat] /\ pc \in [Thread -> Label]
        /\ arg \in [Thread -> Semaphore \cup {NULL}] /\ holder \in [Lock -> Thread \cup {NULL}]
        /\ NULL \notin Thread /\ current \in Thread /\ CallOK(current) /\ Lock \subseteq Semaphore
    BY SchedulerAssumption, Zenon DEF SynchInv, SynchTypeOK, SchedInv, SchedTypeOK, Semaphore
  <1>1. \A l \in Lock : pc[current] \in {"acquired", "release", "wait_up"} /\ arg[current] = l => holder[l] = NULL
    BY <1>0, Zenon DEF SynchInv, LockExclusion
  <1> SUFFICES ASSUME NEW l \in Lock
               PROVE  Same(l) \/ Gets(l) \/ Gives(l)
    BY LockCases, Zenon
  <1>2. CASE Begin
    <2>1. CASE \E s \in Sema : call_sema_down(s) \/ sema_try_down(s)
      <3>1. Same(l)
        BY <1>0, <2>1 DEF call_sema_down, sema_try_down, Call, At, Goto, Same, Has
      <3>2. QED
        BY <3>1, Zenon
    <2>2. ASSUME NEW m \in Lock \ {tid_lock}, call_lock_acquire(m) PROVE Same(l)
      BY <1>0, <2>2, Zenon DEF call_lock_acquire, Call, At, Goto, Same, Has
    <2>3. ASSUME NEW m \in Lock \ {tid_lock}, call_lock_try_acquire(m) PROVE Same(l) \/ Gets(l)
      <3>1. CASE m = l
        BY <1>0, <2>3, <3>1, Zenon DEF call_lock_try_acquire, Goto, Gets
      <3>2. CASE m # l
        BY <1>0, <2>3, <3>2, Zenon DEF call_lock_try_acquire, Call, At, Goto, Same, Has
      <3>3. QED
        BY <3>1, <3>2, Zenon
    <2>4. ASSUME NEW m \in Lock \ {tid_lock}, call_lock_release(m) PROVE Same(l)
      BY <1>0, <2>4, Zenon DEF call_lock_release, Call, At, Goto, Same, Has, lock_held_by_current_thread
    <2>5. ASSUME NEW c \in Cond, call_cond_wait(c) PROVE Same(l)
      BY <1>0, <2>5, Zenon DEF call_cond_wait, Call, At, Goto, Same, Has
    <2>6. ASSUME NEW c \in Cond, call_cond_broadcast(c) PROVE Same(l)
      BY <1>0, <2>6, Zenon DEF call_cond_broadcast, Call, At, Goto, Same, Has
    <2>7. QED
      BY <1>2, <2>1, <2>2, <2>3, <2>4, <2>5, <2>6, Zenon DEF Begin
  <1>3. CASE Work
    <2>1. CASE acquired
      BY <1>0, <1>1, <2>1, Zenon DEF acquired, At, Goto, Same, Has, CallOK
    <2>2. CASE wait_release
      BY <1>0, <2>2, Zenon DEF wait_release, At, Goto, Same, Has, CallOK
    <2>3. CASE broadcast_end
      BY <1>0, <2>3, Zenon DEF broadcast_end, At, Goto, Same, Has
    <2>4. CASE tid_read \/ tid_inc
      BY <1>0, <2>4, Zenon DEF tid_read, tid_inc, At, Goto, Same, Has
    <2>5. CASE tid_release
      BY <1>0, <2>5, Zenon DEF tid_release, At, Goto, Same, Has, CallOK
    <2>6. QED
      BY <1>3, <2>1, <2>2, <2>3, <2>4, <2>5, Zenon DEF Work
  <1>4. CASE start
    BY <1>0, <1>4, Zenon DEF start, At, Goto, Same, Has
  <1>5. CASE \E t \in Thread : call_thread_create(t)
    BY <1>0, <1>5, Zenon DEF call_thread_create, Call, At, Goto, Same, Has
  <1>6. CASE \E c \in Cond, label \in Label : Pop(c, label)
    BY <1>0, <1>6, Zenon DEF Pop, Goto, Same, Has
  <1>7. ASSUME NEW s \in Semaphore, NEW label \in Label, Down(s, label) PROVE Same(l) \/ Gets(l)
    <2>1. CASE Sleeps(s)
      BY <1>0, <1>1, <1>7, <2>1, Zenon DEF Sleeps, Down, Same, Has
    <2>2. CASE Takes(s, label)
      <3>1. CASE s = l
        BY <1>0, <1>7, <2>2, <3>1 DEF Takes, Down, At, Goto, Gets, CallOK
      <3>2. CASE s # l
        BY <1>0, <1>7, <2>2, <3>2, Zenon DEF Takes, Down, At, Goto, Same, Has
      <3>3. QED
        BY <3>1, <3>2, Zenon
    <2>3. QED
      BY <1>7, <2>1, <2>2, SemaDown, Zenon DEF Down, At
  <1>8. ASSUME NEW s \in Semaphore, Up(s) PROVE Same(l) \/ Gives(l)
    <2>1. value'[s] = value[s] + 1 /\ \A r \in Semaphore \ {s} : value'[r] = value[r]
      BY <1>8, SemaUp, Zenon DEF Up
    <2>2. CASE s = l
      <3>1. pc[current] \in {"release", "wait_up"} /\ arg[current] = l
        BY <1>0, <1>8, <2>2, Zenon DEF Up, At, CallOK
      <3>2. pc'[current] \in {"start", "client", "wait_down"} /\ holder' = holder
        BY <1>0, <1>8, <2>2, <3>1, Zenon DEF Up, At, Goto
      <3>3. QED
        BY <2>1, <2>2, <3>1, <3>2, Zenon DEF Gives
    <2>3. CASE s # l
      <3>1. value'[l] = value[l] /\ holder' = holder /\ arg' = arg
        BY <1>0, <1>8, <2>1, <2>3, Zenon DEF Up
      <3>2. CASE pc' = pc
        BY <1>0, <1>1, <3>1, <3>2, Zenon DEF Same, Has
      <3>3. CASE s = arg[current]
        <4>1. pc'[current] \notin {"acquired", "release", "wait_up"} \/ pc' = pc
          BY <1>0, <1>8, <2>3, Zenon DEF Up, At, Goto
        <4>2. QED
          BY <1>0, <1>1, <2>3, <3>1, <3>2, <3>3, <4>1, Zenon DEF Same, Has
      <3>4. QED
        BY <1>8, <3>2, <3>3, Zenon DEF Up
    <2>4. QED
      BY <2>2, <2>3, Zenon
  <1>9. QED
    BY <1>2, <1>3, <1>4, <1>5, <1>6, <1>7, <1>8, Zenon DEF CallStep

-----------------------------------------------------------------------------
(* Condition variables.                                                    *)

\* Who may be on a condition's list: nobody who can begin a call.
LEMMA CondFacts ==
    ASSUME SynchInv
    PROVE  /\ \A c \in Cond : \A t \in Range(cond_waiters[c]) :
                /\ t \in Thread /\ InWait(t) /\ arg[t] = LockOf[c] /\ value[t] = 0
                /\ \A u \in Thread : ~Signals(u, t)
           /\ \A c, d \in Cond : c # d => Range(cond_waiters[c]) \cap Range(cond_waiters[d]) = {}
  <1>1. CondListsExact /\ WaiterAlive
    BY Zenon DEF SynchInv
  <1>2. \A c \in Cond : Range(cond_waiters[c]) \subseteq Thread
    BY ListedThreads, Zenon
  <1>3. QED
    BY <1>1, <1>2, Zenon DEF CondListsExact, WaiterAlive

\* The lists themselves.
LEMMA CondTypes ==
    ASSUME SynchInv
    PROVE  /\ \A c \in Cond : /\ cond_waiters[c] \in Seq(Thread) /\ IsInjective(cond_waiters[c])
                              /\ LockOf[c] \in Lock
           /\ current \in Thread
  <1>1. CondListsExact /\ cond_waiters \in [Cond -> Seq(Thread)]
    BY Zenon DEF SynchInv, SynchTypeOK
  <1>2. current \in Thread
    BY Zenon DEF SynchInv, SchedInv, SchedTypeOK
  <1>3. QED
    BY <1>1, <1>2, SynchAssumption, Zenon DEF CondListsExact

\* A thread about to be woken by cond_signal() waits, and has one signaller.
LEMMA SignalFacts ==
    ASSUME SynchInv
    PROVE  /\ \A t, u \in Thread : Signals(u, t) => pc[t] = "wait_down" /\ value[t] = 0
           /\ \A t, u, w \in Thread : Signals(u, t) /\ Signals(w, t) => u = w
  <1>1. WaiterAlive
    BY Zenon DEF SynchInv
  <1>2. QED
    BY <1>1, Zenon DEF WaiterAlive

\* cond_signal() finds its waiter asleep, or about to sleep, on its own
\* semaphore: the waiter has released the lock that the signaller holds.
LEMMA SignalledWaits ==
    ASSUME SynchInv, NEW c \in Cond, NEW label, Pop(c, label)
    PROVE  /\ Head(cond_waiters[c]) \in Range(cond_waiters[c])
           /\ pc[Head(cond_waiters[c])] = "wait_down"
           /\ Head(cond_waiters[c]) # current
           /\ Tail(cond_waiters[c]) \in Seq(Thread) /\ IsInjective(Tail(cond_waiters[c]))
           /\ Range(Tail(cond_waiters[c])) = Range(cond_waiters[c]) \ {Head(cond_waiters[c])}
  <1> DEFINE t == Head(cond_waiters[c])
  <1>1. cond_waiters[c] # <<>> /\ holder[LockOf[c]] = current /\ pc[current] \in {"client", "broadcast"}
    BY Zenon DEF Pop
  <1>2. /\ t \in Range(cond_waiters[c])
        /\ Tail(cond_waiters[c]) \in Seq(Thread) /\ IsInjective(Tail(cond_waiters[c]))
        /\ Range(Tail(cond_waiters[c])) = Range(cond_waiters[c]) \ {t}
    BY <1>1, CondTypes, PopFront, Zenon
  <1> HIDE DEF t
  <1>3. /\ t \in Thread /\ InWait(t) /\ arg[t] = LockOf[c] /\ LockOf[c] \in Lock
        /\ current \in Thread /\ t # current
    BY <1>1, <1>2, CondFacts, CondTypes, Zenon DEF InWait
  <1>4. pc[t] # "wait_release"
    <2>1. CallOK(t)
      BY <1>3, Zenon DEF SynchInv
    <2>2. QED
      BY <1>1, <1>3, <2>1, Zenon DEF CallOK
  <1>5. pc[t] # "wait_up"
    <2>1. LockExclusion
      BY Zenon DEF SynchInv
    <2>2. QED
      BY <1>1, <1>3, <2>1, Zenon DEF LockExclusion, Has
  <1>6. QED
    BY <1>2, <1>3, <1>4, <1>5, Zenon DEF InWait, t

\* A step changes at most one list: it appends the thread that calls
\* cond_wait(), or removes the first waiter.
LEMMA CondListsKept ==
    ASSUME SynchInv, CallStep
    PROVE  CondListsExact'
  <1>0. /\ cond_waiters \in [Cond -> Seq(Thread)] /\ arg \in [Thread -> Semaphore \cup {NULL}]
        /\ \A t \in Thread \ {current} : arg'[t] = arg[t]
    BY CurrentOnly, Zenon DEF SynchInv, SynchTypeOK
  <1>1. ASSUME UNCHANGED <<cond_waiters, arg>> PROVE CondListsExact'
    BY <1>1, Zenon DEF SynchInv, CondListsExact
  <1>2. ASSUME UNCHANGED cond_waiters, ~InWait(current) PROVE CondListsExact'
    BY <1>0, <1>2, CondFacts, CondTypes, Zenon DEF CondListsExact
  <1>3. ASSUME NEW c \in Cond, call_cond_wait(c) PROVE CondListsExact'
    <2>1. /\ cond_waiters' = [cond_waiters EXCEPT ![c] = Append(@, current)]
          /\ arg' = [arg EXCEPT ![current] = LockOf[c]] /\ pc[current] = "client"
      BY <1>3, Zenon DEF call_cond_wait, Call, At
    <2>2. \A d \in Cond : current \notin Range(cond_waiters[d])
      BY <2>1, CondFacts, Zenon DEF InWait
    <2>3. /\ Range(cond_waiters'[c]) = Range(cond_waiters[c]) \cup {current}
          /\ IsInjective(cond_waiters'[c])
      BY <1>0, <2>1, <2>2, CondTypes, PushBack
    <2>4. \A d \in Cond \ {c} : cond_waiters'[d] = cond_waiters[d]
      BY <1>0, <2>1, Zenon
    <2>5. \A d \in Cond : IsInjective(cond_waiters'[d]) /\ \A t \in Range(cond_waiters'[d]) : arg'[t] = LockOf[d]
      BY <1>0, <2>1, <2>2, <2>3, <2>4, CondFacts, CondTypes
    <2>6. \A d, e \in Cond : d # e => Range(cond_waiters'[d]) \cap Range(cond_waiters'[e]) = {}
      <3>1. \A d, e \in Cond : d # e => Range(cond_waiters[d]) \cap Range(cond_waiters[e]) = {}
        BY CondFacts, Zenon
      <3>2. \A d \in Cond \ {c} : Range(cond_waiters'[d]) = Range(cond_waiters[d])
        BY <2>4, Zenon
      <3>3. QED
        BY <2>2, <2>3, <3>1, <3>2
    <2>7. QED
      BY <2>5, <2>6, Zenon DEF CondListsExact
  <1>4. ASSUME NEW c \in Cond, NEW label \in Label, Pop(c, label) PROVE CondListsExact'
    <2>1. /\ Range(cond_waiters'[c]) = Range(cond_waiters[c]) \ {Head(cond_waiters[c])}
          /\ IsInjective(cond_waiters'[c])
          /\ \A d \in Cond \ {c} : cond_waiters'[d] = cond_waiters[d]
      BY <1>0, <1>4, SignalledWaits, Zenon DEF Pop
    <2>2. \A d \in Cond : current \notin Range(cond_waiters[d])
      BY <1>4, CondFacts, Zenon DEF InWait, Pop
    <2>3. \A d \in Cond : IsInjective(cond_waiters'[d]) /\ \A t \in Range(cond_waiters'[d]) : arg'[t] = LockOf[d]
      BY <1>0, <2>1, <2>2, CondFacts, CondTypes
    <2>4. \A d, e \in Cond : d # e => Range(cond_waiters'[d]) \cap Range(cond_waiters'[e]) = {}
      BY <2>1, CondFacts, Zenon
    <2>5. QED
      BY <2>3, <2>4, Zenon DEF CondListsExact
  <1>5. CASE Begin
    BY <1>2, <1>3, <1>5, BeginFacts, Zenon DEF InWait
  <1>6. CASE Work \/ start \/ \E s \in Semaphore : Up(s)
    BY <1>1, <1>6, WorkFacts, Zenon DEF start, Up
  <1>7. CASE \E t \in Thread : call_thread_create(t)
    BY <1>2, <1>7, Zenon DEF call_thread_create, Call, At, InWait
  <1>8. CASE \E s \in Semaphore, label \in Label : Down(s, label)
    BY <1>1, <1>8, Zenon DEF Down
  <1>9. QED
    BY <1>4, <1>5, <1>6, <1>7, <1>8, Zenon DEF CallStep

\* Which thread's semaphore a step changes, and which labels.
LEMMA ElemSteps ==
    ASSUME SynchInv, CallStep, NEW t \in Thread
    PROVE  \/ value'[t] = value[t]
           \/ t = current /\ value'[t] = 0 /\ \E c \in Cond : call_cond_wait(c)
           \/ t = current /\ value[t] > 0
           \/ Signals(current, t) /\ pc'[current] \in {"client", "broadcast"}
  <1> USE SynchAssumption
  <1>0. /\ value \in [Semaphore -> Nat] /\ pc \in [Thread -> Label] /\ current \in Thread
        /\ t \in Semaphore /\ t \notin Sema /\ t \notin Lock /\ CallOK(current)
    BY Zenon DEF SynchInv, SynchTypeOK, SchedInv, SchedTypeOK, Semaphore
  <1>1. CASE Begin
    <2>1. CASE \E c \in Cond : call_cond_wait(c)
      <3>1. PICK c \in Cond : call_cond_wait(c)
        BY <2>1, Zenon
      <3>2. value' = [value EXCEPT ![current] = 0]
        BY <3>1, Zenon DEF call_cond_wait
      <3>3. QED
        BY <1>0, <3>1, <3>2, Zenon
    <2>2. CASE ~\E c \in Cond : call_cond_wait(c)
      BY <1>0, <1>1, <2>2, BeginFacts, Zenon
    <2>3. QED
      BY <2>1, <2>2, Zenon
  <1>2. CASE Work \/ start \/ \E u \in Thread : call_thread_create(u)
    BY <1>2, WorkFacts, Zenon DEF start, call_thread_create
  <1>3. CASE \E c \in Cond, label \in Label : Pop(c, label)
    BY <1>3, Zenon DEF Pop
  <1>4. ASSUME NEW s \in Semaphore, NEW label \in Label, Down(s, label)
        PROVE  value'[t] = value[t] \/ (t = current /\ value[t] > 0)
    <2>1. Sleeps(s) \/ Takes(s, label)
      BY <1>4, SemaDown, Zenon DEF Down, At
    <2>2. s = t => t = current
      BY <1>0, <1>4, Zenon DEF Down, At, CallOK
    <2>3. QED
      BY <1>0, <2>1, <2>2, Zenon DEF Sleeps, Takes
  <1>5. ASSUME NEW s \in Semaphore, Up(s)
        PROVE  \/ value'[t] = value[t]
               \/ Signals(current, t) /\ pc'[current] \in {"client", "broadcast"}
    <2>1. \A r \in Semaphore \ {s} : value'[r] = value[r]
      BY <1>5, SemaUp, Zenon DEF Up
    <2>2. CASE s = t
      BY <1>0, <1>5, <2>2, Zenon DEF Up, At, CallOK, Signals, Goto
    <2>3. QED
      BY <1>0, <2>1, <2>2, Zenon
  <1>6. QED
    BY <1>1, <1>2, <1>3, <1>4, <1>5, Zenon DEF CallStep

\* A thread becomes a signaller, or leaves cond_wait(), in these steps only.
LEMMA WaitSteps ==
    ASSUME SynchInv, CallStep, NEW t \in Thread, t = current
    PROVE  /\ pc'[t] \in {"signal", "broadcast_up"} =>
                \/ pc'[t] = pc[t] /\ arg'[t] = arg[t]
                \/ \E c \in Cond, label \in Label : Pop(c, label)
           /\ InWait(t) => \/ InWait(t)' /\ (pc[t] = "wait_down" => pc'[t] = "wait_down")
                           \/ pc[t] = "wait_down" /\ value[t] > 0
           /\ pc[t] \in {"signal", "broadcast_up"} =>
                \/ pc'[t] = pc[t] /\ arg'[t] = arg[t]
                \/ pc'[t] \in {"client", "broadcast"}
  <1>0. pc \in [Thread -> Label] /\ current \in Thread
    BY Zenon DEF SynchInv, SynchTypeOK, SchedInv, SchedTypeOK
  <1> USE DEF InWait
  <1>1. CASE Begin
    BY <1>0, <1>1, BeginFacts, Zenon DEF Goto
  <1>2. CASE Work
    <2>1. /\ pc[t] \in {"acquired", "wait_release", "broadcast", "tid", "tid_inc", "tid_release"}
          /\ pc'[t] \in {"client", "tid", "wait_up", "tid_inc", "tid_release", "release"}
      BY <1>0, <1>2, WorkFacts, Zenon DEF Goto
    <2>2. pc[t] = "wait_release" => pc'[t] = "wait_up"
      BY <1>0, <1>2, Zenon DEF Work, acquired, wait_release, broadcast_end, tid_read, tid_inc, tid_release, At, Goto
    <2>3. QED
      BY <2>1, <2>2, Zenon
  <1>3. CASE start \/ \E u \in Thread : call_thread_create(u)
    BY <1>0, <1>3, Zenon DEF start, call_thread_create, Call, At, Goto
  <1>4. CASE \E c \in Cond, label \in Label : Pop(c, label)
    BY <1>0, <1>4, Zenon DEF Pop, Goto
  <1>5. ASSUME NEW s \in Semaphore, NEW label \in Label, Down(s, label)
        PROVE  /\ UNCHANGED arg
               /\ \/ pc' = pc
                  \/ pc[t] \in {"down", "acquire"} /\ pc'[t] \in {"client", "acquired"}
                  \/ pc[t] = "wait_down" /\ pc'[t] = "acquire" /\ value[t] > 0
    <2>1. Sleeps(s) \/ Takes(s, label)
      BY <1>5, SemaDown, Zenon DEF Down, At
    <2>2. QED
      BY <1>0, <1>5, <2>1, Zenon DEF Down, At, Sleeps, Takes, Goto
  <1>6. CASE \E s \in Semaphore : Up(s)
    BY <1>0, <1>6, Zenon DEF Up, At, Goto
  <1>7. QED
    BY <1>1, <1>2, <1>3, <1>4, <1>5, <1>6, Zenon DEF CallStep

\* No semaphore_elem is left behind on a list or with a signaller.
LEMMA WaitersKept ==
    ASSUME SynchInv, CallStep
    PROVE  WaiterAlive'
  <1>0. /\ current \in Thread /\ cond_waiters \in [Cond -> Seq(Thread)] /\ value \in [Semaphore -> Nat]
        /\ pc \in [Thread -> Label] /\ arg \in [Thread -> Semaphore \cup {NULL}]
        /\ Thread \subseteq Semaphore
    BY Zenon DEF SynchInv, SynchTypeOK, SchedInv, SchedTypeOK, Semaphore
  <1>1. \A t \in Thread \ {current} : pc'[t] = pc[t] /\ arg'[t] = arg[t]
    BY CurrentOnly, Zenon
  <1>2. CASE \E c \in Cond, label \in Label : Pop(c, label)
    <2>1. PICK c \in Cond, label \in Label : Pop(c, label)
      BY <1>2, Zenon
    <2> DEFINE h == Head(cond_waiters[c])
    <2>2. /\ value' = value /\ pc'[current] \in {"signal", "broadcast_up"} /\ arg'[current] = h
          /\ ~InWait(current) /\ pc[current] \notin {"signal", "broadcast_up"}
      BY <1>0, <2>1, Zenon DEF Pop, Goto, InWait
    <2>3. /\ h \in Range(cond_waiters[c]) /\ pc[h] = "wait_down" /\ h # current /\ h \in Thread
          /\ \A d \in Cond : Range(cond_waiters'[d]) = Range(cond_waiters[d]) \ {h}
      <3>1. /\ h \in Range(cond_waiters[c]) /\ pc[h] = "wait_down" /\ h # current
            /\ Range(Tail(cond_waiters[c])) = Range(cond_waiters[c]) \ {h}
        BY <2>1, SignalledWaits, Zenon
      <3>2. \A d \in Cond : cond_waiters'[d] = IF d = c THEN Tail(cond_waiters[c]) ELSE cond_waiters[d]
        BY <1>0, <2>1, Zenon DEF Pop
      <3> HIDE DEF h
      <3>3. \A d \in Cond \ {c} : h \notin Range(cond_waiters[d])
        BY <3>1, CondFacts, Zenon
      <3>4. h \in Thread
        BY <3>1, CondFacts, Zenon
      <3>5. QED
        BY <3>1, <3>2, <3>3, <3>4, Zenon
    <2> HIDE DEF h
    <2>4. value[h] = 0 /\ \A u \in Thread : ~Signals(u, h)
      BY <2>3, CondFacts, Zenon
    <2>5. \A t, u \in Thread : Signals(u, t)' <=> Signals(u, t) \/ (u = current /\ t = h)
      BY <1>0, <1>1, <2>2, Zenon DEF Signals
    <2>6. \A t \in Thread : (InWait(t) => InWait(t)') /\ (pc[t] = "wait_down" => pc'[t] = "wait_down")
      BY <1>1, <2>2, Zenon DEF InWait
    <2>7. ASSUME NEW t \in Thread, NEW d \in Cond, t \in Range(cond_waiters'[d])
          PROVE  InWait(t)' /\ value'[t] = 0 /\ \A u \in Thread : ~Signals(u, t)'
      <3>1. t \in Range(cond_waiters[d]) /\ t # h
        BY <2>3, <2>7, Zenon
      <3>2. InWait(t) /\ value[t] = 0 /\ \A u \in Thread : ~Signals(u, t)
        BY <3>1, CondFacts, Zenon
      <3>3. QED
        BY <2>2, <2>5, <2>6, <3>1, <3>2, Zenon
    <2>8. ASSUME NEW t \in Thread, NEW u \in Thread, Signals(u, t)'
          PROVE  pc'[t] = "wait_down" /\ value'[t] = 0
      <3>1. pc[t] = "wait_down" /\ value[t] = 0
        BY <2>3, <2>4, <2>5, <2>8, SignalFacts, Zenon
      <3>2. QED
        BY <2>2, <2>6, <3>1, Zenon
    <2>9. ASSUME NEW t \in Thread, NEW u \in Thread, NEW w \in Thread, Signals(u, t)', Signals(w, t)'
          PROVE  u = w
      BY <2>4, <2>5, <2>9, SignalFacts
    <2>10. QED
      BY <2>7, <2>8, <2>9, Zenon DEF WaiterAlive
  <1>3. CASE ~\E c \in Cond, label \in Label : Pop(c, label)
    <2>1. \A t, u \in Thread : Signals(u, t)' => Signals(u, t)
      BY <1>1, <1>3, WaitSteps, Zenon DEF Signals
    <2>2. ASSUME NEW t \in Thread, Signals(current, t), pc'[current] \in {"client", "broadcast"}
          PROVE  \A u \in Thread : ~Signals(u, t)'
      BY <1>0, <2>1, <2>2, SignalFacts DEF Signals
    <2>3. ASSUME NEW t \in Thread, NEW u \in Thread, Signals(u, t)'
          PROVE  pc'[t] = "wait_down" /\ value'[t] = 0
      <3>1. Signals(u, t) /\ pc[t] = "wait_down" /\ value[t] = 0
        BY <2>1, <2>3, SignalFacts, Zenon
      <3>2. pc'[t] = "wait_down"
        BY <1>1, <3>1, WaitSteps DEF InWait
      <3>3. ~\E c \in Cond : call_cond_wait(c) /\ t = current
        BY <3>1, Zenon DEF call_cond_wait, Call, At
      <3>4. value'[t] = value[t]
        BY <2>2, <2>3, <3>1, <3>3, ElemSteps
      <3>5. QED
        BY <3>1, <3>2, <3>4, Zenon
    <2>4. ASSUME NEW t \in Thread, NEW c \in Cond, t \in Range(cond_waiters'[c])
          PROVE  InWait(t)' /\ value'[t] = 0 /\ \A u \in Thread : ~Signals(u, t)'
      <3>1. CASE t \in Range(cond_waiters[c])
        <4>1. InWait(t) /\ value[t] = 0 /\ \A u \in Thread : ~Signals(u, t)
          BY <3>1, CondFacts, Zenon
        <4>2. InWait(t)'
          BY <1>1, <4>1, WaitSteps DEF InWait
        <4>3. value'[t] = 0
          <5>1. ~Signals(current, t) /\ ~(value[t] > 0)
            BY <1>0, <4>1
          <5>2. value'[t] = value[t] \/ value'[t] = 0
            BY <5>1, ElemSteps, Zenon
          <5>3. QED
            BY <4>1, <5>2, Zenon
        <4>4. QED
          BY <2>1, <4>1, <4>2, <4>3, Zenon
      <3>2. CASE t \notin Range(cond_waiters[c])
        <4>1. PICK d \in Cond : call_cond_wait(d)
          <5>1. UNCHANGED cond_waiters \/ \E d \in Cond : call_cond_wait(d)
            BY <1>3, BeginFacts, WorkFacts, Zenon DEF CallStep, start, call_thread_create, Down, Up
          <5>2. QED
            BY <2>4, <3>2, <5>1, Zenon
        <4>2. /\ cond_waiters' = [cond_waiters EXCEPT ![d] = Append(@, current)]
              /\ value' = [value EXCEPT ![current] = 0] /\ Goto("wait_release")
              /\ pc[current] = "client"
          BY <4>1, Zenon DEF call_cond_wait, Call, At
        <4>3. t = current
          <5>1. Range(Append(cond_waiters[d], current)) = Range(cond_waiters[d]) \cup {current}
            BY <1>0, PushBack
          <5>2. QED
            BY <1>0, <2>4, <3>2, <4>2, <5>1, Zenon
        <4>4. InWait(t)' /\ value'[t] = 0
          BY <1>0, <4>2, <4>3, Zenon DEF InWait, Goto
        <4>5. \A u \in Thread : ~Signals(u, t)'
          BY <1>0, <2>1, <4>2, <4>3, SignalFacts, Zenon
        <4>6. QED
          BY <4>4, <4>5, Zenon
      <3>3. QED
        BY <3>1, <3>2, Zenon
    <2>5. ASSUME NEW t \in Thread, NEW u \in Thread, NEW w \in Thread, Signals(u, t)', Signals(w, t)'
          PROVE  u = w
      BY <2>1, <2>5, SignalFacts, Zenon
    <2>6. QED
      BY <2>3, <2>4, <2>5, Zenon DEF WaiterAlive
  <1>4. QED
    BY <1>2, <1>3, Zenon

-----------------------------------------------------------------------------
(* Semaphores.                                                             *)

\* A thread is in sema_down() of one semaphore at most, and leaves it only by
\* taking the semaphore.
LEMMA DownSteps ==
    ASSUME SynchInv, CallStep, NEW t \in Thread, NEW s \in Semaphore, InDown(t, s)
    PROVE  /\ \A r \in Semaphore : InDown(t, r) => r = s
           /\ \/ InDown(t, s)'
              \/ t = current /\ \E label \in Label : Down(s, label) /\ Takes(s, label)
  <1>0. pc \in [Thread -> Label] /\ current \in Thread
    BY Zenon DEF SynchInv, SynchTypeOK, SchedInv, SchedTypeOK
  <1>1. \A r \in Semaphore : InDown(t, r) => r = s
    BY DEF InDown
  <1>2. CASE t # current
    BY <1>1, <1>2, CurrentOnly, Zenon DEF InDown
  <1>3. CASE t = current
    <2>1. pc[current] \in {"down", "acquire", "wait_down"}
      BY <1>3, Zenon DEF InDown
    <2>2. CASE \E r \in Semaphore, label \in Label : Down(r, label)
      <3>1. PICK r \in Semaphore, label \in Label : Down(r, label)
        BY <2>2, Zenon
      <3>2. r = s /\ (Sleeps(r) \/ Takes(r, label)) /\ UNCHANGED arg
        BY <1>3, <3>1, SemaDown, Zenon DEF Down, At, InDown
      <3>3. Sleeps(r) => InDown(t, s)'
        BY <3>2, Zenon DEF Sleeps, InDown
      <3>4. QED
        BY <1>1, <1>3, <3>1, <3>2, <3>3, Zenon
    <2>3. CASE UNCHANGED <<pc, arg>>
      BY <1>1, <2>3, Zenon DEF InDown
    <2>4. (\E r \in Semaphore, label \in Label : Down(r, label)) \/ UNCHANGED <<pc, arg>>
      BY <2>1, BeginFacts, WorkFacts, Zenon DEF CallStep, start, call_thread_create, Pop, Up, Call, At
    <2>5. QED
      BY <2>2, <2>3, <2>4, Zenon
  <1>4. QED
    BY <1>2, <1>3, Zenon

\* Only sema_down() and sema_up() change a wait list, and only sema_up()
\* raises a semaphore.
LEMMA OtherSteps ==
    ASSUME SynchInv, CallStep, NEW s \in Semaphore, ~Up(s), \A label \in Label : ~Down(s, label)
    PROVE  value'[s] <= value[s] /\ waiters'[s] = waiters[s]
  <1> USE SynchAssumption
  <1>0. value \in [Semaphore -> Nat] /\ waiters \in [Semaphore -> Seq(Thread)]
    BY Zenon DEF SynchInv, SynchTypeOK
  <1>1. CASE Begin
    <2>1. waiters' = waiters
      BY <1>1, BeginFacts, Zenon
    <2>2. \/ value' = value
          \/ \E r \in Semaphore : value[r] > 0 /\ value' = [value EXCEPT ![r] = @ - 1]
          \/ value' = [value EXCEPT ![current] = 0]
      BY <1>1, BeginFacts, Zenon DEF Semaphore
    <2>3. CASE \E r \in Semaphore : value[r] > 0 /\ value' = [value EXCEPT ![r] = @ - 1]
      <3>1. PICK r \in Semaphore : value[r] > 0 /\ value' = [value EXCEPT ![r] = @ - 1]
        BY <2>3, Zenon
      <3>2. value'[s] = IF s = r THEN value[s] - 1 ELSE value[s]
        BY <1>0, <3>1, Zenon
      <3>3. QED
        BY <1>0, <2>1, <3>2
    <2>4. CASE value' = [value EXCEPT ![current] = 0]
      <3>1. value'[s] = IF s = current THEN 0 ELSE value[s]
        BY <1>0, <2>4, Zenon
      <3>2. QED
        BY <1>0, <2>1, <3>1
    <2>5. QED
      BY <1>0, <2>1, <2>2, <2>3, <2>4
  <1>2. CASE Work \/ start \/ (\E t \in Thread : call_thread_create(t)) \/ \E c \in Cond, label \in Label : Pop(c, label)
    <2>1. value' = value /\ waiters' = waiters
      BY <1>2, WorkFacts, Zenon DEF start, call_thread_create, Pop
    <2>2. QED
      BY <1>0, <2>1
  <1>3. ASSUME NEW r \in Semaphore, NEW label \in Label, Down(r, label)
        PROVE  value'[s] = value[s] /\ waiters'[s] = waiters[s]
    <2>1. r # s /\ (Sleeps(r) \/ Takes(r, label))
      BY <1>3, SemaDown, Zenon DEF Down, At
    <2>2. QED
      BY <1>0, <2>1, Zenon DEF Sleeps, Takes
  <1>4. ASSUME NEW r \in Semaphore, Up(r)
        PROVE  value'[s] = value[s] /\ waiters'[s] = waiters[s]
    <2>1. r # s /\ sema_up(r)
      BY <1>4, Zenon DEF Up
    <2>2. QED
      BY <2>1, SemaUp, Zenon
  <1>5. QED
    BY <1>0, <1>1, <1>2, <1>3, <1>4 DEF CallStep

-----------------------------------------------------------------------------
(* The calls respect the preconditions of the scheduler.                   *)

\* sema_up() by a thread is a thread_unblock() or leaves the scheduler alone.
LEMMA UpSchedules ==
    ASSUME SynchInv, InClient, NEW s \in Semaphore, sema_up(s), RunOn
    PROVE  (\E t \in Thread : client_unblock(t)) \/ UNCHANGED schedvars
  BY SemaUp, Zenon DEF Wakes, client_unblock, RunOn, schedvars

\* sema_down() is a thread_block() or an intr_set_level().
LEMMA DownSchedules ==
    ASSUME SynchInv, InClient, NEW s \in Semaphore, NEW label, sema_down(s, label)
    PROVE  client_block \/ \E lv \in BOOLEAN : client_set_level(lv)
  <1>1. CASE Sleeps(s)
    BY <1>1, Zenon DEF Sleeps, client_block
  <1>2. CASE Takes(s, label)
    <2>1. old_level[current] \in BOOLEAN
      BY ClientFacts, Zenon DEF SynchInv, SynchTypeOK
    <2>2. QED
      BY <1>2, <2>1, Zenon DEF Takes
  <1>3. QED
    BY <1>1, <1>2, SemaDown, Zenon

\* Every step is a step of the scheduler or leaves it alone.
LEMMA SchedulerStep == SynchInv /\ SynchNext => SchedNext \/ UNCHANGED schedvars
  <1> SUFFICES ASSUME SynchInv, SynchNext PROVE SchedNext \/ UNCHANGED schedvars
    OBVIOUS
  <1>1. CASE SynchBoot \/ SynchIdle \/ SynchTimer
    BY <1>1, Zenon DEF SynchBoot, SynchIdle, SynchTimer, SchedNext
  <1>2. ASSUME NEW s \in Sema, device_sema_up(s) PROVE SchedNext
    <2>1. s \in Semaphore /\ sema_up(s)
      BY <1>2, Zenon DEF device_sema_up, Semaphore
    <2>2. (\E t \in Thread : Wakeable(t) /\ thread_unblock(t)) \/ UNCHANGED <<ready_list, status>>
      BY <2>1, SemaUp, Zenon DEF Wakes
    <2>3. device_interrupt
      BY <1>2, <2>2, Zenon DEF device_sema_up, device_interrupt
    <2>4. QED
      BY <2>3, Zenon DEF SchedNext
  <1>3. CASE SynchCall
    <2>1. ASSUME NEW s \in Sema, call_sema_up(s) PROVE SchedNext \/ UNCHANGED schedvars
      <3>1. InClient /\ s \in Semaphore /\ sema_up(s) /\ RunOn
        BY <2>1, Zenon DEF call_sema_up, Call, At, Semaphore
      <3>2. QED
        BY <3>1, UpSchedules, Zenon DEF SchedNext, Client
    <2>2. ASSUME NEW t \in Thread, call_thread_create(t) PROVE SchedNext
      BY <2>2, Zenon DEF call_thread_create, SchedNext, Client
    <2>3. ASSUME NEW lv \in BOOLEAN, call_intr_set_level(lv) PROVE SchedNext
      BY <2>3, Zenon DEF call_intr_set_level, SchedNext, Client
    <2>4. CASE call_thread_yield \/ call_thread_exit
      BY <2>4, Zenon DEF call_thread_yield, call_thread_exit, SchedNext, Client
    <2>5. QED
      BY <1>3, <2>1, <2>2, <2>3, <2>4, Zenon
         DEF SynchCall, call_sema_down, sema_try_down, call_lock_acquire, call_lock_try_acquire,
             call_lock_release, call_cond_wait, call_cond_signal, call_cond_broadcast
  <1>4. CASE SynchStep
    <2>1. CASE down \/ acquire \/ wait_down
      <3>1. \E s \in Semaphore, label \in Label : InClient /\ sema_down(s, label)
        BY <2>1, SemaOperands, Zenon DEF down, acquire, wait_down, At, Label
      <3>2. QED
        BY <3>1, DownSchedules, Zenon DEF SchedNext, Client
    <2>2. CASE release \/ wait_up \/ signal \/ broadcast_up
      <3>1. InClient /\ arg[current] \in Semaphore /\ sema_up(arg[current]) /\ RunOn
        BY <2>2, SemaOperands, Zenon DEF release, wait_up, signal, broadcast_up, At
      <3>2. QED
        BY <3>1, UpSchedules, Zenon DEF SchedNext, Client
    <2>3. CASE start
      <3>1. InClient /\ pc[current] = "start" /\ thread_unblock(new[current]) /\ RunOn
        BY <2>3, Zenon DEF start, At
      <3>2. new[current] \in Thread /\ Wakeable(new[current])
        BY <3>1, ClientFacts, Zenon DEF SynchInv, SynchTypeOK, NewOK, Creating, Wakeable
      <3>3. client_unblock(new[current])
        BY <3>1, <3>2, Zenon DEF client_unblock, RunOn
      <3>4. QED
        BY <3>2, <3>3, Zenon DEF SchedNext, Client
    <2>4. CASE acquired \/ wait_release \/ broadcast \/ tid_read \/ tid_inc \/ tid_release
      BY <2>4, Zenon DEF acquired, wait_release, broadcast, tid_read, tid_inc, tid_release
    <2>5. QED
      BY <1>4, <2>1, <2>2, <2>3, <2>4, Zenon DEF SynchStep
  <1>5. QED
    BY <1>1, <1>2, <1>3, <1>4, Zenon DEF SynchNext

\* Hence the invariant of the scheduler is preserved.
LEMMA SchedulerKept == SynchInv /\ [SynchNext]_vars => SchedInv'
  <1>1. SynchInv /\ [SynchNext]_vars => SchedInv /\ [SchedNext]_schedvars
    BY SchedulerStep, Zenon DEF SynchInv, vars
  <1>2. QED
    BY <1>1, SchedInductive, Zenon

-----------------------------------------------------------------------------
(* Which threads a step wakes and which it puts to sleep.                  *)

Alive == {"running", "ready", "blocked"}

\* The threads of W are woken, those of S put to sleep, none dies.
Effect(W, S) ==
    /\ boot = "done" /\ boot' = "done"
    /\ \A t \in Thread \ {IdlePage} :
         status'[t] = "blocked" <=> (status[t] = "blocked" /\ t \notin W) \/ t \in S
    /\ \A t \in Thread : status[t] \in Alive => status'[t] \in Alive
    /\ \A t \in Thread \ S : status[t] = "none" => status'[t] = "none"

\* Steps that leave the scheduler alone, or only set the interrupt level.
LEMMA CalmEffect ==
    ASSUME SynchInv, InClient, UNCHANGED <<status, boot>>
    PROVE  Effect({}, {})
  BY ClientFacts, Zenon DEF Effect

\* sema_down() puts the current thread to sleep and no other.
LEMMA SleepEffect ==
    ASSUME SynchInv, InClient, NEW s \in Semaphore, Sleeps(s)
    PROVE  Effect({}, {current})
  <1>1. thread_block(FALSE) /\ idle_thread' = idle_thread /\ boot' = boot
    BY Zenon DEF Sleeps
  <1>2. Switched([status EXCEPT ![current] = "blocked"])
    BY <1>1, ClientFacts, BlockStep, SchedulerAssumption, Zenon DEF SynchInv
  <1>3. /\ \A t \in Thread : status'[t] = IF t = current' THEN "running"
                                          ELSE IF t = current THEN "blocked" ELSE status[t]
        /\ current' = IdlePage \/ (current' # current /\ status[current'] = "ready")
        /\ current' \in Thread
    BY <1>2, ClientFacts, Zenon DEF Switched, SynchInv, SchedInv, SchedTypeOK
  <1>4. status[IdlePage] # "none"
    BY ClientFacts, Zenon DEF SynchInv, SchedInv, SchedTypeOK, BootOrder
  <1>5. QED
    BY <1>1, <1>3, <1>4, ClientFacts, Zenon DEF Effect, Alive

\* thread_unblock() wakes its argument.
LEMMA WakeEffect ==
    ASSUME SynchInv, NEW t \in Thread, status[t] = "blocked", boot = "done", boot' = boot,
           thread_unblock(t)
    PROVE  Effect({t}, {})
  <1>1. \A u \in Thread : status'[u] = IF u = t THEN "ready" ELSE status[u]
    BY Zenon DEF thread_unblock, SynchInv, SchedInv, SchedTypeOK
  <1>2. QED
    BY <1>1, Zenon DEF Effect, Alive

\* init_thread() makes a sleeping thread of a free page.
LEMMA CreateEffect ==
    ASSUME SynchInv, NEW t \in Thread, client_create(t)
    PROVE  Effect({}, {t}) /\ status[t] = "none" /\ t # IdlePage
  <1>1. /\ \A u \in Thread : status'[u] = IF u = t THEN "blocked" ELSE status[u]
        /\ boot' = boot /\ InClient /\ status[t] = "none" /\ t # IdlePage
    BY Zenon DEF client_create, SynchInv, SchedInv, SchedTypeOK
  <1>2. QED
    BY <1>1, ClientFacts, Zenon DEF Effect, Alive

\* Preemption, the idle thread and yields do not change who sleeps.
LEMMA SwitchEffect ==
    ASSUME SynchInv, boot = "done",
           Idle \/ timer_interrupt \/ client_yield \/ \E lv \in BOOLEAN : client_set_level(lv)
    PROVE  Effect({}, {})
  <1> USE SchedulerAssumption
  <1>1. /\ idle_thread = IdlePage /\ idle_pc \in {"loop", "hlt"} /\ current \in Thread
        /\ status[current] = "running" /\ status[IdlePage] \in Alive
        /\ SchedInv
    BY Zenon DEF SynchInv, SchedInv, SchedTypeOK, SchedSafe, OneRunning, BootOrder, Alive
  <1>2. \A t \in Range(destruction_req) : t \in Thread => status[t] = "dying"
    BY <1>1, Zenon DEF SchedInv, SchedSafe, DeadQueued
  <1>3. CASE Idle
    <2>1. idle_block
      BY <1>1, <1>3, Zenon DEF Idle, idle_entry, idle_up
    <2>2. /\ current = IdlePage /\ boot' = boot /\ idle_thread' = idle_thread
          /\ thread_block(TRUE)
      BY <2>1, Zenon DEF idle_block
    <2>3. Switched([status EXCEPT ![current] = "blocked"])
      BY <1>1, <2>2, BlockStep, Zenon
    <2>4. \A t \in Thread : status'[t] = IF t = current' THEN "running"
                                         ELSE IF t = current THEN "blocked" ELSE status[t]
      BY <1>1, <2>3, Zenon DEF Switched, SchedInv, SchedTypeOK
    <2>5. current' = IdlePage \/ status[current'] = "ready"
      BY <1>1, <2>3, Zenon DEF Switched, SchedInv, SchedTypeOK
    <2>6. QED
      BY <1>1, <2>2, <2>4, <2>5, Zenon DEF Effect, Alive
  <1>4. ASSUME NEW lv \in BOOLEAN, thread_yield(lv), idle_thread' = idle_thread, boot' = boot
        PROVE  Effect({}, {})
    <2> DEFINE st == [t \in Thread |-> IF t \in Range(destruction_req) THEN "none"
                                       ELSE IF t = current THEN "ready" ELSE status[t]]
    <2>1. Switched(st)
      BY <1>1, <1>4, YieldStep, Zenon
    <2>2. /\ \A t \in Thread : status'[t] = IF t = current' THEN "running" ELSE st[t]
          /\ current' = IdlePage \/ st[current'] = "ready"
          /\ current' \in Thread
      BY <1>1, <2>1, Zenon DEF Switched
    <2>3. QED
      BY <1>1, <1>2, <1>4, <2>2, Zenon DEF Effect, Alive
  <1>5. CASE timer_interrupt
    <2>1. /\ idle_thread' = idle_thread /\ boot' = boot
          /\ thread_yield(TRUE) \/ UNCHANGED status
      BY <1>5, Zenon DEF timer_interrupt
    <2>2. QED
      BY <2>1, <1>4, Zenon DEF Effect
  <1>6. CASE client_yield
    BY <1>1, <1>4, <1>6, Zenon DEF client_yield, SchedInv, SchedTypeOK
  <1>7. CASE \E lv \in BOOLEAN : client_set_level(lv)
    BY <1>7, Zenon DEF client_set_level, Effect
  <1>8. QED
    BY <1>3, <1>5, <1>6, <1>7, Zenon

\* thread_exit() changes who sleeps neither, and only the caller dies.
LEMMA ExitEffect ==
    ASSUME SynchInv, thread_exit
    PROVE  /\ boot = "done" /\ boot' = "done"
           /\ \A t \in Thread \ {IdlePage} : status'[t] = "blocked" <=> status[t] = "blocked"
           /\ \A t \in Thread \ {current} : status[t] \in Alive => status'[t] \in Alive
           /\ \A t \in Thread : status[t] = "none" => status'[t] = "none"
  <1> USE SchedulerAssumption
  <1> DEFINE st == [t \in Thread |-> IF t \in Range(destruction_req) THEN "none"
                                     ELSE IF t = current THEN "dying" ELSE status[t]]
  <1>1. do_schedule("dying", ready_list, level) /\ InClient /\ UNCHANGED <<idle_thread, boot>>
    BY Zenon DEF thread_exit
  <1>2. /\ idle_thread = IdlePage /\ current \in Thread /\ current # IdlePage /\ boot = "done"
        /\ status[current] = "running" /\ status[IdlePage] \in Alive /\ SchedInv
    BY <1>1, ClientFacts, Zenon DEF SynchInv, SchedInv, SchedTypeOK, BootOrder, Alive
  <1>3. ready_list \in Seq(Thread) /\ level \in [Thread -> BOOLEAN] /\ IsInjective(ready_list)
    BY <1>2, Zenon DEF SchedInv, SchedTypeOK, SchedSafe, ReadyListExact
  <1>4. \A t \in Range(destruction_req) : t \in Thread => status[t] = "dying"
    BY <1>2, Zenon DEF SchedInv, SchedSafe, DeadQueued
  <1>5. Switched(st)
    BY <1>1, <1>2, <1>3, DoScheduleStep, Zenon
  <1>6. /\ \A t \in Thread : status'[t] = IF t = current' THEN "running" ELSE st[t]
        /\ current' = IdlePage \/ st[current'] = "ready"
        /\ current' \in Thread
    BY <1>2, <1>5, Zenon DEF Switched
  <1>7. QED
    BY <1>1, <1>2, <1>4, <1>6, Zenon DEF Alive

-----------------------------------------------------------------------------
(* Steps in which no call makes progress.                                  *)

\* Preemption, the idle thread, yields and exits, once thread_start() is over.
LEMMA SwitchesKeep ==
    ASSUME SynchInv, SchedInv', boot = "done",
           SynchIdle \/ SynchTimer \/ call_thread_yield \/ call_thread_exit
             \/ \E lv \in BOOLEAN : call_intr_set_level(lv)
    PROVE  SynchInv'
  <1>1. UNCHANGED synchvars
    BY Zenon DEF SynchIdle, SynchTimer, call_thread_yield, call_thread_exit, call_intr_set_level
  <1>2. /\ boot' = "done"
        /\ \A t \in Thread \ {IdlePage} : status'[t] = "blocked" <=> status[t] = "blocked"
        /\ \A t \in Thread : status[t] = "none" => status'[t] = "none"
        /\ \A t \in Thread : status[t] \in Alive => \/ status'[t] \in Alive
                                                    \/ pc[t] = "client" /\ \A l \in Lock : holder[l] # t
    <2>1. CASE call_thread_exit
      <3>1. thread_exit /\ pc[current] = "client" /\ \A l \in Lock : holder[l] # current
        BY <2>1, Zenon DEF call_thread_exit, Call, At, lock_held_by_current_thread
      <3>2. QED
        BY <3>1, ExitEffect, Zenon
    <2>2. CASE ~call_thread_exit
      <3>1. Effect({}, {})
        BY <2>2, SwitchEffect, Zenon DEF SynchIdle, SynchTimer, call_thread_yield, call_intr_set_level
      <3>2. QED
        BY <3>1, Zenon DEF Effect
    <2>3. QED
      BY <2>1, <2>2, Zenon
  <1>a. UNCHANGED <<value, waiters, holder, cond_waiters, pc, arg, cv, old_level, tid, next_tid, new>>
    BY <1>1, Zenon DEF synchvars
  <1>b. /\ SynchTypeOK /\ TidRead /\ CallersAlive /\ NewOK /\ TidsUnique /\ WaitListsExact
        /\ BlockedListed
    BY Zenon DEF SynchInv
  <1>3. SynchTypeOK' /\ TidRead'
    BY <1>a, <1>b, Zenon DEF SynchTypeOK, TidRead
  <1>4. CallersAlive'
    BY <1>2, <1>a, <1>b, Zenon DEF CallersAlive, Alive
  <1>5. NewOK'
    <2>1. \A t \in Thread : new[t] # NULL => new[t] \in Thread
      BY <1>b, Zenon DEF SynchTypeOK
    <2>2. \A t \in Thread : Creating(t)' <=> Creating(t)
      BY <1>a, Zenon DEF Creating
    <2>3. QED
      BY <1>2, <1>a, <1>b, <2>1, <2>2, Zenon DEF NewOK
  <1>6. TidsUnique'
    BY <1>2, <1>a, <1>b DEF TidsUnique
  <1>7. WaitListsExact'
    <2>1. \A t \in Thread, s \in Semaphore : InDown(t, s)' <=> InDown(t, s)
      BY <1>a, Zenon DEF InDown
    <2>2. \A s \in Semaphore : Range(waiters[s]) \subseteq Thread \ {IdlePage}
      <3>1. \A s \in Semaphore : Range(waiters[s]) \subseteq Thread
        BY ListedThreads, Zenon
      <3>2. \A s \in Semaphore : \A t \in Range(waiters[s]) : pc[t] # "client"
        BY <1>b, <3>1, Zenon DEF WaitListsExact, InDown
      <3>3. QED
        BY <1>b, <3>1, <3>2, Zenon DEF CallersAlive
    <2>3. \A s \in Semaphore : waiters'[s] = waiters[s]
      BY <1>a, Zenon
    <2>4. QED
      BY <1>2, <1>b, <2>1, <2>2, <2>3, Zenon DEF WaitListsExact
  <1>8. BlockedListed'
    BY <1>2, <1>a, <1>b, Zenon DEF BlockedListed
  <1>9. QED
    BY <1>3, <1>4, <1>5, <1>6, <1>7, <1>8, <1>a, CallsFrame, Zenon DEF SynchInv

\* thread_start(): nobody makes calls yet, and only main() and the idle thread
\* exist.
LEMMA BootKeeps ==
    ASSUME SynchInv, SchedInv', boot # "done", SynchBoot \/ SynchIdle \/ SynchTimer
    PROVE  SynchInv'
  <1> USE SchedulerAssumption
  <1>1. UNCHANGED <<value, waiters, holder, cond_waiters, pc, arg, cv, old_level, new>>
    BY Zenon DEF SynchBoot, SynchIdle, SynchTimer, synchvars
  <1>2. /\ \A t \in Thread : pc[t] = "client" /\ new[t] = NULL /\ \A l \in Lock : holder[l] # t
        /\ \A s \in Semaphore : Range(waiters[s]) = {}
    <2>1. \A t \in Thread : pc[t] = "client" /\ \A l \in Lock : holder[l] # t
      BY Zenon DEF SynchInv, CallersAlive
    <2>2. \A t \in Thread : new[t] = NULL
      BY <2>1, Zenon DEF SynchInv, NewOK, Creating
    <2>3. \A s \in Semaphore : Range(waiters[s]) = {}
      BY <2>1, ListedThreads DEF SynchInv, WaitListsExact, InDown
    <2>4. QED
      BY <2>1, <2>2, <2>3, Zenon
  <1>3. \/ UNCHANGED <<tid, next_tid>> /\ boot # "create"
        \/ /\ thread_start_create /\ boot = "create"
           /\ tid' = [tid EXCEPT ![IdlePage] = next_tid] /\ next_tid' = next_tid + 1
    <2>1. CASE SynchBoot
      <3>1. CASE boot = "create"
        BY <2>1, <3>1, Zenon DEF SynchBoot, Boot, thread_start_enable, thread_start_wait
      <3>2. CASE boot # "create"
        BY <2>1, <3>2, Zenon DEF SynchBoot
      <3>3. QED
        BY <3>1, <3>2, Zenon
    <2>2. CASE SynchIdle \/ SynchTimer
      BY <2>2, Zenon DEF SynchIdle, SynchTimer, synchvars, Idle, idle_entry, idle_up, idle_block, timer_interrupt,
                  SynchInv, SchedInv, SchedTypeOK, BootOrder
    <2>3. QED
      BY <2>1, <2>2, Zenon
  <1>4. SynchTypeOK'
    BY <1>1, <1>3 DEF SynchInv, SynchTypeOK
  <1>5. TidRead' /\ CallersAlive' /\ NewOK' /\ WaitListsExact'
    BY <1>1, <1>2, Zenon DEF SynchInv, TidRead, CallersAlive, NewOK, Creating, WaitListsExact
  <1>6. boot' # "done" \/ UNCHANGED status
    <2>1. CASE SynchBoot
      BY <2>1, Zenon DEF SynchBoot, Boot, thread_start_create, thread_start_enable, thread_start_wait
    <2>2. CASE SynchIdle \/ SynchTimer
      BY <2>2, Zenon DEF SynchIdle, SynchTimer, Idle, idle_entry, idle_up, idle_block, timer_interrupt
    <2>3. QED
      BY <2>1, <2>2, Zenon
  <1>7. /\ \A t \in Thread \ {initial_thread, IdlePage} : status[t] = "none" /\ status'[t] = "none"
        /\ status[initial_thread] # "none"
        /\ boot # "create" => status[IdlePage] # "none"
    BY <1>6, Zenon DEF SynchInv, SchedInv, SchedTypeOK, SchedSafe, PermanentThreads, BootOrder
  <1>8. BlockedListed'
    <2>1. CASE boot' # "done"
      BY <1>7, <2>1, Zenon DEF BlockedListed
    <2>2. CASE boot' = "done"
      <3>1. current = initial_thread
        BY <2>2, Zenon DEF SynchBoot, SynchIdle, SynchTimer, Boot, Idle, thread_start_create,
                    thread_start_enable, thread_start_wait, idle_entry, idle_up, idle_block, timer_interrupt
      <3>2. status[initial_thread] = "running"
        BY <3>1, Zenon DEF SynchInv, SchedInv, SchedSafe, OneRunning
      <3>3. QED
        BY <1>6, <1>7, <2>2, <3>2, Zenon DEF BlockedListed
    <2>3. QED
      BY <2>1, <2>2, Zenon
  <1>9. TidsUnique'
    <2>1. \A t \in Thread : status[t] # "none" /\ tid[t] # 0 => tid[t] < next_tid
      BY <1>2, Zenon DEF SynchInv, TidsUnique
    <2>2. CASE UNCHANGED <<tid, next_tid>> /\ boot # "create"
      BY <1>7, <2>1, <2>2 DEF SynchInv, TidsUnique
    <2>3. CASE /\ thread_start_create /\ boot = "create"
               /\ tid' = [tid EXCEPT ![IdlePage] = next_tid] /\ next_tid' = next_tid + 1
      <3>1. /\ tid \in [Thread -> Nat] /\ next_tid \in Nat
            /\ \A t \in Thread : tid'[t] = IF t = IdlePage THEN next_tid ELSE tid[t]
        BY <2>3, Zenon DEF SynchInv, SynchTypeOK
      <3>2. QED
        BY <1>7, <2>1, <2>3, <3>1 DEF TidsUnique
    <2>4. QED
      BY <1>3, <2>2, <2>3, Zenon
  <1>10. QED
    BY <1>1, <1>4, <1>5, <1>8, <1>9, CallsFrame, Zenon DEF SynchInv

-----------------------------------------------------------------------------
(* Steps of calls.                                                         *)

\* What a step of a call does to the threads' states and to the wait lists.
LEMMA CallEffects ==
    ASSUME SynchInv, CallStep
    PROVE  \/ UNCHANGED <<status, boot, waiters>>
           \/ \E s \in Semaphore : Sleeps(s) /\ Effect({}, {current}) /\ InDown(current, s) /\ new' = new
                                   /\ InClient /\ arg' = arg
           \/ \E s \in Semaphore, t \in Thread : Up(s) /\ Wakes(s, t) /\ Effect({t}, {})
                                                 /\ \A r \in Semaphore \ {s} : waiters'[r] = waiters[r]
           \/ start /\ Effect({new[current]}, {}) /\ waiters' = waiters
           \/ \E t \in Thread : call_thread_create(t) /\ Effect({}, {t}) /\ waiters' = waiters
  <1>1. CASE Begin
    BY <1>1, BeginFacts, Zenon DEF schedvars
  <1>2. CASE Work
    BY <1>2, WorkFacts, Zenon DEF schedvars
  <1>3. CASE \E c \in Cond, label \in Label : Pop(c, label)
    BY <1>3, Zenon DEF Pop, schedvars
  <1>4. ASSUME NEW s \in Semaphore, NEW label \in Label, Down(s, label)
        PROVE  \/ UNCHANGED <<status, boot, waiters>>
               \/ Sleeps(s) /\ Effect({}, {current}) /\ InDown(current, s) /\ new' = new /\ InClient /\ arg' = arg
    <2>1. InClient /\ InDown(current, s) /\ new' = new /\ arg' = arg /\ sema_down(s, label)
      BY <1>4, Zenon DEF Down, At, InDown
    <2>2. CASE Sleeps(s)
      BY <2>1, <2>2, SleepEffect, Zenon
    <2>3. CASE Takes(s, label)
      BY <2>3, Zenon DEF Takes, client_set_level
    <2>4. QED
      BY <2>1, <2>2, <2>3, SemaDown, Zenon
  <1>5. ASSUME NEW s \in Semaphore, Up(s)
        PROVE  \/ UNCHANGED <<status, boot, waiters>>
               \/ \E t \in Thread : Wakes(s, t) /\ Effect({t}, {})
                                    /\ \A r \in Semaphore \ {s} : waiters'[r] = waiters[r]
    <2>1. sema_up(s) /\ boot' = boot
      BY <1>5, Zenon DEF Up
    <2>2. CASE \E t \in Thread : Wakes(s, t)
      <3>1. PICK t \in Thread : Wakes(s, t)
        BY <2>2, Zenon
      <3>2. Effect({t}, {})
        BY <2>1, <3>1, WakeEffect, Zenon DEF Wakes
      <3>3. QED
        BY <2>1, <3>1, <3>2, SemaUp, Zenon
    <2>3. QED
      BY <2>1, <2>2, SemaUp, Zenon
  <1>6. CASE start
    <2>1. InClient /\ pc[current] = "start" /\ thread_unblock(new[current]) /\ boot' = boot /\ waiters' = waiters
      BY <1>6, Zenon DEF start, At, RunOn
    <2>2. new[current] \in Thread /\ status[new[current]] = "blocked" /\ boot = "done"
      BY <2>1, ClientFacts, Zenon DEF SynchInv, SynchTypeOK, NewOK, Creating
    <2>3. QED
      BY <1>6, <2>1, <2>2, WakeEffect, Zenon
  <1>7. ASSUME NEW t \in Thread, call_thread_create(t)
        PROVE  Effect({}, {t}) /\ waiters' = waiters
    BY <1>7, CreateEffect, Zenon DEF call_thread_create
  <1>8. QED
    BY <1>1, <1>2, <1>3, <1>4, <1>5, <1>6, <1>7, Zenon DEF CallStep

\* A step is made by the current thread, unless an interrupt handler made it.
LEMMA CallerRuns ==
    ASSUME SynchInv, CallStep
    PROVE  InClient \/ UNCHANGED <<pc, arg, holder, cond_waiters, cv, new, tid, next_tid>>
  <1>1. CASE Begin
    BY <1>1, BeginFacts, Zenon
  <1>2. CASE Work \/ start
    BY <1>2, WorkFacts, Zenon DEF start, At
  <1>3. CASE \E t \in Thread : call_thread_create(t)
    BY <1>3, Zenon DEF call_thread_create, Call, At
  <1>4. CASE \E c \in Cond, label \in Label : Pop(c, label)
    BY <1>4, Zenon DEF Pop
  <1>5. CASE \E s \in Semaphore, label \in Label : Down(s, label)
    BY <1>5, Zenon DEF Down, At
  <1>6. CASE \E s \in Semaphore : Up(s)
    BY <1>6, Zenon DEF Up, At
  <1>7. QED
    BY <1>1, <1>2, <1>3, <1>4, <1>5, <1>6, Zenon DEF CallStep

\* Threads in calls stay alive.
LEMMA AliveKept ==
    ASSUME SynchInv, CallStep
    PROVE  CallersAlive'
  <1>1. \A t \in Thread : status[t] \in Alive => status'[t] \in Alive
    BY CallEffects, Zenon DEF Effect
  <1>2. boot = "done" => boot' = "done"
    BY CallEffects, Zenon DEF Effect
  <1>c. CallersAlive
    BY Zenon DEF SynchInv
  <1>3. CASE InClient
    <2>1. /\ current \in Thread /\ current # IdlePage /\ status[current] \in Alive /\ boot' = "done"
          /\ NULL \notin Thread
      BY <1>2, <1>3, ClientFacts, SchedulerAssumption, Zenon DEF Alive
    <2>2. ASSUME NEW t \in Thread, pc'[t] # "client" \/ (\E l \in Lock : holder'[l] = t)
          PROVE  status'[t] \in Alive /\ t # IdlePage
      <3>1. CASE t = current
        BY <1>1, <2>1, <3>1, Zenon
      <3>2. CASE t # current
        <4>1. pc[t] # "client" \/ (\E l \in Lock : holder[l] = t)
          BY <2>2, <3>2, CurrentOnly, Zenon
        <4>2. QED
          BY <1>1, <1>c, <4>1, Zenon DEF CallersAlive, Alive
      <3>3. QED
        BY <3>1, <3>2, Zenon
    <2>3. QED
      BY <2>1, <2>2, Zenon DEF CallersAlive, Alive
  <1>4. CASE UNCHANGED <<pc, holder>>
    BY <1>1, <1>2, <1>4, <1>c, Zenon DEF CallersAlive, Alive
  <1>5. QED
    BY <1>3, <1>4, CallerRuns, Zenon

\* A thread that is being created is woken by its creator only.
LEMMA NewKept ==
    ASSUME SynchInv, CallStep
    PROVE  NewOK'
  <1>0. /\ new \in [Thread -> Thread \cup {NULL}] /\ NULL \notin Thread /\ current \in Thread
        /\ new' \in [Thread -> Thread \cup {NULL}]
    BY TypesKept, SchedulerAssumption, Zenon DEF SynchInv, SynchTypeOK, SchedInv, SchedTypeOK
  <1>1. \A t \in Thread \ {current} : pc'[t] = pc[t] /\ arg'[t] = arg[t] /\ new'[t] = new[t]
    BY CurrentOnly, Zenon
  <1>2. \A t \in Thread \ {current} : Creating(t)' <=> Creating(t)
    BY <1>1, Zenon DEF Creating
  <1>3. \A t \in Thread :
          /\ new[t] # NULL <=> Creating(t)
          /\ new[t] # NULL => /\ status[new[t]] = "blocked" /\ pc[new[t]] = "client" /\ new[t] # IdlePage
                              /\ \A u \in Thread : new[u] = new[t] => u = t
    BY Zenon DEF SynchInv, NewOK
  <1>4. \A t \in Thread : new'[t] # NULL <=> Creating(t)'
    BY <1>0, <1>1, <1>2, <1>3, CreateSteps
  <1>5. \A t \in Thread : new[t] # NULL => pc'[new[t]] = "client"
    <2>1. CASE InClient
      BY <1>0, <1>1, <1>3, <2>1, ClientFacts
    <2>2. CASE UNCHANGED pc
      BY <1>3, <2>2, Zenon
    <2>3. QED
      BY <2>1, <2>2, CallerRuns, Zenon
  <1>6. ASSUME NEW u \in Thread, call_thread_create(u)
        PROVE  NewOK'
    <2>1. /\ Effect({}, {u}) /\ status[u] = "none" /\ u # IdlePage /\ InClient
          /\ new' = [new EXCEPT ![current] = u]
      BY <1>6, CreateEffect, Zenon DEF call_thread_create, Call, At
    <2>2. pc[u] = "client" /\ u # current /\ status[current] = "running"
      BY <2>1, ClientFacts, Zenon DEF SynchInv, CallersAlive
    <2>3. \A t \in Thread : new[t] # u
      BY <1>0, <1>3, <2>1, Zenon
    <2>4. \A t \in Thread : new'[t] # NULL => status'[new'[t]] = "blocked" /\ new'[t] # IdlePage
      BY <1>0, <1>3, <2>1, Zenon DEF Effect
    <2>5. \A t \in Thread : new'[t] # NULL => pc'[new'[t]] = "client"
      BY <1>0, <1>1, <1>5, <2>1, <2>2, Zenon
    <2>6. \A t, w \in Thread : new'[t] # NULL /\ new'[w] = new'[t] => w = t
      BY <1>0, <1>3, <2>1, <2>3, Zenon
    <2>7. QED
      BY <1>4, <2>4, <2>5, <2>6, Zenon DEF NewOK
  <1>7. CASE start
    <2>1. /\ Effect({new[current]}, {}) /\ new' = [new EXCEPT ![current] = NULL] /\ InClient
          /\ pc[current] = "start"
      <3>1. InClient /\ pc[current] = "start" /\ thread_unblock(new[current]) /\ boot' = boot
            /\ new' = [new EXCEPT ![current] = NULL]
        BY <1>7, Zenon DEF start, At, RunOn
      <3>2. new[current] \in Thread /\ status[new[current]] = "blocked" /\ boot = "done"
        BY <1>0, <1>3, <3>1, ClientFacts, Zenon DEF Creating
      <3>3. QED
        BY <3>1, <3>2, WakeEffect, Zenon
    <2>2. \A t \in Thread : new'[t] # NULL => new'[t] = new[t] /\ new'[t] # new[current]
      BY <1>0, <1>3, <2>1, Zenon
    <2>3. \A t \in Thread : new'[t] # NULL => status'[new'[t]] = "blocked" /\ new'[t] # IdlePage
      BY <1>0, <1>3, <2>1, <2>2, Zenon DEF Effect
    <2>4. QED
      BY <1>0, <1>3, <1>4, <1>5, <2>2, <2>3 DEF NewOK
  <1>8. CASE new' = new /\ ~start
    <2>1. \A t \in Thread : new[t] # NULL => status'[new[t]] = "blocked"
      <3>1. ASSUME NEW t \in Thread, new[t] # NULL PROVE status'[new[t]] = "blocked"
        <4>1. new[t] \in Thread \ {IdlePage} /\ status[new[t]] = "blocked" /\ pc[new[t]] = "client"
          BY <1>0, <1>3, <3>1, Zenon
        <4>2. \A s \in Semaphore, u \in Thread : Wakes(s, u) => u # new[t]
          BY <4>1, Zenon DEF Wakes, InDown
        <4>3. \A u \in Thread : ~call_thread_create(u) \/ UNCHANGED status \/ Effect({}, {u})
          BY CreateEffect, Zenon DEF call_thread_create
        <4>4. QED
          BY <1>8, <4>1, <4>2, CallEffects, Zenon DEF Effect
      <3>2. QED
        BY <3>1, Zenon
    <2>2. QED
      BY <1>3, <1>4, <1>5, <1>8, <2>1, Zenon DEF NewOK
  <1>9. new' = new \/ start \/ \E u \in Thread : call_thread_create(u)
    <2>1. (\A t \in Thread : new'[t] = new[t]) \/ start \/ \E u \in Thread : call_thread_create(u)
      BY <1>1, CreateSteps, Zenon
    <2>2. QED
      BY <1>0, <2>1
  <1>10. QED
    BY <1>6, <1>7, <1>8, <1>9, Zenon

=============================================================================
