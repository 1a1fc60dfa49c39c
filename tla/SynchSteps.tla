----------------------------- MODULE SynchSteps -----------------------------
(***************************************************************************)
(* Proofs about Synch: what the semaphore operations do, the kinds of step, *)
(* and what each keeps of the state of the calls: types, operands, and that a *)
(* thread changes its own call only.  They hold for every number of threads, *)
(* semaphores, locks and condition variables.                              *)
(***************************************************************************)
EXTENDS Synch, SchedulerProofs

-----------------------------------------------------------------------------
(* What the semaphore operations do.                                       *)

\* A thread that makes calls is not the idle thread, runs after thread_start()
\* has returned, sleeps nowhere and is not being created.
LEMMA ClientFacts ==
    ASSUME SynchInv, InClient
    PROVE  /\ current \in Thread /\ current # IdlePage /\ current # NULL
           /\ boot = "done" /\ idle_thread = IdlePage
           /\ status[current] = "running"
           /\ \A s \in Semaphore : current \notin Range(waiters[s])
           /\ \A t \in Thread : new[t] # current
  <1> USE SchedulerAssumption
  <1>1. current \in Thread /\ current # IdlePage /\ status[current] = "running" /\ current # NULL
    BY Zenon DEF SynchInv, SchedInv, SchedTypeOK, SchedSafe, OneRunning, InClient
  <1>2. boot = "done" /\ idle_thread = IdlePage
    BY <1>1, Zenon DEF InClient, SynchInv, SchedInv, SchedTypeOK, BootOrder
  <1>3. \A s \in Semaphore : current \notin Range(waiters[s])
    BY <1>1, Zenon DEF SynchInv, WaitListsExact
  <1>4. \A t \in Thread : new[t] # current
    BY <1>1, Zenon DEF SynchInv, NewOK
  <1>5. QED
    BY <1>1, <1>2, <1>3, <1>4, Zenon

\* Only threads in calls are on wait lists.
LEMMA ListedThreads ==
    ASSUME SynchInv
    PROVE  /\ \A s \in Semaphore : Range(waiters[s]) \subseteq Thread \ {IdlePage}
           /\ \A c \in Cond : Range(cond_waiters[c]) \subseteq Thread
  <1>1. /\ \A s \in Semaphore : Range(waiters[s]) \subseteq Thread
        /\ \A c \in Cond : Range(cond_waiters[c]) \subseteq Thread
    BY ListElements, Zenon DEF SynchInv, SynchTypeOK
  <1>2. \A s \in Semaphore : \A t \in Range(waiters[s]) : t # IdlePage
    BY <1>1, Zenon DEF SynchInv, CallersAlive, WaitListsExact, InDown
  <1>3. QED
    BY <1>1, <1>2, Zenon

\* t is the thread that sema_up (s) wakes.
Wakes(s, t) ==
    /\ t \in Thread /\ t \in Range(waiters[s]) /\ t = Head(waiters[s])
    /\ status[t] = "blocked" /\ InDown(t, s)
    /\ t # IdlePage /\ boot = "done" /\ Wakeable(t)
    /\ thread_unblock(t)
    /\ IsInjective(waiters'[s])
    /\ Range(waiters'[s]) = Range(waiters[s]) \ {t}

\* sema_up() raises the value, and wakes a sleeping thread if there is one.
LEMMA SemaUp ==
    ASSUME SynchInv, NEW s \in Semaphore, sema_up(s)
    PROVE  /\ value' \in [Semaphore -> Nat]
           /\ waiters' \in [Semaphore -> Seq(Thread)]
           /\ value'[s] = value[s] + 1
           /\ \A r \in Semaphore \ {s} : value'[r] = value[r] /\ waiters'[r] = waiters[r]
           /\ \/ \E t \in Thread : Wakes(s, t)
              \/ waiters[s] = <<>> /\ UNCHANGED <<waiters, status, ready_list>>
  <1>1. value \in [Semaphore -> Nat] /\ waiters \in [Semaphore -> Seq(Thread)]
    BY Zenon DEF SynchInv, SynchTypeOK
  <1>2. /\ value' \in [Semaphore -> Nat] /\ value'[s] = value[s] + 1
        /\ \A r \in Semaphore \ {s} : value'[r] = value[r]
    BY <1>1 DEF sema_up
  <1>3. CASE waiters[s] = <<>>
    BY <1>1, <1>2, <1>3, Zenon DEF sema_up
  <1>4. CASE waiters[s] # <<>>
    <2> DEFINE t == Head(waiters[s])
    <2>1. waiters' = [waiters EXCEPT ![s] = Tail(@)] /\ thread_unblock(t)
      BY <1>4, Zenon DEF sema_up
    <2>2. waiters[s] \in Seq(Thread) /\ IsInjective(waiters[s])
      BY <1>1, Zenon DEF SynchInv, WaitListsExact
    <2>3. /\ t \in Range(waiters[s]) /\ t \in Thread
          /\ Tail(waiters[s]) \in Seq(Thread) /\ IsInjective(Tail(waiters[s]))
          /\ Range(Tail(waiters[s])) = Range(waiters[s]) \ {t}
      BY <1>4, <2>2, PopFront, Zenon
    <2> HIDE DEF t
    <2>4. /\ waiters' \in [Semaphore -> Seq(Thread)]
          /\ waiters'[s] = Tail(waiters[s])
          /\ \A r \in Semaphore \ {s} : waiters'[r] = waiters[r]
      BY <1>1, <2>1, <2>3, Zenon
    <2>5. status[t] = "blocked" /\ InDown(t, s)
      BY <2>3, Zenon DEF SynchInv, WaitListsExact
    <2>6. t # IdlePage /\ boot = "done"
      BY <2>3, <2>5, Zenon DEF SynchInv, CallersAlive, InDown
    <2>7. Wakes(s, t)
      BY <2>1, <2>3, <2>4, <2>5, <2>6, Zenon DEF Wakes, Wakeable, t
    <2>8. QED
      BY <1>2, <2>3, <2>4, <2>7, Zenon
  <1>5. QED
    BY <1>3, <1>4, Zenon

\* sema_down() puts the current thread to sleep.
Sleeps(s) ==
    /\ value[s] = 0 /\ UNCHANGED <<value, pc, idle_thread, boot, idle_pc, idle_started>>
    /\ thread_block(FALSE)
    /\ waiters' \in [Semaphore -> Seq(Thread)]
    /\ IsInjective(waiters'[s])
    /\ Range(waiters'[s]) = Range(waiters[s]) \cup {current}
    /\ \A r \in Semaphore \ {s} : waiters'[r] = waiters[r]

\* sema_down() takes the semaphore, and the thread goes on at label.
Takes(s, label) ==
    /\ value[s] > 0
    /\ value' \in [Semaphore -> Nat]
    /\ value'[s] = value[s] - 1
    /\ \A r \in Semaphore \ {s} : value'[r] = value[r]
    /\ Goto(label) /\ client_set_level(old_level[current]) /\ UNCHANGED waiters

LEMMA SemaDown ==
    ASSUME SynchInv, InClient, NEW s \in Semaphore, NEW label, sema_down(s, label)
    PROVE  Sleeps(s) \/ Takes(s, label)
  <1>1. value \in [Semaphore -> Nat] /\ waiters \in [Semaphore -> Seq(Thread)]
    BY Zenon DEF SynchInv, SynchTypeOK
  <1>2. CASE value[s] = 0
    <2>1. /\ waiters' = [waiters EXCEPT ![s] = Append(@, current)] /\ thread_block(FALSE)
          /\ UNCHANGED <<value, pc, idle_thread, boot, idle_pc, idle_started>>
      <3>1. ~(value[s] > 0)
        BY <1>2
      <3>2. QED
        BY <3>1, Zenon DEF sema_down
    <2>2. /\ waiters[s] \in Seq(Thread) /\ IsInjective(waiters[s])
          /\ current \in Thread /\ current \notin Range(waiters[s])
      BY <1>1, ClientFacts, Zenon DEF SynchInv, WaitListsExact
    <2>3. /\ Append(waiters[s], current) \in Seq(Thread)
          /\ IsInjective(Append(waiters[s], current))
          /\ Range(Append(waiters[s], current)) = Range(waiters[s]) \cup {current}
      BY <2>2, PushBack
    <2>4. QED
      BY <1>1, <1>2, <2>1, <2>3, Zenon DEF Sleeps
  <1>3. CASE value[s] # 0
    <2>1. value[s] > 0 /\ value[s] - 1 \in Nat
      BY <1>1, <1>3
    <2>2. /\ value' = [value EXCEPT ![s] = @ - 1] /\ UNCHANGED waiters
          /\ Goto(label) /\ client_set_level(old_level[current])
      BY <1>3, Zenon DEF sema_down
    <2>3. QED
      BY <1>1, <2>1, <2>2, Zenon DEF Takes
  <1>4. QED
    BY <1>2, <1>3, Zenon

\* Every semaphore operation of a call is on a semaphore that exists.
LEMMA SemaOperands ==
    ASSUME SynchInv, InClient
    PROVE  /\ current \in Semaphore
           /\ pc[current] \in {"down", "acquire", "acquired", "release", "wait_release", "wait_up",
                               "wait_down", "signal", "broadcast_up"} => arg[current] \in Semaphore
           /\ pc[current] \in {"acquire", "acquired", "release", "wait_release", "wait_up", "wait_down"} =>
                arg[current] \in Lock
           /\ Sema \subseteq Semaphore /\ Lock \subseteq Semaphore /\ Thread \subseteq Semaphore
  BY ClientFacts, Zenon DEF SynchInv, CallOK, Semaphore

-----------------------------------------------------------------------------
(* The kinds of step.                                                      *)

\* Calls that leave the scheduler alone when they begin.
Begin ==
    \/ \E s \in Sema : call_sema_down(s) \/ sema_try_down(s)
    \/ \E l \in Lock \ {tid_lock} :
         call_lock_acquire(l) \/ call_lock_try_acquire(l) \/ call_lock_release(l)
    \/ \E c \in Cond : call_cond_wait(c) \/ call_cond_broadcast(c)

\* The end of cond_broadcast().
broadcast_end ==
    /\ At("broadcast") /\ Goto("client") /\ cv' = [cv EXCEPT ![current] = NULL]
    /\ UNCHANGED <<schedvars, value, waiters, holder, cond_waiters, arg, old_level, new, tid, next_tid>>

\* A step of a call that is neither sema_down() nor sema_up().
Work == acquired \/ wait_release \/ broadcast_end \/ tid_read \/ tid_inc \/ tid_release

\* cond_signal(), called by a client or by cond_broadcast(), takes the first
\* waiter off the list.
Pop(c, label) ==
    /\ InClient /\ c \in Cond /\ holder[LockOf[c]] = current
    /\ \/ pc[current] = "client" /\ label = "signal"
       \/ pc[current] = "broadcast" /\ cv[current] = c /\ label = "broadcast_up"
    /\ cond_waiters[c] # <<>>
    /\ cond_waiters' = [cond_waiters EXCEPT ![c] = Tail(cond_waiters[c])]
    /\ arg' = [arg EXCEPT ![current] = Head(cond_waiters[c])]
    /\ Goto(label)
    /\ UNCHANGED <<schedvars, value, waiters, holder, cv, old_level, new, tid, next_tid>>

\* A sema_down() on s, after which the thread goes on at label.
Down(s, label) ==
    /\ \/ At("down") /\ s = arg[current] /\ label = "client"
       \/ At("acquire") /\ s = arg[current] /\ label = "acquired"
       \/ At("wait_down") /\ s = current /\ label = "acquire"
    /\ s \in Semaphore /\ sema_down(s, label)
    /\ UNCHANGED <<holder, cond_waiters, arg, cv, old_level, new, tid, next_tid>>

\* A sema_up() on s: by a thread, or by an interrupt handler, which leaves the
\* labels as they are.
Up(s) ==
    /\ s \in Semaphore /\ sema_up(s) /\ boot' = boot
    /\ UNCHANGED <<holder, cond_waiters, arg, cv, old_level, new, tid, next_tid>>
    /\ \/ s \in Sema /\ pc' = pc
       \/ /\ s = arg[current]
          /\ \/ At("release") /\ Goto(IF s = tid_lock THEN "start" ELSE "client")
             \/ At("wait_up") /\ Goto("wait_down")
             \/ At("signal") /\ Goto("client")
             \/ At("broadcast_up") /\ Goto("broadcast")

CallStep ==
    \/ Begin \/ Work \/ start
    \/ \E t \in Thread : call_thread_create(t)
    \/ \E c \in Cond, label \in Label : Pop(c, label)
    \/ \E s \in Semaphore, label \in Label : Down(s, label)
    \/ \E s \in Semaphore : Up(s)

\* What the calls that begin have in common.
LEMMA BeginFacts ==
    ASSUME Begin
    PROVE  /\ InClient /\ pc[current] = "client"
           /\ UNCHANGED <<schedvars, waiters, new, tid, next_tid>>
           /\ \/ arg' = arg /\ (pc' = pc \/ Goto("broadcast"))
              \/ \E s \in Semaphore \ {tid_lock}, label \in {"down", "acquire", "acquired", "release", "wait_release"} :
                   arg' = [arg EXCEPT ![current] = s] /\ Goto(label)
           /\ cv' = cv \/ \E c \in Cond : cv' = [cv EXCEPT ![current] = c]
           /\ holder' = holder \/ \E l \in Lock : holder[l] = current /\ holder' = [holder EXCEPT ![l] = NULL]
           /\ \/ value' = value
              \/ \E s \in Sema \cup Lock : value[s] > 0 /\ value' = [value EXCEPT ![s] = @ - 1]
              \/ value' = [value EXCEPT ![current] = 0] /\ \E c \in Cond : call_cond_wait(c)
           /\ cond_waiters' = cond_waiters \/ \E c \in Cond : call_cond_wait(c)
  <1>1. CASE \E s \in Sema : call_sema_down(s) \/ sema_try_down(s)
    BY <1>1, SynchAssumption, Zenon DEF call_sema_down, sema_try_down, Call, At, Semaphore
  <1>2. CASE \E l \in Lock \ {tid_lock} :
               call_lock_acquire(l) \/ call_lock_try_acquire(l) \/ call_lock_release(l)
    BY <1>2, Zenon DEF call_lock_acquire, call_lock_try_acquire, call_lock_release, lock_held_by_current_thread,
                Call, At, Semaphore
  <1>3. CASE \E c \in Cond : call_cond_wait(c) \/ call_cond_broadcast(c)
    BY <1>3, SynchAssumption, Zenon DEF call_cond_wait, call_cond_broadcast, Call, At, Semaphore
  <1>4. QED
    BY <1>1, <1>2, <1>3, Zenon DEF Begin

\* And the steps of Work.
LEMMA WorkFacts ==
    ASSUME Work
    PROVE  /\ InClient
           /\ UNCHANGED <<schedvars, value, waiters, cond_waiters, arg, new>>
           /\ pc[current] \in {"acquired", "wait_release", "broadcast", "tid", "tid_inc", "tid_release"}
           /\ \E label \in {"client", "tid", "wait_up", "tid_inc", "tid_release", "release"} : Goto(label)
           /\ cv' = cv \/ cv' = [cv EXCEPT ![current] = NULL]
  BY Zenon DEF Work, acquired, wait_release, broadcast_end, tid_read, tid_inc, tid_release, At

\* The steps not treated so far are those of CallStep.
LEMMA StepKinds ==
    ASSUME SynchInv, SynchNext
    PROVE  \/ SynchBoot \/ SynchIdle \/ SynchTimer \/ call_thread_yield \/ call_thread_exit
           \/ \E lv \in BOOLEAN : call_intr_set_level(lv)
           \/ CallStep
  <1>1. CASE down \/ acquire \/ wait_down
    <2>1. InClient
      BY <1>1, Zenon DEF down, acquire, wait_down, At
    <2>2. \E s \in Semaphore, label \in Label : Down(s, label)
      BY <1>1, <2>1, SemaOperands, Zenon DEF down, acquire, wait_down, At, Down, Label
    <2>3. QED
      BY <2>2, Zenon DEF CallStep
  <1>2. CASE release \/ wait_up \/ signal \/ broadcast_up
    <2>1. InClient
      BY <1>2, Zenon DEF release, wait_up, signal, broadcast_up, At
    <2>2. Up(arg[current]) /\ arg[current] \in Semaphore
      BY <1>2, <2>1, SemaOperands, Zenon DEF release, wait_up, signal, broadcast_up, At, Up, RunOn
    <2>3. QED
      BY <2>2, Zenon DEF CallStep
  <1>3. ASSUME NEW s \in Sema, call_sema_up(s) \/ device_sema_up(s) PROVE CallStep
    BY <1>3, Zenon DEF call_sema_up, device_sema_up, CallStep, Up, RunOn, Semaphore
  <1>4. ASSUME NEW c \in Cond, call_cond_signal(c) PROVE CallStep
    <2>1. Pop(c, "signal")
      BY <1>4, Zenon DEF call_cond_signal, Call, At, Pop, lock_held_by_current_thread
    <2>2. QED
      BY <2>1, Zenon DEF CallStep, Label
  <1>5. CASE broadcast
    <2>1. cv[current] \in Cond /\ holder[LockOf[cv[current]]] = current
      BY <1>5, ClientFacts, Zenon DEF broadcast, At, SynchInv, CallOK
    <2>2. CASE cond_waiters[cv[current]] = <<>>
      BY <1>5, <2>2, Zenon DEF broadcast, broadcast_end, Work, CallStep
    <2>3. CASE cond_waiters[cv[current]] # <<>>
      <3>1. Pop(cv[current], "broadcast_up")
        BY <1>5, <2>1, <2>3, Zenon DEF broadcast, At, Pop
      <3>2. QED
        BY <2>1, <3>1, Zenon DEF CallStep, Label
    <2>4. QED
      BY <2>2, <2>3, Zenon
  <1>6. CASE Begin \/ Work \/ start \/ \E t \in Thread : call_thread_create(t)
    BY <1>6, Zenon DEF CallStep
  <1>7. QED
    BY <1>1, <1>2, <1>3, <1>4, <1>5, <1>6, Zenon DEF SynchNext, SynchCall, SynchStep, Begin, Work

-----------------------------------------------------------------------------
(* The state of the calls.                                                 *)

\* Initially, main() runs and no call is under way.
LEMMA SynchInitial == SynchInit => SynchInv
  <1> SUFFICES ASSUME SynchInit PROVE SynchInv
    OBVIOUS
  <1> USE SchedulerAssumption, SynchAssumption
  <1>1. SchedInit
    BY Zenon DEF SynchInit
  <1>2. SchedInv
    BY <1>1, SchedInitial, Zenon
  <1> USE DEF SynchInit
  <1>3. SynchTypeOK
    BY EmptyList, Zenon DEF SynchTypeOK, Label
  <1>4. (\A t \in Thread : CallOK(t)) /\ TidRead
    BY Zenon DEF CallOK, TidRead
  <1>5. CallersAlive /\ NewOK
    BY Zenon DEF CallersAlive, NewOK, Creating
  <1>6. CondListsExact
    BY EmptyList, Zenon DEF CondListsExact
  <1>7. LockExclusion
    BY Zenon DEF LockExclusion, Has, Semaphore
  <1>8. WaiterAlive
    BY EmptyList, Zenon DEF WaiterAlive, Signals
  <1>9. TidsUnique
    BY DEF TidsUnique
  <1>10. WaitListsExact /\ WakeupsKept
    BY EmptyList, Zenon DEF WaitListsExact, WakeupsKept
  <1>11. BlockedListed
    BY <1>1, Zenon DEF SchedInit, BlockedListed
  <1>12. QED
    BY <1>2, <1>3, <1>4, <1>5, <1>6, <1>7, <1>8, <1>9, <1>10, <1>11, Zenon DEF SynchInv

\* A conjunct that says nothing of threads' states depends on synchvars only.
LEMMA CallsFrame ==
    ASSUME SynchInv, UNCHANGED <<value, waiters, holder, cond_waiters, pc, arg, cv, old_level, new>>
    PROVE  /\ \A t \in Thread : CallOK(t)'
           /\ CondListsExact' /\ LockExclusion' /\ WaiterAlive' /\ WakeupsKept'
  <1>1. \A t \in Thread : CallOK(t)'
    BY Zenon DEF SynchInv, CallOK
  <1>2. CondListsExact'
    BY Zenon DEF SynchInv, CondListsExact
  <1>3. LockExclusion'
    BY DEF SynchInv, LockExclusion, Has
  <1>4. WaiterAlive'
    BY DEF SynchInv, WaiterAlive, InWait, Signals
  <1>5. WakeupsKept'
    BY Zenon DEF SynchInv, WakeupsKept, Awake, InDown
  <1>6. QED
    BY <1>1, <1>2, <1>3, <1>4, <1>5, Zenon

\* Types.
LEMMA TypesKept ==
    ASSUME SynchInv, CallStep
    PROVE  SynchTypeOK'
  <1>0. SynchTypeOK
    BY Zenon DEF SynchInv
  <1>1. CASE Begin
    <2>1. InClient /\ intr \in BOOLEAN
      BY <1>1, BeginFacts, Zenon DEF SynchInv, SchedInv, SchedTypeOK
    <2>2. current \in Thread /\ current \in Semaphore /\ Sema \subseteq Semaphore /\ Lock \subseteq Semaphore
          /\ Thread \subseteq Semaphore
      BY <2>1, ClientFacts, SemaOperands, Zenon
    <2>9. \A s \in Semaphore : value[s] > 0 => [value EXCEPT ![s] = @ - 1] \in [Semaphore -> Nat]
      BY <1>0 DEF SynchTypeOK
    <2>3. ASSUME NEW s \in Sema, call_sema_down(s) \/ sema_try_down(s) PROVE SynchTypeOK'
      <3>1. CASE call_sema_down(s)
        BY <1>0, <2>1, <2>2, <3>1, Zenon DEF SynchTypeOK, call_sema_down, Goto, Label
      <3>2. CASE sema_try_down(s)
        BY <1>0, <2>2, <2>9, <3>2, Zenon DEF SynchTypeOK, sema_try_down
      <3>3. QED
        BY <2>3, <3>1, <3>2, Zenon
    <2>4. ASSUME NEW l \in Lock, call_lock_acquire(l) \/ call_lock_try_acquire(l) \/ call_lock_release(l)
          PROVE  SynchTypeOK'
      <3>1. CASE call_lock_acquire(l)
        BY <1>0, <2>1, <2>2, <3>1, Zenon DEF SynchTypeOK, call_lock_acquire, Goto, Label
      <3>2. CASE call_lock_try_acquire(l)
        BY <1>0, <2>2, <2>9, <3>2, Zenon DEF SynchTypeOK, call_lock_try_acquire, Goto, Label
      <3>3. CASE call_lock_release(l)
        BY <1>0, <2>2, <3>3, Zenon DEF SynchTypeOK, call_lock_release, Goto, Label
      <3>4. QED
        BY <2>4, <3>1, <3>2, <3>3, Zenon
    <2>5. ASSUME NEW c \in Cond, call_cond_wait(c) PROVE SynchTypeOK'
      <3>1. Append(cond_waiters[c], current) \in Seq(Thread)
        BY <1>0, <2>2, PushBack, Zenon DEF SynchTypeOK
      <3>2. LockOf[c] \in Lock
        BY SynchAssumption, Zenon
      <3>3. QED
        BY <1>0, <2>1, <2>2, <2>5, <3>1, <3>2, Zenon DEF SynchTypeOK, call_cond_wait, Goto, Label
    <2>7. ASSUME NEW c \in Cond, call_cond_broadcast(c) PROVE SynchTypeOK'
      BY <1>0, <2>2, <2>7, Zenon DEF SynchTypeOK, call_cond_broadcast, Goto, Label
    <2>8. QED
      BY <1>1, <2>3, <2>4, <2>5, <2>7, Zenon DEF Begin
  <1>2. CASE Work
    <2>1. InClient
      BY <1>2, WorkFacts, Zenon
    <2>2. current \in Thread /\ Thread \subseteq Semaphore /\ CallOK(current)
      BY <2>1, ClientFacts, SemaOperands, Zenon DEF SynchInv
    <2>3. CASE acquired
      BY <1>0, <2>2, <2>3, Zenon DEF SynchTypeOK, acquired, At, CallOK, Goto, Label
    <2>4. CASE wait_release \/ tid_release
      BY <1>0, <2>2, <2>4, SynchAssumption, Zenon DEF SynchTypeOK, wait_release, tid_release, At, CallOK, Goto, Label
    <2>5. CASE tid_read \/ tid_inc
      <3>1. pc[current] \in {"tid", "tid_inc"}
        BY <2>5, Zenon DEF tid_read, tid_inc, At
      <3>2. new[current] \in Thread
        BY <1>0, <2>2, <3>1, Zenon DEF SynchTypeOK, SynchInv, NewOK, Creating
      <3>3. tid[new[current]] + 1 \in Nat
        BY <1>0, <3>2 DEF SynchTypeOK
      <3>4. CASE tid_read
        BY <1>0, <2>2, <3>2, <3>4, Zenon DEF SynchTypeOK, tid_read, Goto, Label
      <3>5. CASE tid_inc
        BY <1>0, <2>2, <3>3, <3>5, Zenon DEF SynchTypeOK, tid_inc, Goto, Label
      <3>6. QED
        BY <2>5, <3>4, <3>5, Zenon
    <2>6. CASE broadcast_end
      BY <1>0, <2>2, <2>6, Zenon DEF SynchTypeOK, broadcast_end, Goto, Label
    <2>7. QED
      BY <1>2, <2>3, <2>4, <2>5, <2>6, Zenon DEF Work
  <1>3. CASE start
    <2>1. current \in Thread
      BY <1>3, ClientFacts, Zenon DEF start, At
    <2>2. QED
      BY <1>0, <1>3, <2>1, Zenon DEF SynchTypeOK, start, Goto, Label
  <1>4. ASSUME NEW t \in Thread, call_thread_create(t) PROVE SynchTypeOK'
    <2>1. InClient /\ intr \in BOOLEAN
      BY <1>4, Zenon DEF call_thread_create, Call, At, SynchInv, SchedInv, SchedTypeOK
    <2>2. current \in Thread /\ tid_lock \in Semaphore
      BY <2>1, ClientFacts, SemaOperands, SynchAssumption, Zenon
    <2>3. QED
      BY <1>0, <1>4, <2>1, <2>2, Zenon DEF SynchTypeOK, call_thread_create, Goto, Label
  <1>5. ASSUME NEW s \in Semaphore, NEW label \in Label, Down(s, label) PROVE SynchTypeOK'
    <2>1. InClient
      BY <1>5, Zenon DEF Down, At
    <2>2. Sleeps(s) \/ Takes(s, label)
      BY <1>5, <2>1, SemaDown, Zenon DEF Down
    <2>3. QED
      BY <1>0, <1>5, <2>2, Zenon DEF SynchTypeOK, Down, Sleeps, Takes, Goto
  <1>6. ASSUME NEW s \in Semaphore, Up(s) PROVE SynchTypeOK'
    <2>1. value' \in [Semaphore -> Nat] /\ waiters' \in [Semaphore -> Seq(Thread)]
      BY <1>6, SemaUp, Zenon DEF Up
    <2>2. pc' \in [Thread -> Label]
      BY <1>0, <1>6, Zenon DEF SynchTypeOK, Up, Goto, Label
    <2>3. QED
      BY <1>0, <1>6, <2>1, <2>2, Zenon DEF SynchTypeOK, Up
  <1>7. ASSUME NEW c \in Cond, NEW label \in Label, Pop(c, label) PROVE SynchTypeOK'
    <2>1. Head(cond_waiters[c]) \in Thread /\ Tail(cond_waiters[c]) \in Seq(Thread)
      BY <1>0, <1>7 DEF SynchTypeOK, Pop
    <2>2. current \in Thread /\ Thread \subseteq Semaphore
      BY <1>7, ClientFacts, SemaOperands, Zenon DEF Pop
    <2>3. QED
      BY <1>0, <1>7, <2>1, <2>2, Zenon DEF SynchTypeOK, Pop, Goto
  <1>8. QED
    BY <1>1, <1>2, <1>3, <1>4, <1>5, <1>6, <1>7, Zenon DEF CallStep

\* A step changes the state of the call of the current thread only, and takes
\* no lock from another thread.
LEMMA CurrentOnly ==
    ASSUME SynchInv, CallStep
    PROVE  \A t \in Thread \ {current} :
              /\ pc'[t] = pc[t] /\ arg'[t] = arg[t] /\ cv'[t] = cv[t] /\ new'[t] = new[t]
              /\ \A l \in Lock : holder'[l] = t <=> holder[l] = t
  <1>0. /\ pc \in [Thread -> Label] /\ arg \in [Thread -> Semaphore \cup {NULL}]
        /\ cv \in [Thread -> Cond \cup {NULL}] /\ new \in [Thread -> Thread \cup {NULL}]
        /\ holder \in [Lock -> Thread \cup {NULL}]
        /\ NULL \notin Thread
    BY SchedulerAssumption, Zenon DEF SynchInv, SynchTypeOK
  <1>1. CASE Begin
    <2>1. \A t \in Thread \ {current} : \A m \in Lock : holder'[m] = t <=> holder[m] = t
      BY <1>0, <1>1, BeginFacts
    <2>2. \A t \in Thread \ {current} : pc'[t] = pc[t] /\ arg'[t] = arg[t] /\ cv'[t] = cv[t] /\ new'[t] = new[t]
      BY <1>0, <1>1, BeginFacts, Zenon DEF Goto
    <2>3. QED
      BY <2>1, <2>2, Zenon
  <1>2. CASE Work
    <2>1. InClient
      BY <1>2, WorkFacts, Zenon
    <2>2. current \in Thread /\ CallOK(current)
      BY <2>1, ClientFacts, Zenon DEF SynchInv
    <2>3. \A t \in Thread \ {current} : pc'[t] = pc[t] /\ arg'[t] = arg[t] /\ cv'[t] = cv[t] /\ new'[t] = new[t]
      BY <1>0, <1>2, WorkFacts, Zenon DEF Goto
    <2>4. CASE acquired
      <3>1. arg[current] \in Lock /\ holder' = [holder EXCEPT ![arg[current]] = current]
            /\ pc[current] = "acquired"
        BY <2>2, <2>4, Zenon DEF acquired, At, CallOK
      <3>2. holder[arg[current]] = NULL
        BY <2>2, <3>1, Zenon DEF SynchInv, LockExclusion
      <3>3. QED
        BY <1>0, <2>2, <2>3, <3>1, <3>2
    <2>5. CASE wait_release \/ tid_release
      <3>1. PICK l \in Lock : holder' = [holder EXCEPT ![l] = NULL] /\ holder[l] = current
        BY <2>2, <2>5, SynchAssumption, Zenon DEF wait_release, tid_release, At, CallOK
      <3>2. QED
        BY <1>0, <2>2, <2>3, <3>1, Zenon
    <2>6. CASE UNCHANGED holder
      BY <2>3, <2>6, Zenon
    <2>7. QED
      BY <1>2, <2>4, <2>5, <2>6, Zenon DEF Work, broadcast_end, tid_read, tid_inc
  <1>3. CASE start \/ (\E t \in Thread : call_thread_create(t))
    BY <1>0, <1>3, Zenon DEF start, call_thread_create, Goto
  <1>4. CASE \E c \in Cond, label \in Label : Pop(c, label)
    BY <1>0, <1>4, Zenon DEF Pop, Goto
  <1>5. ASSUME NEW s \in Semaphore, NEW label \in Label, Down(s, label)
        PROVE  \A t \in Thread \ {current} : pc'[t] = pc[t]
    <2>1. Sleeps(s) \/ Takes(s, label)
      BY <1>5, SemaDown, Zenon DEF Down, At
    <2>2. QED
      BY <1>0, <2>1, Zenon DEF Sleeps, Takes, Goto
  <1>6. CASE \E s \in Semaphore, label \in Label : Down(s, label)
    BY <1>5, <1>6, Zenon DEF Down
  <1>7. CASE \E s \in Semaphore : Up(s)
    BY <1>0, <1>7, Zenon DEF Up, Goto
  <1>8. QED
    BY <1>1, <1>2, <1>3, <1>4, <1>6, <1>7, Zenon DEF CallStep

\* The operands of calls.
LEMMA OperandsKept ==
    ASSUME SynchInv, CallStep
    PROVE  \A t \in Thread : CallOK(t)'
  <1> USE SynchAssumption
  <1>0. /\ pc \in [Thread -> Label] /\ arg \in [Thread -> Semaphore \cup {NULL}]
        /\ cv \in [Thread -> Cond \cup {NULL}] /\ holder \in [Lock -> Thread \cup {NULL}]
    BY Zenon DEF SynchInv, SynchTypeOK
  <1>1. ASSUME NEW t \in Thread \ {current} PROVE CallOK(t)'
    <2>1. CallOK(t)
      BY Zenon DEF SynchInv
    <2>2. /\ pc'[t] = pc[t] /\ arg'[t] = arg[t] /\ cv'[t] = cv[t]
          /\ \A l \in Lock : holder'[l] = t <=> holder[l] = t
      BY CurrentOnly, Zenon
    <2>3. QED
      BY <2>1, <2>2, Zenon DEF CallOK
  <1>2. current \in Thread
    BY Zenon DEF SynchInv, SchedInv, SchedTypeOK
  <1>3. CallOK(current)
    BY <1>2, Zenon DEF SynchInv
  <1> SUFFICES ASSUME NEW t \in Thread, t = current
               PROVE  CallOK(t)'
    BY <1>1, Zenon
  <1>4. CASE Begin
    <2>1. CASE \E s \in Sema : call_sema_down(s) \/ sema_try_down(s)
      BY <1>0, <1>2, <1>3, <2>1, Zenon DEF call_sema_down, sema_try_down, Goto, CallOK, Call, At
    <2>2. CASE \E l \in Lock \ {tid_lock} :
                 call_lock_acquire(l) \/ call_lock_try_acquire(l) \/ call_lock_release(l)
      <3>1. PICK l \in Lock \ {tid_lock} :
               call_lock_acquire(l) \/ call_lock_try_acquire(l) \/ call_lock_release(l)
        BY <2>2, Zenon
      <3>2. CASE call_lock_acquire(l)
        BY <1>0, <1>2, <3>2, Zenon DEF call_lock_acquire, Goto, CallOK
      <3>3. CASE call_lock_try_acquire(l)
        BY <1>0, <1>2, <3>3, Zenon DEF call_lock_try_acquire, Goto, CallOK
      <3>4. CASE call_lock_release(l)
        BY <1>0, <1>2, <3>4, Zenon DEF call_lock_release, Goto, CallOK
      <3>5. QED
        BY <3>1, <3>2, <3>3, <3>4, Zenon
    <2>3. CASE \E c \in Cond : call_cond_wait(c) \/ call_cond_broadcast(c)
      BY <1>0, <1>2, <2>3 DEF call_cond_wait, call_cond_broadcast, Goto, CallOK, lock_held_by_current_thread
    <2>4. QED
      BY <1>4, <2>1, <2>2, <2>3, Zenon DEF Begin
  <1>5. CASE Work
    <2>1. CASE acquired
      BY <1>0, <1>2, <1>3, <2>1, Zenon DEF acquired, At, Goto, CallOK
    <2>2. CASE wait_release
      <3>1. pc[t] = "wait_release" /\ pc'[t] = "wait_up" /\ arg'[t] = arg[t]
        BY <1>0, <1>2, <2>2, Zenon DEF wait_release, At, Goto
      <3>2. QED
        BY <1>3, <3>1, Zenon DEF CallOK
    <2>3. CASE broadcast_end
      <3>1. pc'[t] = "client"
        BY <1>0, <1>2, <2>3, Zenon DEF broadcast_end, Goto
      <3>2. QED
        BY <3>1, Zenon DEF CallOK
    <2>4. CASE tid_read \/ tid_inc \/ tid_release
      <3>1. /\ pc[t] \in {"tid", "tid_inc", "tid_release"} /\ arg'[t] = arg[t]
            /\ \/ pc'[t] = "release"
               \/ pc'[t] \in {"tid_inc", "tid_release"} /\ holder' = holder
        BY <1>0, <1>2, <2>4, Zenon DEF tid_read, tid_inc, tid_release, At, Goto
      <3>2. QED
        BY <1>3, <3>1, Zenon DEF CallOK
    <2>5. QED
      BY <1>5, <2>1, <2>2, <2>3, <2>4, Zenon DEF Work
  <1>6. CASE start
    <2>1. pc'[t] = "client"
      BY <1>0, <1>2, <1>6, Zenon DEF start, Goto
    <2>2. QED
      BY <2>1, Zenon DEF CallOK
  <1>7. CASE \E u \in Thread : call_thread_create(u)
    <2>1. pc'[t] = "acquire" /\ arg'[t] = tid_lock
      BY <1>0, <1>2, <1>7, Zenon DEF call_thread_create, Goto
    <2>2. QED
      BY <2>1, Zenon DEF CallOK
  <1>8. ASSUME NEW c \in Cond, NEW label \in Label, Pop(c, label) PROVE CallOK(t)'
    <2>1. Head(cond_waiters[c]) \in Thread
      BY <1>8 DEF Pop, SynchInv, SynchTypeOK
    <2>2. QED
      BY <1>0, <1>2, <1>8, <2>1, Zenon DEF Pop, Goto, CallOK
  <1>9. ASSUME NEW s \in Semaphore, NEW label \in Label, Down(s, label) PROVE CallOK(t)'
    <2>1. Sleeps(s) \/ Takes(s, label)
      BY <1>9, SemaDown, Zenon DEF Down, At
    <2>2. CASE Sleeps(s)
      <3>1. UNCHANGED <<pc, arg, cv, holder>>
        BY <1>9, <2>2, Zenon DEF Sleeps, Down
      <3>2. QED
        BY <1>3, <3>1, Zenon DEF CallOK
    <2>3. CASE Takes(s, label)
      <3>1. /\ pc'[t] = label /\ arg'[t] = arg[t]
            /\ \/ label = "client"
               \/ pc[t] \in {"acquire", "wait_down"} /\ label \in {"acquired", "acquire"}
        BY <1>0, <1>2, <1>9, <2>3, Zenon DEF Takes, Goto, Down, At
      <3>2. QED
        BY <1>3, <3>1, Zenon DEF CallOK
    <2>4. QED
      BY <2>1, <2>2, <2>3, Zenon
  <1>10. CASE \E s \in Semaphore : Up(s)
    <2>1. UNCHANGED <<arg, cv, holder>>
      BY <1>10, Zenon DEF Up
    <2>2. \/ pc'[t] = pc[t]
          \/ pc'[t] \in {"client", "start"}
          \/ pc[t] = "wait_up" /\ pc'[t] = "wait_down"
          \/ pc[t] = "broadcast_up" /\ pc'[t] = "broadcast"
      BY <1>0, <1>2, <1>10, Zenon DEF Up, At, Goto
    <2>3. QED
      BY <1>3, <2>1, <2>2, Zenon DEF CallOK
  <1>11. QED
    BY <1>4, <1>5, <1>6, <1>7, <1>8, <1>9, <1>10, Zenon DEF CallStep

\* How a step changes who is creating a thread.
LEMMA CreateSteps ==
    ASSUME SynchInv, CallStep, NEW t \in Thread, t = current
    PROVE  \/ new'[t] = new[t] /\ (Creating(t)' <=> Creating(t))
           \/ start /\ new'[t] = NULL /\ ~Creating(t)'
           \/ \E u \in Thread : call_thread_create(u) /\ new'[t] = u /\ Creating(t)' /\ pc'[t] # "client"
  <1>0. /\ pc \in [Thread -> Label] /\ arg \in [Thread -> Semaphore \cup {NULL}]
        /\ new \in [Thread -> Thread \cup {NULL}] /\ CallOK(t)
    BY Zenon DEF SynchInv, SynchTypeOK
  <1> USE SynchAssumption DEF Creating
  <1>1. CASE Begin
    <2>1. new'[t] = new[t] /\ pc[t] = "client"
      BY <1>0, <1>1, BeginFacts, Zenon
    <2>2. ~Creating(t)'
      BY <1>0, <1>1, BeginFacts, Zenon DEF Goto
    <2>3. QED
      BY <2>1, <2>2, Zenon
  <1>2. CASE Work
    <2>1. new'[t] = new[t]
      BY <1>2, WorkFacts, Zenon
    <2>2. CASE acquired
      BY <1>0, <2>1, <2>2, Zenon DEF acquired, At, Goto
    <2>3. CASE wait_release \/ broadcast_end
      BY <1>0, <2>1, <2>3, Zenon DEF wait_release, broadcast_end, At, Goto
    <2>4. CASE tid_read \/ tid_inc \/ tid_release
      BY <1>0, <2>1, <2>4, Zenon DEF tid_read, tid_inc, tid_release, At, Goto, CallOK
    <2>5. QED
      BY <1>2, <2>2, <2>3, <2>4, Zenon DEF Work
  <1>3. CASE start
    BY <1>0, <1>3, Zenon DEF start, Goto
  <1>4. ASSUME NEW u \in Thread, call_thread_create(u)
        PROVE  new'[t] = u /\ Creating(t)' /\ pc'[t] # "client"
    BY <1>0, <1>4, Zenon DEF call_thread_create, Goto
  <1>5. CASE \E c \in Cond, label \in Label : Pop(c, label)
    BY <1>0, <1>5, Zenon DEF Pop, Goto
  <1>6. ASSUME NEW s \in Semaphore, NEW label \in Label, Down(s, label)
        PROVE  new'[t] = new[t] /\ (Creating(t)' <=> Creating(t))
    <2>1. Sleeps(s) \/ Takes(s, label)
      BY <1>6, SemaDown, Zenon DEF Down, At
    <2>2. QED
      BY <1>0, <1>6, <2>1, Zenon DEF Down, At, Sleeps, Takes, Goto, CallOK
  <1>7. CASE \E s \in Semaphore : Up(s)
    BY <1>0, <1>7, Zenon DEF Up, At, Goto, CallOK
  <1>8. QED
    BY <1>1, <1>2, <1>3, <1>4, <1>5, <1>6, <1>7, Zenon DEF CallStep

=============================================================================
