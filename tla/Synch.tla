------------------------------- MODULE Synch -------------------------------
(***************************************************************************)
(* Semaphores, locks and condition variables (threads/synch.c) on top of   *)
(* the scheduler, and thread_create() with its tid_lock (threads/thread.c).*)
(*                                                                         *)
(* Each thread other than the idle thread is a client that makes any       *)
(* sequence of calls its preconditions (the ASSERTs of synch.c) allow.     *)
(* pc[t] is where t is inside a call.  sema_down(), sema_try_down() and    *)
(* sema_up() run with interrupts off and are single steps; between two     *)
(* steps of a lock or condition variable operation the timer may switch to *)
(* another thread.                                                         *)
(***************************************************************************)
EXTENDS Scheduler, FiniteSets

CONSTANTS
    Sema,       \* semaphores that clients use directly
    Lock,       \* locks
    tid_lock,   \* the lock of allocate_tid()
    Cond,       \* condition variables
    LockOf,     \* LockOf[c]: the only lock that c is used with
    Ops,        \* the kinds of calls that clients make
    MaxValue,   \* bound: clients do not raise a semaphore beyond this value
    MaxTid      \* bound: no thread is created once next_tid has reached it

\* A lock is a semaphore with a holder; every thread has, on its stack while it
\* is in cond_wait(), the semaphore of a struct semaphore_elem.
Semaphore == Sema \cup Lock \cup Thread

ASSUME SynchAssumption ==
    /\ tid_lock \in Lock
    /\ NULL \notin Semaphore
    /\ Sema \cap Lock = {} /\ Sema \cap Thread = {} /\ Lock \cap Thread = {}
    /\ LockOf \in [Cond -> Lock \ {tid_lock}]
    /\ Ops \subseteq {"sema", "device", "lock", "cond", "create", "exit", "level"}
    /\ MaxValue \in Nat /\ MaxTid \in Nat
    /\ IsFiniteSet(Thread)

VARIABLES
    value,        \* value[s]: value of semaphore s
    waiters,      \* waiters[s]: threads that sleep in sema_down (s)
    holder,       \* holder[l]: lock->holder
    cond_waiters, \* cond_waiters[c]: threads whose semaphore_elem is in c's list
    pc,           \* where each thread is in its call
    arg,          \* the semaphore or lock of the call, or the thread signalled
    cv,           \* the condition variable of cond_broadcast()
    old_level,    \* interrupt level at the call
    new,          \* the page of the thread that thread_create() is creating
    tid,          \* tid[t]: t->tid, 0 before allocate_tid() returned
    next_tid

synchvars == <<value, waiters, holder, cond_waiters, pc, arg, cv, old_level, new, tid, next_tid>>
vars == <<schedvars, synchvars>>

\* sema_init (s, 0), lock_init(), cond_init(); main() has tid 1 (thread_init()).
SynchInit ==
    /\ SchedInit
    /\ value = [s \in Semaphore |-> IF s \in Lock THEN 1 ELSE 0]
    /\ waiters = [s \in Semaphore |-> <<>>]
    /\ holder = [l \in Lock |-> NULL]
    /\ cond_waiters = [c \in Cond |-> <<>>]
    /\ pc = [t \in Thread |-> "client"]
    /\ arg = [t \in Thread |-> NULL]
    /\ cv = [t \in Thread |-> NULL]
    /\ old_level = [t \in Thread |-> TRUE]
    /\ new = [t \in Thread |-> NULL]
    /\ tid = [t \in Thread |-> IF t = initial_thread THEN 1 ELSE 0]
    /\ next_tid = 2

-----------------------------------------------------------------------------
At(label) == InClient /\ pc[current] = label
Goto(label) == pc' = [pc EXCEPT ![current] = label]

\* The current thread starts a call of the given kind.
Call(kind) == At("client") /\ kind \in Ops

\* Everything but the waking of a thread stays as it is in the scheduler.
RunOn == UNCHANGED <<current, idle_thread, destruction_req, thread_ticks, intr,
                     level, boot, idle_pc, idle_started>>

lock_held_by_current_thread(l) == holder[l] = current

\* Mutant: IF instead of WHILE, the value is not tested again after sleeping.
sema_down_NoRecheck(s, next) ==
    \/ /\ value[s] = 0 /\ intr
       /\ waiters' = [waiters EXCEPT ![s] = Append(@, current)]
       /\ thread_block(FALSE)
       /\ UNCHANGED <<value, pc, idle_thread, boot, idle_pc, idle_started>>
    \/ /\ value[s] > 0 \/ ~intr
       /\ value' = [value EXCEPT ![s] = IF @ > 0 THEN @ - 1 ELSE 0]
       /\ Goto(next)
       /\ client_set_level(old_level[current])
       /\ UNCHANGED waiters

\* One round of the loop of sema_down(): the thread sleeps and will test the
\* value again, or takes the semaphore, restores the level and goes on at next.
sema_down(s, next) ==
    \/ /\ value[s] = 0
       /\ waiters' = [waiters EXCEPT ![s] = Append(@, current)]
       /\ thread_block(FALSE)
       /\ UNCHANGED <<value, pc, idle_thread, boot, idle_pc, idle_started>>
    \/ /\ value[s] > 0
       /\ value' = [value EXCEPT ![s] = @ - 1]
       /\ Goto(next)
       /\ client_set_level(old_level[current])
       /\ UNCHANGED waiters

\* Mutant: no thread is woken.
sema_up_NoWakeup(s) ==
    /\ value' = [value EXCEPT ![s] = @ + 1]
    /\ UNCHANGED <<status, ready_list, waiters>>

\* Mutant: a waiter is woken only if the value was zero.
sema_up_OnlyFromZero(s) ==
    /\ value' = [value EXCEPT ![s] = @ + 1]
    /\ \/ /\ waiters[s] # <<>> /\ value[s] = 0
          /\ thread_unblock(Head(waiters[s]))
          /\ waiters' = [waiters EXCEPT ![s] = Tail(@)]
       \/ /\ waiters[s] = <<>> \/ value[s] # 0
          /\ UNCHANGED <<status, ready_list, waiters>>

\* sema_up(): wakes the first waiter, if there is one, and raises the value.
sema_up(s) ==
    /\ value' = [value EXCEPT ![s] = @ + 1]
    /\ \/ /\ waiters[s] # <<>>
          /\ thread_unblock(Head(waiters[s]))
          /\ waiters' = [waiters EXCEPT ![s] = Tail(@)]
       \/ /\ waiters[s] = <<>>
          /\ UNCHANGED <<status, ready_list, waiters>>

-----------------------------------------------------------------------------
(* Semaphores used directly, by threads and by interrupt handlers.         *)

call_sema_down(s) ==
    /\ Call("sema")
    /\ Goto("down")
    /\ arg' = [arg EXCEPT ![current] = s]
    /\ old_level' = [old_level EXCEPT ![current] = intr]
    /\ UNCHANGED <<schedvars, value, waiters, holder, cond_waiters, cv, new, tid, next_tid>>

down ==
    /\ At("down")
    /\ sema_down(arg[current], "client")
    /\ UNCHANGED <<holder, cond_waiters, arg, cv, old_level, new, tid, next_tid>>

sema_try_down(s) ==
    /\ Call("sema")
    /\ value[s] > 0
    /\ value' = [value EXCEPT ![s] = @ - 1]
    /\ UNCHANGED <<schedvars, waiters, holder, cond_waiters, pc, arg, cv, old_level, new, tid, next_tid>>

call_sema_up(s) ==
    /\ Call("sema")
    /\ value[s] < MaxValue
    /\ sema_up(s)
    /\ RunOn
    /\ UNCHANGED <<holder, cond_waiters, pc, arg, cv, old_level, new, tid, next_tid>>

\* An interrupt handler calls sema_up(), as the disk's does.
device_sema_up(s) ==
    /\ "device" \in Ops
    /\ intr
    /\ leave_hlt
    /\ value[s] < MaxValue
    /\ sema_up(s)
    /\ UNCHANGED <<current, idle_thread, destruction_req, thread_ticks, intr, level, boot, idle_started>>
    /\ UNCHANGED <<holder, cond_waiters, pc, arg, cv, old_level, new, tid, next_tid>>

-----------------------------------------------------------------------------
(* Locks.                                                                  *)

call_lock_acquire(l) ==
    /\ Call("lock")
    /\ ~lock_held_by_current_thread(l)
    /\ Goto("acquire")
    /\ arg' = [arg EXCEPT ![current] = l]
    /\ old_level' = [old_level EXCEPT ![current] = intr]
    /\ UNCHANGED <<schedvars, value, waiters, holder, cond_waiters, cv, new, tid, next_tid>>

\* sema_down (&lock->semaphore), also at the end of cond_wait().
acquire ==
    /\ At("acquire")
    /\ sema_down(arg[current], "acquired")
    /\ UNCHANGED <<holder, cond_waiters, arg, cv, old_level, new, tid, next_tid>>

\* lock->holder = thread_current (), and return to the caller.
acquired ==
    /\ At("acquired")
    /\ holder' = [holder EXCEPT ![arg[current]] = current]
    /\ Goto(IF arg[current] = tid_lock THEN "tid" ELSE "client")
    /\ UNCHANGED <<schedvars, value, waiters, cond_waiters, arg, cv, old_level, new, tid, next_tid>>

\* sema_try_down() of lock_try_acquire(), if it succeeds.
call_lock_try_acquire(l) ==
    /\ Call("lock")
    /\ ~lock_held_by_current_thread(l)
    /\ value[l] > 0
    /\ value' = [value EXCEPT ![l] = @ - 1]
    /\ Goto("acquired")
    /\ arg' = [arg EXCEPT ![current] = l]
    /\ UNCHANGED <<schedvars, waiters, holder, cond_waiters, cv, old_level, new, tid, next_tid>>

\* lock->holder = NULL, the first half of lock_release().
call_lock_release(l) ==
    /\ Call("lock")
    /\ lock_held_by_current_thread(l)
    /\ holder' = [holder EXCEPT ![l] = NULL]
    /\ Goto("release")
    /\ arg' = [arg EXCEPT ![current] = l]
    /\ UNCHANGED <<schedvars, value, waiters, cond_waiters, cv, old_level, new, tid, next_tid>>

\* sema_up (&lock->semaphore), the second half.
release ==
    /\ At("release")
    /\ sema_up(arg[current])
    /\ Goto(IF arg[current] = tid_lock THEN "start" ELSE "client")
    /\ RunOn
    /\ UNCHANGED <<holder, cond_waiters, arg, cv, old_level, new, tid, next_tid>>

-----------------------------------------------------------------------------
(* Condition variables.                                                    *)

\* Mutant: list_push_front().
call_cond_wait_AtFront(c) ==
    /\ Call("cond")
    /\ lock_held_by_current_thread(LockOf[c])
    /\ value' = [value EXCEPT ![current] = 0]
    /\ cond_waiters' = [cond_waiters EXCEPT ![c] = <<current>> \o @]
    /\ Goto("wait_release")
    /\ arg' = [arg EXCEPT ![current] = LockOf[c]]
    /\ old_level' = [old_level EXCEPT ![current] = intr]
    /\ UNCHANGED <<schedvars, waiters, holder, cv, new, tid, next_tid>>

\* sema_init (&waiter.semaphore, 0), list_push_back (&cond->waiters, ...).
call_cond_wait(c) ==
    /\ Call("cond")
    /\ lock_held_by_current_thread(LockOf[c])
    /\ value' = [value EXCEPT ![current] = 0]
    /\ cond_waiters' = [cond_waiters EXCEPT ![c] = Append(@, current)]
    /\ Goto("wait_release")
    /\ arg' = [arg EXCEPT ![current] = LockOf[c]]
    /\ old_level' = [old_level EXCEPT ![current] = intr]
    /\ UNCHANGED <<schedvars, waiters, holder, cv, new, tid, next_tid>>

\* The two halves of lock_release (lock).
wait_release ==
    /\ At("wait_release")
    /\ holder' = [holder EXCEPT ![arg[current]] = NULL]
    /\ Goto("wait_up")
    /\ UNCHANGED <<schedvars, value, waiters, cond_waiters, arg, cv, old_level, new, tid, next_tid>>

wait_up ==
    /\ At("wait_up")
    /\ sema_up(arg[current])
    /\ Goto("wait_down")
    /\ RunOn
    /\ UNCHANGED <<holder, cond_waiters, arg, cv, old_level, new, tid, next_tid>>

\* sema_down (&waiter.semaphore), then lock_acquire (lock).
wait_down ==
    /\ At("wait_down")
    /\ sema_down(current, "acquire")
    /\ UNCHANGED <<holder, cond_waiters, arg, cv, old_level, new, tid, next_tid>>

\* Mutant: list_front() instead of list_pop_front().
call_cond_signal_NoPop(c) ==
    /\ Call("cond")
    /\ lock_held_by_current_thread(LockOf[c])
    /\ cond_waiters[c] # <<>>
    /\ arg' = [arg EXCEPT ![current] = Head(cond_waiters[c])]
    /\ Goto("signal")
    /\ UNCHANGED <<schedvars, value, waiters, holder, cond_waiters, cv, old_level, new, tid, next_tid>>

\* list_pop_front (&cond->waiters) of cond_signal(), if there is a waiter.
call_cond_signal(c) ==
    /\ Call("cond")
    /\ lock_held_by_current_thread(LockOf[c])
    /\ cond_waiters[c] # <<>>
    /\ cond_waiters' = [cond_waiters EXCEPT ![c] = Tail(@)]
    /\ arg' = [arg EXCEPT ![current] = Head(cond_waiters[c])]
    /\ Goto("signal")
    /\ UNCHANGED <<schedvars, value, waiters, holder, cv, old_level, new, tid, next_tid>>

signal ==
    /\ At("signal")
    /\ sema_up(arg[current])
    /\ Goto("client")
    /\ RunOn
    /\ UNCHANGED <<holder, cond_waiters, arg, cv, old_level, new, tid, next_tid>>

call_cond_broadcast(c) ==
    /\ Call("cond")
    /\ lock_held_by_current_thread(LockOf[c])
    /\ cv' = [cv EXCEPT ![current] = c]
    /\ Goto("broadcast")
    /\ UNCHANGED <<schedvars, value, waiters, holder, cond_waiters, arg, old_level, new, tid, next_tid>>

\* while (!list_empty (&cond->waiters)) cond_signal (cond, lock);
broadcast ==
    /\ At("broadcast")
    /\ LET c == cv[current] IN
       \/ /\ cond_waiters[c] = <<>>
          /\ Goto("client")
          /\ cv' = [cv EXCEPT ![current] = NULL]
          /\ UNCHANGED <<cond_waiters, arg>>
       \/ /\ cond_waiters[c] # <<>>
          /\ cond_waiters' = [cond_waiters EXCEPT ![c] = Tail(@)]
          /\ arg' = [arg EXCEPT ![current] = Head(cond_waiters[c])]
          /\ Goto("broadcast_up")
          /\ UNCHANGED cv
    /\ UNCHANGED <<schedvars, value, waiters, holder, old_level, new, tid, next_tid>>

broadcast_up ==
    /\ At("broadcast_up")
    /\ sema_up(arg[current])
    /\ Goto("broadcast")
    /\ RunOn
    /\ UNCHANGED <<holder, cond_waiters, arg, cv, old_level, new, tid, next_tid>>

-----------------------------------------------------------------------------
(* thread_create(), thread_exit(), intr_set_level().                       *)

\* Mutant: allocate_tid() does not take tid_lock.
call_thread_create_NoLock(t) ==
    /\ Call("create")
    /\ next_tid < MaxTid
    /\ client_create(t)
    /\ new' = [new EXCEPT ![current] = t]
    /\ tid' = [tid EXCEPT ![t] = 0]
    /\ Goto("tid")
    /\ arg' = [arg EXCEPT ![current] = tid_lock]
    /\ old_level' = [old_level EXCEPT ![current] = intr]
    /\ UNCHANGED <<value, waiters, holder, cond_waiters, cv, next_tid>>

\* palloc_get_page(), init_thread(), and the call of allocate_tid().
call_thread_create(t) ==
    /\ Call("create")
    /\ next_tid < MaxTid
    /\ client_create(t)
    /\ new' = [new EXCEPT ![current] = t]
    /\ tid' = [tid EXCEPT ![t] = 0]
    /\ Goto("acquire")
    /\ arg' = [arg EXCEPT ![current] = tid_lock]
    /\ old_level' = [old_level EXCEPT ![current] = intr]
    /\ UNCHANGED <<value, waiters, holder, cond_waiters, cv, next_tid>>

\* tid = next_tid++: the two memory accesses of the increment.
tid_read ==
    /\ At("tid")
    /\ tid' = [tid EXCEPT ![new[current]] = next_tid]
    /\ Goto("tid_inc")
    /\ UNCHANGED <<schedvars, value, waiters, holder, cond_waiters, arg, cv, old_level, new, next_tid>>

tid_inc ==
    /\ At("tid_inc")
    /\ next_tid' = tid[new[current]] + 1
    /\ Goto("tid_release")
    /\ UNCHANGED <<schedvars, value, waiters, holder, cond_waiters, arg, cv, old_level, new, tid>>

tid_release ==
    /\ At("tid_release")
    /\ holder' = [holder EXCEPT ![tid_lock] = NULL]
    /\ Goto("release")
    /\ UNCHANGED <<schedvars, value, waiters, cond_waiters, arg, cv, old_level, new, tid, next_tid>>

\* Mutant: the new thread is marked ready but never queued.
start_NotQueued ==
    /\ At("start")
    /\ status' = [status EXCEPT ![new[current]] = "ready"]
    /\ new' = [new EXCEPT ![current] = NULL]
    /\ Goto("client")
    /\ RunOn
    /\ UNCHANGED <<ready_list, value, waiters, holder, cond_waiters, arg, cv, old_level, tid, next_tid>>

\* thread_unblock (t): the new thread may run.
start ==
    /\ At("start")
    /\ thread_unblock(new[current])
    /\ new' = [new EXCEPT ![current] = NULL]
    /\ Goto("client")
    /\ RunOn
    /\ UNCHANGED <<value, waiters, holder, cond_waiters, arg, cv, old_level, tid, next_tid>>

\* A thread does not exit while it holds a lock.
call_thread_exit ==
    /\ Call("exit")
    /\ \A l \in Lock : ~lock_held_by_current_thread(l)
    /\ thread_exit
    /\ UNCHANGED synchvars

call_intr_set_level(lv) ==
    /\ Call("level")
    /\ client_set_level(lv)
    /\ UNCHANGED synchvars

call_thread_yield ==
    /\ Call("level")
    /\ client_yield
    /\ UNCHANGED synchvars

-----------------------------------------------------------------------------
\* thread_start() also gives the idle thread its tid.
SynchBoot ==
    /\ Boot
    /\ IF boot = "create"
       THEN tid' = [tid EXCEPT ![IdlePage] = next_tid] /\ next_tid' = next_tid + 1
       ELSE UNCHANGED <<tid, next_tid>>
    /\ UNCHANGED <<value, waiters, holder, cond_waiters, pc, arg, cv, old_level, new>>

SynchIdle == Idle /\ UNCHANGED synchvars

SynchTimer == timer_interrupt /\ UNCHANGED synchvars

SynchCall ==
    \/ \E s \in Sema : call_sema_down(s) \/ sema_try_down(s) \/ call_sema_up(s)
    \/ \E l \in Lock \ {tid_lock} :
         call_lock_acquire(l) \/ call_lock_try_acquire(l) \/ call_lock_release(l)
    \/ \E c \in Cond : call_cond_wait(c) \/ call_cond_signal(c) \/ call_cond_broadcast(c)
    \/ \E t \in Thread : call_thread_create(t)
    \/ \E lv \in BOOLEAN : call_intr_set_level(lv)
    \/ call_thread_yield
    \/ call_thread_exit

SynchStep ==
    \/ down \/ acquire \/ acquired \/ release
    \/ wait_release \/ wait_up \/ wait_down \/ signal \/ broadcast \/ broadcast_up
    \/ tid_read \/ tid_inc \/ tid_release \/ start

SynchNext ==
    \/ SynchBoot \/ SynchIdle \/ SynchTimer
    \/ \E s \in Sema : device_sema_up(s)
    \/ SynchCall
    \/ SynchStep

SynchSpec == SynchInit /\ [][SynchNext]_vars

\* As for the scheduler: a thread that is run again and again gets on with a
\* call it has begun.  Nothing is assumed about which calls clients make; this
\* is meant for clients that leave interrupts on ("level" not in Ops).
SynchFairSpec ==
    /\ SynchSpec
    /\ SF_vars(SynchBoot)
    /\ SF_vars(SynchIdle)
    /\ SF_vars(SynchTimer)
    /\ \A t \in Thread : SF_vars(current = t /\ SynchStep)

-----------------------------------------------------------------------------
(* Correctness.                                                            *)

\* t is in sema_down (s).
InDown(t, s) ==
    \/ pc[t] \in {"down", "acquire"} /\ arg[t] = s
    \/ pc[t] = "wait_down" /\ s = t

\* t has decremented the semaphore of lock l and not raised it again.
Has(t, l) ==
    \/ holder[l] = t
    \/ pc[t] \in {"acquired", "release", "wait_up"} /\ arg[t] = l

\* t has been woken in sema_down (s), or has not slept in it yet.
Awake(t, s) == InDown(t, s) /\ t \notin Range(waiters[s])

\* A wait list holds only blocked threads that are in sema_down() of that
\* semaphore, each once.
WaitListsExact ==
    \A s \in Semaphore :
        /\ IsInjective(waiters[s])
        /\ \A t \in Range(waiters[s]) : status[t] = "blocked" /\ InDown(t, s)

\* A blocked thread is on a wait list, or being created, or in thread_start().
BlockedListed ==
    \A t \in Thread \ {IdlePage} :
        status[t] = "blocked" =>
            \/ \E s \in Semaphore : t \in Range(waiters[s])
            \/ \E u \in Thread : new[u] = t
            \/ t = initial_thread /\ boot # "done"

\* If threads sleep on a semaphore whose value is v > 0, at least v threads
\* have been woken and are on their way to take it.
WakeupsKept ==
    \A s \in Semaphore :
        waiters[s] # <<>> => value[s] <= Cardinality({t \in Thread : Awake(t, s)})

\* A thread's elem serves the run queue and the wait lists of semaphores
\* because it is never on two of them (thread.h:82-87): the wait lists hold
\* exactly the threads that sleep there, no thread is blocked where nobody
\* would find it, and no wakeup is lost.
SleepersListed == WaitListsExact /\ BlockedListed /\ WakeupsKept

\* Mutual exclusion.  A lock is free exactly when its semaphore is 1, at most
\* one thread has it, and while lock->holder lags behind the semaphore it is
\* NULL, so that lock_held_by_current_thread() is right for its caller.
LockExclusion ==
    \A l \in Lock :
        /\ value[l] = IF \E t \in Thread : Has(t, l) THEN 0 ELSE 1
        /\ \A t, u \in Thread : Has(t, l) /\ Has(u, l) => t = u
        /\ \A t \in Thread : pc[t] \in {"acquired", "release", "wait_up"} /\ arg[t] = l => holder[l] = NULL

\* t is in cond_wait() and has not taken its semaphore yet.
InWait(t) == pc[t] \in {"wait_release", "wait_up", "wait_down"}

\* u has taken t's semaphore_elem off a list and is about to raise it.
Signals(u, t) == pc[u] \in {"signal", "broadcast_up"} /\ arg[u] = t

\* A semaphore_elem lives on the stack of the thread in cond_wait(): whoever
\* holds a pointer to it, a condition's list or a signaller between its
\* list_pop_front() and its sema_up(), holds one to a live object, and only one
\* of them does.
WaiterAlive ==
    \A t \in Thread :
        /\ \A c \in Cond : t \in Range(cond_waiters[c]) =>
             InWait(t) /\ value[t] = 0 /\ \A u \in Thread : ~Signals(u, t)
        /\ \A u \in Thread : Signals(u, t) => pc[t] = "wait_down" /\ value[t] = 0
        /\ \A u, w \in Thread : Signals(u, t) /\ Signals(w, t) => u = w

\* allocate_tid() never gives two threads that exist together the same tid,
\* nor one that was used before (next_tid is beyond all of them).
TidsUnique ==
    LET Live == {t \in Thread : status[t] # "none" /\ tid[t] # 0} IN
    /\ \A t, u \in Live : tid[t] = tid[u] => t = u
    /\ \A t \in Live : tid[t] < next_tid \/ \E u \in Thread : pc[u] = "tid_inc" /\ new[u] = t

-----------------------------------------------------------------------------
(* The inductive invariant from which the properties above follow.         *)

Label == {"client", "down", "acquire", "acquired", "release", "wait_release", "wait_up",
          "wait_down", "signal", "broadcast", "broadcast_up", "tid", "tid_inc",
          "tid_release", "start"}

SynchTypeOK ==
    /\ value \in [Semaphore -> Nat]
    /\ waiters \in [Semaphore -> Seq(Thread)]
    /\ holder \in [Lock -> Thread \cup {NULL}]
    /\ cond_waiters \in [Cond -> Seq(Thread)]
    /\ pc \in [Thread -> Label]
    /\ arg \in [Thread -> Semaphore \cup {NULL}]
    /\ cv \in [Thread -> Cond \cup {NULL}]
    /\ old_level \in [Thread -> BOOLEAN]
    /\ new \in [Thread -> Thread \cup {NULL}]
    /\ tid \in [Thread -> Nat]
    /\ next_tid \in Nat

\* What the call that t is in works on, and which lock t holds there.
CallOK(t) ==
    /\ pc[t] = "down" => arg[t] \in Sema
    /\ pc[t] \in {"acquire", "acquired", "release"} => arg[t] \in Lock
    /\ pc[t] \in {"wait_release", "wait_up", "wait_down"} => arg[t] \in Lock \ {tid_lock}
    /\ pc[t] = "wait_release" => holder[arg[t]] = t
    /\ pc[t] \in {"signal", "broadcast_up"} => arg[t] \in Thread
    /\ pc[t] \in {"broadcast", "broadcast_up"} => cv[t] \in Cond /\ holder[LockOf[cv[t]]] = t
    /\ pc[t] \in {"tid", "tid_inc", "tid_release"} => arg[t] = tid_lock /\ holder[tid_lock] = t

\* A thread in a call, or with a lock, is alive, and neither the idle thread
\* nor main() inside thread_start().
CallersAlive ==
    \A t \in Thread :
        pc[t] # "client" \/ (\E l \in Lock : holder[l] = t) =>
            status[t] \in {"running", "ready", "blocked"} /\ t # IdlePage /\ boot = "done"

\* t is in thread_create(), from init_thread() to thread_unblock().
Creating(t) ==
    \/ pc[t] \in {"tid", "tid_inc", "tid_release", "start"}
    \/ pc[t] \in {"acquire", "acquired", "release"} /\ arg[t] = tid_lock

\* A thread that is being created sleeps, makes no call and has one creator.
NewOK ==
    \A t \in Thread :
        /\ new[t] # NULL <=> Creating(t)
        /\ new[t] # NULL =>
             /\ status[new[t]] = "blocked" /\ pc[new[t]] = "client" /\ new[t] # IdlePage
             /\ \A u \in Thread : new[u] = new[t] => u = t

\* A thread waits for one condition variable at most, and is in its list once.
CondListsExact ==
    /\ \A c \in Cond :
          IsInjective(cond_waiters[c]) /\ \A t \in Range(cond_waiters[c]) : arg[t] = LockOf[c]
    /\ \A c, d \in Cond : c # d => Range(cond_waiters[c]) \cap Range(cond_waiters[d]) = {}

\* Between the two halves of next_tid++, the new tid is still the next one.
TidRead == \A t \in Thread : pc[t] = "tid_inc" => tid[new[t]] = next_tid

\* A thread that is in cond_wait() and still has the lock is the last of the
\* list it joined.
WaitsLast ==
    \A t \in Thread : pc[t] \in {"wait_release", "wait_up"} =>
        \E c \in Cond : /\ LockOf[c] = arg[t] /\ cond_waiters[c] # <<>>
                       /\ cond_waiters[c][Len(cond_waiters[c])] = t

SynchInv ==
    /\ SchedInv /\ SynchTypeOK
    /\ \A t \in Thread : CallOK(t)
    /\ CallersAlive /\ NewOK /\ CondListsExact /\ TidRead
    /\ LockExclusion /\ WaiterAlive /\ TidsUnique
    /\ WaitListsExact /\ BlockedListed /\ WakeupsKept

-----------------------------------------------------------------------------
\* The monitor that lock l and its condition variables implement.  A thread is
\* inside from the decrement of the semaphore to its increment, so cond_wait()
\* leaves the monitor and starts to wait when it raises the semaphore.
CondsOf(l) == {c \in Cond : LockOf[c] = l}

OwnerOf(l) ==
    IF \E t \in Thread : Has(t, l) THEN CHOOSE t \in Thread : Has(t, l) ELSE NULL

EntryOf(l) ==
    {t \in Thread : /\ arg[t] = l
                    /\ \/ pc[t] = "acquire"
                       \/ /\ pc[t] = "wait_down"
                          /\ \A c \in CondsOf(l) : t \notin Range(cond_waiters[c])}

\* Only the last thread of a list may still have the lock it waits with: it
\* waits, in the monitor, once it has raised the lock's semaphore.
Waits(s) ==
    IF s # <<>> /\ pc[s[Len(s)]] # "wait_down" THEN SubSeq(s, 1, Len(s) - 1) ELSE s

WaitqOf(l) == [c \in CondsOf(l) |-> Waits(cond_waiters[c])]

\* Seen from the scheduler, the synchronisation primitives are clients that
\* respect its preconditions: thread_unblock() is only called for a blocked
\* thread, and so on.
ImplementsScheduler == SchedSpec

\* A semaphore does not stay positive while threads sleep on it, and a thread
\* that has been signalled leaves the wait, whatever the others do.
WaitersServed ==
    /\ \A s \in Semaphore : (value[s] > 0 /\ waiters[s] # <<>>) ~> (value[s] = 0 \/ waiters[s] = <<>>)
    /\ \A t \in Thread :
        (pc[t] = "wait_down" /\ \A c \in Cond : t \notin Range(cond_waiters[c])) ~> pc[t] # "wait_down"

=============================================================================
