------------------------------ MODULE Scheduler ------------------------------
(***************************************************************************)
(* The round-robin thread scheduler of the kernel: threads/thread.c, the   *)
(* external-interrupt path of threads/interrupt.c and timer_interrupt() of *)
(* devices/timer.c, on the single processor the kernel supports.           *)
(*                                                                         *)
(* The processor executes the code of `current'.  A section that runs with *)
(* interrupts off cannot be interrupted, so it is one step; wherever       *)
(* interrupts are on (intr = TRUE) a timer interrupt may come first and    *)
(* preempt the thread.  What the threads do besides scheduling is left to  *)
(* the modules that extend this one: here a client is any sequence of      *)
(* calls of the operations of thread.h that respects their ASSERTs.        *)
(***************************************************************************)
EXTENDS Naturals, Sequences, Functions

CONSTANTS
    Thread,          \* pages that may hold a struct thread
    initial_thread,  \* the page of main(), not obtained from palloc
    IdlePage,        \* the page that thread_start() gets for the idle thread
    NULL,            \* the null pointer
    TIME_SLICE       \* timer ticks given to each thread

ASSUME SchedulerAssumption ==
    /\ initial_thread \in Thread
    /\ IdlePage \in Thread
    /\ IdlePage # initial_thread
    /\ NULL \notin Thread
    /\ TIME_SLICE \in Nat \ {0}

VARIABLES
    status,          \* status[t]: enum thread_status, or "none" if t is a free page
    ready_list,      \* the run queue
    current,         \* running_thread(); NULL once ASSERT (is_thread (next)) failed
    idle_thread,     \* set by idle() when it first runs
    destruction_req, \* dead threads whose page is still to be freed
    thread_ticks,    \* timer ticks since the last thread switch
    intr,            \* interrupt level of the processor (TRUE: INTR_ON)
    level,           \* level[t]: the level t sets when it is switched in
    boot,            \* how far main() is in thread_start()
    idle_pc,         \* how far the idle thread is in idle()
    idle_started     \* value of the semaphore of thread_start()

schedvars == <<status, ready_list, current, idle_thread, destruction_req,
               thread_ticks, intr, level, boot, idle_pc, idle_started>>

Status == {"none", "running", "ready", "blocked", "dying"}

SchedTypeOK ==
    /\ status \in [Thread -> Status]
    /\ ready_list \in Seq(Thread)
    /\ current \in Thread
    /\ idle_thread \in {NULL, IdlePage}
    /\ destruction_req \in Seq(Thread)
    /\ thread_ticks \in 0 .. TIME_SLICE - 1
    /\ intr \in BOOLEAN
    /\ level \in [Thread -> BOOLEAN]
    /\ boot \in {"create", "enable", "wait", "retry", "done"}
    /\ idle_pc \in {"none", "entry", "up", "loop", "hlt"}
    /\ idle_started \in {0, 1}

\* thread_init(): main() becomes a thread; interrupts are off until
\* thread_start() enables them.
SchedInit ==
    /\ status = [t \in Thread |-> IF t = initial_thread THEN "running" ELSE "none"]
    /\ ready_list = <<>>
    /\ current = initial_thread
    /\ idle_thread = NULL
    /\ destruction_req = <<>>
    /\ thread_ticks = 0
    /\ intr = FALSE
    /\ level = [t \in Thread |-> FALSE]
    /\ boot = "create"
    /\ idle_pc = "none"
    /\ idle_started = 0

-----------------------------------------------------------------------------
(* Building blocks: the functions of thread.c that other code calls.       *)

next_thread_to_run(rl) == IF rl = <<>> THEN idle_thread ELSE Head(rl)

\* schedule(): st is the status function after the caller has changed its own
\* status, rl the ready list, dr the destruction requests, lv the levels to
\* restore.  A thread that dies is queued, not freed: it still runs on its page.
schedule(st, rl, dr, lv) ==
    LET next == next_thread_to_run(rl) IN
    /\ current' = next
    /\ ready_list' = IF rl = <<>> THEN rl ELSE Tail(rl)
    /\ status' = [t \in Thread |-> IF t = next THEN "running" ELSE st[t]]
    /\ thread_ticks' = 0
    /\ destruction_req' = IF /\ next # current
                             /\ st[current] = "dying"
                             /\ current # initial_thread
                          THEN Append(dr, current)
                          ELSE dr
    /\ level' = lv
    /\ intr' = IF next = NULL THEN FALSE ELSE lv[next]

\* Mutant: thread_exit() frees its own page.
do_schedule_FreesSelf(newstatus, rl, lv) ==
    schedule([t \in Thread |-> IF t \in Range(destruction_req) THEN "none"
                               ELSE IF t = current
                                    THEN IF newstatus = "dying" /\ current # initial_thread
                                         THEN "none" ELSE newstatus
                               ELSE status[t]],
             rl, <<>>, lv)

\* do_schedule(): frees the page of every dead thread first.
do_schedule(newstatus, rl, lv) ==
    schedule([t \in Thread |-> IF t \in Range(destruction_req) THEN "none"
                               ELSE IF t = current THEN newstatus
                               ELSE status[t]],
             rl, <<>>, lv)

\* thread_block(), called with interrupts off; lv is the level the caller
\* sets when thread_block() returns to it.
thread_block(lv) ==
    schedule([status EXCEPT ![current] = "blocked"], ready_list,
             destruction_req, [level EXCEPT ![current] = lv])

\* Mutant: the idle thread enters the ready list like any other.
thread_yield_QueuesIdle(old_level) ==
    do_schedule("ready", Append(ready_list, current),
                [level EXCEPT ![current] = old_level])

\* thread_yield(), old_level being the level to restore.
thread_yield(old_level) ==
    do_schedule("ready",
                IF current # idle_thread THEN Append(ready_list, current)
                                         ELSE ready_list,
                [level EXCEPT ![current] = old_level])

\* Mutant: list_push_front() in thread_unblock().
thread_unblock_AtFront(t) ==
    /\ ready_list' = <<t>> \o ready_list
    /\ status' = [status EXCEPT ![t] = "ready"]

thread_unblock(t) ==
    /\ ready_list' = Append(ready_list, t)
    /\ status' = [status EXCEPT ![t] = "ready"]

-----------------------------------------------------------------------------
(* thread_start() and the idle thread.                                     *)

\* thread_start() runs thread_create ("idle", ...) with interrupts off.
thread_start_create ==
    /\ current = initial_thread
    /\ boot = "create"
    /\ boot' = "enable"
    /\ idle_pc' = "entry"
    /\ ready_list' = Append(ready_list, IdlePage)
    /\ status' = [status EXCEPT ![IdlePage] = "ready"]
    /\ level' = [level EXCEPT ![IdlePage] = TRUE]
    /\ UNCHANGED <<current, idle_thread, destruction_req, thread_ticks, intr, idle_started>>

thread_start_enable ==
    /\ current = initial_thread
    /\ boot = "enable"
    /\ boot' = "wait"
    /\ intr' = TRUE
    /\ UNCHANGED <<status, ready_list, current, idle_thread, destruction_req,
                   thread_ticks, level, idle_pc, idle_started>>

\* sema_down (&idle_started), from the start or from where it slept.
thread_start_wait ==
    /\ current = initial_thread
    /\ boot \in {"wait", "retry"}
    /\ UNCHANGED <<idle_thread, idle_pc>>
    /\ \/ /\ idle_started = 0
          /\ boot' = "retry"
          /\ thread_block(FALSE)
          /\ UNCHANGED idle_started
       \/ /\ idle_started > 0
          /\ boot' = "done"
          /\ idle_started' = idle_started - 1
          /\ intr' = TRUE
          /\ UNCHANGED <<status, ready_list, current, destruction_req, thread_ticks, level>>

idle_entry ==
    /\ current = IdlePage
    /\ idle_pc = "entry"
    /\ idle_pc' = "up"
    /\ idle_thread' = current
    /\ UNCHANGED <<status, ready_list, current, destruction_req, thread_ticks,
                   intr, level, boot, idle_started>>

\* Mutant: the value is raised but the waiter is not woken.
idle_up_NoWakeup ==
    /\ current = IdlePage
    /\ idle_pc = "up"
    /\ idle_pc' = "loop"
    /\ idle_started' = idle_started + 1
    /\ UNCHANGED <<status, ready_list, current, idle_thread, destruction_req,
                   thread_ticks, intr, level, boot>>

\* sema_up (idle_started): main() is its only possible waiter.
idle_up ==
    /\ current = IdlePage
    /\ idle_pc = "up"
    /\ idle_pc' = "loop"
    /\ idle_started' = idle_started + 1
    /\ IF status[initial_thread] = "blocked"
       THEN thread_unblock(initial_thread)
       ELSE UNCHANGED <<ready_list, status>>
    /\ UNCHANGED <<current, idle_thread, destruction_req, thread_ticks, intr, level, boot>>

\* intr_disable (); thread_block (); when the idle thread is next chosen it
\* executes `sti; hlt' and waits there for an interrupt.
idle_block ==
    /\ current = IdlePage
    /\ idle_pc = "loop"
    /\ idle_pc' = "hlt"
    /\ thread_block(TRUE)
    /\ UNCHANGED <<idle_thread, boot, idle_started>>

\* The processor leaves `hlt' at every interrupt.
leave_hlt ==
    idle_pc' = IF current = IdlePage /\ idle_pc = "hlt" THEN "loop" ELSE idle_pc

-----------------------------------------------------------------------------
(* External interrupts: intr_handler() from entry to return.               *)

slice_used_up == thread_ticks + 1 >= TIME_SLICE

\* Vector 0x20: timer_interrupt(), thread_tick(), and thread_yield() on return
\* if the slice is used up.  The interrupted code goes on with interrupts on.
timer_interrupt ==
    /\ intr
    /\ leave_hlt
    /\ \/ /\ slice_used_up
          /\ thread_yield(TRUE)
       \/ /\ ~slice_used_up
          /\ thread_ticks' = thread_ticks + 1
          /\ UNCHANGED <<status, ready_list, current, destruction_req, intr, level>>
    /\ UNCHANGED <<idle_thread, boot, idle_started>>

\* Threads that some thread or handler may hold in a wait list of its own:
\* the idle thread and main() inside thread_start() are in none.
Wakeable(t) ==
    /\ status[t] = "blocked"
    /\ t # IdlePage
    /\ t = initial_thread => boot = "done"

\* Any other device: its handler may wake a thread but never yields.
device_interrupt ==
    /\ intr
    /\ leave_hlt
    /\ \/ \E t \in Thread : Wakeable(t) /\ thread_unblock(t)
       \/ UNCHANGED <<ready_list, status>>
    /\ UNCHANGED <<current, idle_thread, destruction_req, thread_ticks, intr,
                   level, boot, idle_started>>

-----------------------------------------------------------------------------
(* What a thread other than the idle thread may do once thread_start() has *)
(* returned.                                                               *)

InClient ==
    /\ current \in Thread \ {IdlePage}
    /\ current = initial_thread => boot = "done"

client_set_level(lv) ==
    /\ InClient
    /\ intr' = lv
    /\ UNCHANGED <<status, ready_list, current, idle_thread, destruction_req,
                   thread_ticks, level, boot, idle_pc, idle_started>>

\* thread_create() up to its thread_unblock(): palloc_get_page(), init_thread().
client_create(t) ==
    /\ InClient
    /\ status[t] = "none"
    /\ t # IdlePage
    /\ status' = [status EXCEPT ![t] = "blocked"]
    /\ level' = [level EXCEPT ![t] = TRUE]
    /\ UNCHANGED <<ready_list, current, idle_thread, destruction_req,
                   thread_ticks, intr, boot, idle_pc, idle_started>>

client_unblock(t) ==
    /\ InClient
    /\ Wakeable(t)
    /\ thread_unblock(t)
    /\ UNCHANGED <<current, idle_thread, destruction_req, thread_ticks, intr,
                   level, boot, idle_pc, idle_started>>

\* intr_disable (); thread_block ();
client_block ==
    /\ InClient
    /\ thread_block(FALSE)
    /\ UNCHANGED <<idle_thread, boot, idle_pc, idle_started>>

client_yield ==
    /\ InClient
    /\ thread_yield(intr)
    /\ UNCHANGED <<idle_thread, boot, idle_pc, idle_started>>

thread_exit ==
    /\ InClient
    /\ do_schedule("dying", ready_list, level)
    /\ UNCHANGED <<idle_thread, boot, idle_pc, idle_started>>

-----------------------------------------------------------------------------
Boot == thread_start_create \/ thread_start_enable \/ thread_start_wait

Idle == idle_entry \/ idle_up \/ idle_block

Client ==
    \/ \E lv \in BOOLEAN : client_set_level(lv)
    \/ \E t \in Thread : client_create(t) \/ client_unblock(t)
    \/ client_block
    \/ client_yield
    \/ thread_exit

SchedNext == Boot \/ Idle \/ timer_interrupt \/ device_interrupt \/ Client

SchedSpec == SchedInit /\ [][SchedNext]_schedvars

\* The timer keeps interrupting (an interrupt that arrives while interrupts are
\* off stays pending at the interrupt controller, hence strong fairness); a
\* thread that is run again and again gets on with its code between the ticks,
\* hence strong fairness of thread_start() and idle(); and no client keeps
\* interrupts off forever.
IntrOffEnds ==
    /\ ~intr
    /\ client_set_level(TRUE) \/ client_block \/ client_yield \/ thread_exit

SchedFairSpec ==
    /\ SchedSpec
    /\ SF_schedvars(Boot)
    /\ SF_schedvars(Idle)
    /\ SF_schedvars(timer_interrupt)
    /\ WF_schedvars(IntrOffEnds)

-----------------------------------------------------------------------------
(* Correctness.                                                            *)

\* thread_current()'s ASSERTs hold whenever they are evaluated: there is a
\* running thread, it is the one whose stack is in use, and no other thread
\* is marked running.  During boot this needs next_thread_to_run() never to
\* return idle_thread before idle() has set it.
OneRunning == \A t \in Thread : status[t] = "running" <=> t = current

\* The ready list holds exactly the ready threads, each once; the idle thread,
\* once it has initialised idle_thread, never appears in it (thread.c:356).
ReadyListExact ==
    /\ IsInjective(ready_list)
    /\ \A t \in Thread : t \in Range(ready_list) <=> status[t] = "ready" /\ t # idle_thread

\* Every dead thread but main() waits in destruction_req, exactly once, and
\* nothing else does: no page is leaked and none is freed twice.
DeadQueued ==
    /\ IsInjective(destruction_req)
    /\ \A t \in Thread :
         t \in Range(destruction_req) <=> status[t] = "dying" /\ t # initial_thread

\* The idle thread never dies and main()'s page never goes to palloc.
PermanentThreads ==
    /\ status[initial_thread] # "none"
    /\ idle_thread # NULL => status[IdlePage] \in {"running", "ready", "blocked"}
    /\ initial_thread \notin Range(destruction_req)

SchedSafe == OneRunning /\ ReadyListExact /\ DeadQueued /\ PermanentThreads

\* How the progress of thread_start() and of idle() constrain each other.
BootOrder ==
    /\ idle_pc = "none" <=> boot = "create"
    /\ boot \in {"create", "enable"} =>
         current = initial_thread /\ ~intr /\ idle_pc \in {"none", "entry"}
    /\ idle_thread = IF idle_pc \in {"none", "entry"} THEN NULL ELSE IdlePage
    /\ idle_pc \in {"none", "entry", "up"} => idle_started = 0 /\ boot # "done"
    /\ boot = "done" => idle_started = 0
    /\ boot # "done" => \A t \in Thread \ {initial_thread, IdlePage} : status[t] = "none"
    /\ idle_pc = "none" => status[IdlePage] = "none"
    /\ idle_pc = "entry" => status[IdlePage] \in {"ready", "running"}
    /\ idle_pc \in {"up", "loop", "hlt"} => status[IdlePage] \in {"ready", "running", "blocked"}

\* The inductive invariant from which SchedSafe follows.
SchedInv == SchedTypeOK /\ SchedSafe /\ BootOrder

\* A page is given back to palloc only when the thread in it was dead and
\* neither the thread that was running nor the one that runs next uses it as
\* its stack: thread_exit() never pulls out the rug under itself.
NoRugPulled ==
    [][\A t \in Thread :
         status[t] # "none" /\ status'[t] = "none" =>
           /\ status[t] = "dying"
           /\ t # current
           /\ t # current']_schedvars

\* No overtaking: while a thread waits in the ready list its distance to the
\* front never grows, whoever is unblocked or preempted meanwhile.
NoOvertaking ==
    [][\A i \in DOMAIN ready_list : \A j \in DOMAIN ready_list' :
         ready_list[i] = ready_list'[j] => j <= i]_schedvars

\* thread_start() returns: boot never hangs waiting for the idle thread.  And
\* round robin: a ready thread is eventually run, whatever the others do.
ReadyRuns == <>(boot = "done") /\ \A t \in Thread \ {IdlePage} : status[t] = "ready" ~> current = t

=============================================================================
