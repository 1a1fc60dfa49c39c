----------------------------- MODULE SerialInput -----------------------------
(***************************************************************************)
(* Character input and output: interrupt queues (devices/intq.c), the      *)
(* input buffer (devices/input.c), the interrupt-driven serial port        *)
(* (devices/serial.c) and the queueing of keys (devices/kbd.c).            *)
(*                                                                         *)
(* All of this code runs with interrupts off, so a thread's part between   *)
(* two points where it sleeps is one step.  Any thread that is not blocked *)
(* may take the next step, which allows every order the scheduler does.    *)
(* Bytes are numbered in the order in which they enter a queue.            *)
(***************************************************************************)
EXTENDS Naturals, Sequences, Functions, FiniteSets

CONSTANTS
    Reader,       \* threads that call input_getc()
    Writer,       \* threads that call serial_putc() with interrupts on
    NULL,
    INTQ_BUFSIZE, \* size of the ring buffer of a queue
    MaxByte       \* bound: bytes produced for each of the two queues

ASSUME SerialAssumption ==
    /\ Reader \cap Writer = {}
    /\ NULL \notin Reader \cup Writer
    /\ INTQ_BUFSIZE \in Nat \ {0, 1}
    /\ MaxByte \in Nat

Thread == Reader \cup Writer

VARIABLES
    buffer,   \* struct intq of the input buffer
    txq,      \* struct intq of the serial port's transmit queue
    blocked,  \* threads in THREAD_BLOCKED
    pc,       \* where each thread is
    ier,      \* interrupt enable register of the UART
    mode,     \* mode of the serial port
    received, \* number of bytes stored in the input buffer so far
    read,     \* the bytes that readers got
    written,  \* number of bytes queued for output, or sent by polling, so far
    sent      \* the bytes written to the UART

vars == <<buffer, txq, blocked, pc, ier, mode, received, read, written, sent>>

Pos == 0 .. INTQ_BUFSIZE - 1

-----------------------------------------------------------------------------
(* intq.c.  Functions of a queue; value and waiters are its lock.          *)

intq_init == [buf |-> [p \in Pos |-> 0], head |-> 0, tail |-> 0,
              not_full |-> NULL, not_empty |-> NULL, value |-> 1, waiters |-> <<>>]

next(pos) == (pos + 1) % INTQ_BUFSIZE

intq_empty(q) == q.head = q.tail

\* Mutant: head is compared with itself.
intq_full_SameEnd(q) == next(q.head) = q.head
intq_full(q) == next(q.head) = q.tail

\* Removes a byte and signals not_full.
take(q) == [q EXCEPT !.tail = next(q.tail), !.not_full = NULL]

\* Mutant: not_empty is not signalled.
put_NoSignal(q, byte) == [q EXCEPT !.buf[q.head] = byte, !.head = next(q.head)]

\* Adds a byte and signals not_empty.
put(q, byte) == [q EXCEPT !.buf[q.head] = byte, !.head = next(q.head), !.not_empty = NULL]

\* The thread that signal() unblocks when q becomes r.
signalled(q, r) == {q.not_full, q.not_empty} \ {r.not_full, r.not_empty, NULL}

\* lock_release() after wait() has returned; wakes the first thread on the lock.
unlock(q) == [q EXCEPT !.value = @ + 1, !.waiters = IF @ = <<>> THEN @ ELSE Tail(@)]
unlocked(q) == IF q.waiters = <<>> THEN {} ELSE {Head(q.waiters)}

\* lock_acquire() and wait() of a thread t that found the queue empty, or full:
\* it sleeps on the lock or, holding the lock, as the queue's waiter.
sleep(q, t) ==
    IF q.value = 0 THEN [q EXCEPT !.waiters = Append(@, t)]
    ELSE IF t \in Reader THEN [q EXCEPT !.value = 0, !.not_empty = t]
    ELSE [q EXCEPT !.value = 0, !.not_full = t]

asleep(q) == IF q.value = 0 THEN "lock" ELSE "wait"

-----------------------------------------------------------------------------
(* The serial port.                                                        *)

\* Mutant: transmit interrupts are not enabled.
write_ier_NoXmit(rx, tx) == ier' = IF intq_full(rx) THEN {} ELSE {"RECV"}

\* write_ier(): receive interrupts if there is room, transmit interrupts if
\* there is something to transmit.
write_ier(rx, tx) ==
    ier' = (IF intq_empty(tx) THEN {} ELSE {"XMIT"}) \cup (IF intq_full(rx) THEN {} ELSE {"RECV"})

serial_notify(rx) == IF mode = "QUEUE" THEN write_ier(rx, txq) ELSE UNCHANGED ier

serial_init_queue ==
    /\ mode = "POLL"
    /\ mode' = "QUEUE"
    /\ write_ier(buffer, txq)
    /\ UNCHANGED <<buffer, txq, blocked, pc, received, read, written, sent>>

\* The handler of the serial interrupt: at most one byte in each direction,
\* because the UART's FIFOs are disabled.  The UART interrupts if it has a byte
\* and may receive, or is idle and may transmit.
serial_interrupt ==
    \E recv, xmit \in BOOLEAN :
        LET rcv == recv /\ ~intq_full(buffer)
            xmt == xmit /\ ~intq_empty(txq)
            rx == IF rcv THEN put(buffer, received + 1) ELSE buffer
            tx == IF xmt THEN take(txq) ELSE txq
        IN /\ (recv /\ "RECV" \in ier) \/ (xmit /\ "XMIT" \in ier)
           /\ recv => received < MaxByte
           /\ buffer' = rx /\ txq' = tx
           /\ received' = IF rcv THEN received + 1 ELSE received
           /\ sent' = IF xmt THEN Append(sent, txq.buf[txq.tail]) ELSE sent
           /\ blocked' = (blocked \ signalled(buffer, rx)) \ signalled(txq, tx)
           /\ write_ier(rx, tx)
           /\ UNCHANGED <<pc, mode, read, written>>

\* A key is stored if there is room for it.
keyboard_interrupt ==
    /\ received < MaxByte
    /\ ~intq_full(buffer)
    /\ buffer' = put(buffer, received + 1)
    /\ received' = received + 1
    /\ blocked' = blocked \ signalled(buffer, buffer')
    /\ serial_notify(buffer')
    /\ UNCHANGED <<txq, pc, mode, read, written, sent>>

\* Bytes that calls in progress will still write count towards the bound.
RoomToWrite == written + Cardinality({t \in Writer : pc[t] # "out"}) < MaxByte

\* serial_putc() by code that runs with interrupts off: it must not sleep, so
\* it makes room by polling if the queue is full.  Before the queue is set up
\* every caller polls.
serial_putc_intr_off ==
    LET q == IF mode = "QUEUE" /\ intq_full(txq) THEN take(txq) ELSE txq
        b == written + 1
    IN /\ RoomToWrite
       /\ written' = b
       /\ IF mode = "QUEUE"
          THEN /\ txq' = put(q, b)
               /\ sent' = IF intq_full(txq) THEN Append(sent, txq.buf[txq.tail]) ELSE sent
               /\ blocked' = blocked \ signalled(txq, q)
               /\ write_ier(buffer, txq')
          ELSE sent' = Append(sent, b) /\ UNCHANGED <<txq, blocked, ier>>
       /\ UNCHANGED <<buffer, pc, mode, received, read>>

\* serial_flush(): everything left is sent by polling.
serial_flush ==
    /\ ~intq_empty(txq)
    /\ txq' = [txq EXCEPT !.tail = txq.head, !.not_full = NULL]
    /\ sent' = sent \o [i \in 1 .. (txq.head + INTQ_BUFSIZE - txq.tail) % INTQ_BUFSIZE |->
                          txq.buf[(txq.tail + i - 1) % INTQ_BUFSIZE]]
    /\ blocked' = blocked \ signalled(txq, txq')
    /\ UNCHANGED <<buffer, pc, ier, mode, received, read, written>>

-----------------------------------------------------------------------------
(* Threads.  q is the queue as the loop of intq_getc() or intq_putc() tests *)
(* it, woken the threads that the step has made ready before.               *)

input_getc(t, q, woken) ==
    \/ /\ intq_empty(q)
       /\ buffer' = sleep(q, t)
       /\ pc' = [pc EXCEPT ![t] = asleep(q)]
       /\ blocked' = (blocked \ woken) \cup {t}
       /\ UNCHANGED <<ier, read>>
    \/ /\ ~intq_empty(q)
       /\ buffer' = take(q)
       /\ read' = Append(read, q.buf[q.tail])
       /\ pc' = [pc EXCEPT ![t] = "out"]
       /\ blocked' = (blocked \ woken) \ signalled(q, take(q))
       /\ serial_notify(take(q))

serial_putc(t, q, woken) ==
    \/ /\ intq_full(q)
       /\ txq' = sleep(q, t)
       /\ pc' = [pc EXCEPT ![t] = asleep(q)]
       /\ blocked' = (blocked \ woken) \cup {t}
       /\ UNCHANGED <<ier, written>>
    \/ /\ ~intq_full(q)
       /\ txq' = put(q, written + 1)
       /\ written' = written + 1
       /\ pc' = [pc EXCEPT ![t] = "out"]
       /\ blocked' = (blocked \ woken) \ signalled(q, put(q, written + 1))
       /\ write_ier(buffer, txq')

\* A thread woken by lock_release() tries again to get the lock, and with the
\* lock calls wait(), whose ASSERT wants the queue still to be empty (or full).
lock_acquire(t, q, holds) ==
    \/ /\ q.value > 0
       /\ ~holds
       /\ pc' = [pc EXCEPT ![t] = "panic"]
       /\ UNCHANGED <<buffer, txq, blocked>>
    \/ /\ q.value = 0 \/ holds
       /\ pc' = [pc EXCEPT ![t] = asleep(q)]
       /\ blocked' = blocked \cup {t}
       /\ IF t \in Reader THEN buffer' = sleep(q, t) /\ UNCHANGED txq
                          ELSE txq' = sleep(q, t) /\ UNCHANGED buffer

Runs(t, label) == t \notin blocked /\ pc[t] = label

reader_call(t) ==
    /\ Runs(t, "out")
    /\ input_getc(t, buffer, {})
    /\ UNCHANGED <<txq, mode, received, written, sent>>

reader_lock(t) ==
    /\ Runs(t, "lock")
    /\ lock_acquire(t, buffer, intq_empty(buffer))
    /\ UNCHANGED <<ier, mode, received, read, written, sent>>

reader_woken(t) ==
    /\ Runs(t, "wait")
    /\ input_getc(t, unlock(buffer), unlocked(buffer))
    /\ UNCHANGED <<txq, mode, received, written, sent>>

writer_call(t) ==
    /\ Runs(t, "out")
    /\ RoomToWrite
    /\ mode = "QUEUE"
    /\ serial_putc(t, txq, {})
    /\ UNCHANGED <<buffer, mode, received, read, sent>>

writer_lock(t) ==
    /\ Runs(t, "lock")
    /\ lock_acquire(t, txq, intq_full(txq))
    /\ UNCHANGED <<ier, mode, received, read, written, sent>>

writer_woken(t) ==
    /\ Runs(t, "wait")
    /\ serial_putc(t, unlock(txq), unlocked(txq))
    /\ UNCHANGED <<buffer, mode, received, read, sent>>

Resume(t) ==
    \/ t \in Reader /\ (reader_lock(t) \/ reader_woken(t))
    \/ t \in Writer /\ (writer_lock(t) \/ writer_woken(t))

Device == serial_interrupt \/ keyboard_interrupt

Running == \A t \in Thread : pc[t] # "panic"

SerialInit ==
    /\ buffer = intq_init /\ txq = intq_init
    /\ blocked = {}
    /\ pc = [t \in Thread |-> "out"]
    /\ ier = {}
    /\ mode = "POLL"
    /\ received = 0 /\ read = <<>>
    /\ written = 0 /\ sent = <<>>

\* A failed ASSERT stops the kernel.
SerialNext ==
    /\ Running
    /\ \/ serial_init_queue
       \/ Device
       \/ serial_putc_intr_off
       \/ serial_flush
       \/ \E t \in Reader : reader_call(t)
       \/ \E t \in Writer : writer_call(t)
       \/ \E t \in Thread : Resume(t)

SerialSpec == SerialInit /\ [][SerialNext]_vars

\* Woken threads run (ReadyRuns of Scheduler), the boot sets up the port, and
\* the UART goes on transmitting and asks for an interrupt when it is idle.
SerialFairness ==
    /\ \A t \in Thread : WF_vars(Running /\ Resume(t))
    /\ WF_vars(Running /\ serial_interrupt /\ sent' # sent)

-----------------------------------------------------------------------------
(* Correctness.                                                            *)

Contents(q) ==
    [i \in 1 .. (q.head + INTQ_BUFSIZE - q.tail) % INTQ_BUFSIZE |->
       q.buf[(q.tail + i - 1) % INTQ_BUFSIZE]]

\* No byte is lost, duplicated or reordered between the interrupt handlers and
\* the readers, or between the writers and the UART, however the ring wraps.
BytesInOrder ==
    /\ read \o Contents(buffer) = [i \in 1 .. received |-> i]
    /\ sent \o Contents(txq) = [i \in 1 .. written |-> i]

\* A blocked thread can be found: it is the queue's waiter and holds its lock,
\* or is on the lock's wait list, and the waiter waits for good reason; and the
\* UART, which is to wake it, may interrupt whenever there is room for a byte,
\* never when there is none, and whenever there is something to transmit
\* (serial.c:165-183).
SleepersKnown ==
    /\ \A t \in Thread :
        /\ t \in blocked <=> \/ t \in {buffer.not_empty, txq.not_full}
                             \/ t \in Range(buffer.waiters) \cup Range(txq.waiters)
        /\ buffer.not_empty = t => intq_empty(buffer) /\ buffer.value = 0
        /\ txq.not_full = t => intq_full(txq) /\ txq.value = 0
    /\ mode = "QUEUE" =>
        /\ "RECV" \in ier <=> ~intq_full(buffer)
        /\ ~intq_empty(txq) => "XMIT" \in ier

\* wait()'s ASSERT (intq.c:84): a thread that waits finds the queue empty when
\* it waits for a byte, full when it waits for room.
WaitAssertHolds == Running

\* Nobody sleeps for good beside a queue that could serve them: serial_putc()
\* gets its byte in, and input_getc() returns or leaves the buffer empty, unless
\* wait()'s ASSERT stops the kernel.
CallersServed ==
    /\ \A t \in Writer : pc[t] # "out" ~> (pc[t] = "out" \/ ~Running)
    /\ \A t \in Reader : (pc[t] # "out" /\ ~intq_empty(buffer)) ~>
                            (pc[t] = "out" \/ intq_empty(buffer) \/ ~Running)

-----------------------------------------------------------------------------
(* The inductive invariant.                                                *)

Queue == [buf : [Pos -> Nat], head : Pos, tail : Pos, not_full : Writer \cup {NULL},
          not_empty : Reader \cup {NULL}, value : {0, 1}, waiters : Seq(Thread)]

SerialTypeOK ==
    /\ buffer \in Queue /\ buffer.not_full = NULL
    /\ txq \in Queue /\ txq.not_empty = NULL
    /\ blocked \subseteq Thread
    /\ pc \in [Thread -> {"out", "lock", "wait", "panic"}]
    /\ mode \in {"POLL", "QUEUE"}
    /\ received \in Nat /\ written \in Nat

Used(q) == (q.head + INTQ_BUFSIZE - q.tail) % INTQ_BUFSIZE
Cell(q, i) == (q.tail + i - 1) % INTQ_BUFSIZE

\* The bytes 1 to n: first those in out, then those in the ring.
Numbered(q, out, n) ==
    /\ out \in Seq(Nat) /\ Len(out) + Used(q) = n
    /\ \A i \in 1 .. Len(out) : out[i] = i
    /\ \A i \in 1 .. Used(q) : q.buf[Cell(q, i)] = Len(out) + i

\* The lock of a queue with its value and waiters, and the queue's waiter w, for
\* the threads T that sleep on it, where at says where each is and sleepers which
\* of them sleep: one thread has the lock, the one in wait().
LockOK(T, at, sleepers, value, waiters, w) ==
    /\ value \in {0, 1} /\ waiters \in Seq(T) /\ IsInjective(waiters) /\ w \in T \cup {NULL}
    /\ \A t \in Range(waiters) : at[t] = "lock"
    /\ w # NULL => at[w] = "wait"
    /\ \A t, u \in T : at[t] = "wait" /\ at[u] = "wait" => t = u
    /\ value = 0 <=> \E t \in T : at[t] = "wait"
    /\ \A t \in T : t \in sleepers <=> t = w \/ t \in Range(waiters)

ReadersOK ==
    /\ LockOK(Reader, pc, blocked, buffer.value, buffer.waiters, buffer.not_empty)
    /\ buffer.not_empty # NULL => intq_empty(buffer)

WritersOK ==
    /\ LockOK(Writer, pc, blocked, txq.value, txq.waiters, txq.not_full)
    /\ txq.not_full # NULL => intq_full(txq)

InterruptsOK ==
    mode = "QUEUE" =>
        /\ "RECV" \in ier <=> ~intq_full(buffer)
        /\ ~intq_empty(txq) => "XMIT" \in ier

\* Until the port is set up nothing is queued for output.
PollOK == mode = "POLL" => intq_empty(txq) /\ \A t \in Writer : pc[t] = "out"

SerialInv ==
    /\ SerialTypeOK
    /\ Numbered(buffer, read, received) /\ Numbered(txq, sent, written)
    /\ ReadersOK /\ WritersOK /\ InterruptsOK /\ PollOK

=============================================================================
