---------------------------- MODULE DeviceProofs -----------------------------
(***************************************************************************)
(* Proofs about the devices.                                               *)
(*                                                                         *)
(* Disk: DataIntact and ChannelQuiet hold for every number of threads,     *)
(* sectors and calls, whether or not commands may fail.                    *)
(*                                                                         *)
(* SerialInput: BytesInOrder and SleepersKnown hold for every number of    *)
(* readers, writers and bytes and every size of the ring.  The proof goes  *)
(* from the ring (Numbered) and the lock of a queue (LockOK) to the two    *)
(* queues with their threads (InputOK, OutputOK) and the steps.            *)
(***************************************************************************)
EXTENDS SerialInput, Disk, TLAPS

-----------------------------------------------------------------------------
(* The disk.                                                               *)

\* The controller's steps: a command that is over has given its data before the
\* interrupt is pending.
LEMMA ControllerInductive == DiskInv /\ NoPanic /\ Controller => DiskInv'
  <1> SUFFICES ASSUME DiskInv, NoPanic, Controller PROVE DiskInv'
    OBVIOUS
  <1> USE DiskAssumption DEF host, DiskInv
  <1>1. CASE device_ready
    <2>1. /\ busy /\ busy' = FALSE /\ command \in {"read", "write"} /\ drq' \in BOOLEAN
          /\ command = "read" => irq' = TRUE
          /\ command = "write" => irq' = irq
          /\ UNCHANGED <<device, command, latch, media>>
          /\ UNCHANGED <<dpc, sec_no, dbuffer, holder, expecting_interrupt, completion_wait, ops>>
      BY <1>1, Zenon DEF device_ready
    <2>2. DiskTypeOK'
      BY <2>1, Zenon DEF DiskTypeOK
    <2>3. HolderInside' /\ DataIntact'
      BY <2>1, Zenon DEF HolderInside, DataIntact
    <2>4. ChannelQuiet'
      BY <2>1, Zenon DEF ChannelQuiet
    <2>5. CommandPhase'
      BY <2>1, Zenon DEF DiskTypeOK, CommandPhase, Completing, Quiet
    <2>6. QED
      BY <2>2, <2>3, <2>4, <2>5, Zenon
  <1>2. CASE device_stored
    <2>1. /\ busy /\ command = "store" /\ busy' = FALSE /\ irq' = TRUE /\ command' = "none"
          /\ media' = [media EXCEPT ![device] = latch]
          /\ UNCHANGED <<device, drq, latch>>
          /\ UNCHANGED <<dpc, sec_no, dbuffer, holder, expecting_interrupt, completion_wait, ops>>
      BY <1>2, Zenon DEF device_stored
    <2>2. DiskTypeOK'
      BY <2>1, Zenon DEF DiskTypeOK
    <2>3. HolderInside' /\ ChannelQuiet'
      BY <2>1, Zenon DEF HolderInside, ChannelQuiet
    <2>4. CommandPhase'
      BY <2>1, Zenon DEF DiskTypeOK, CommandPhase, Completing, Quiet
    <2>5. DataIntact'
      BY <2>1, Zenon DEF DiskTypeOK, CommandPhase, Quiet, DataIntact
    <2>6. QED
      BY <2>2, <2>3, <2>4, <2>5, Zenon
  <1>3. QED
    BY <1>1, <1>2, Zenon DEF Controller

\* interrupt_handler() turns the pending interrupt of a command into the one
\* completion that the command's thread waits for.
LEMMA HandlerInductive == DiskInv /\ NoPanic /\ interrupt_handler => DiskInv'
  <1> SUFFICES ASSUME DiskInv, NoPanic, interrupt_handler PROVE DiskInv'
    OBVIOUS
  <1> USE DiskAssumption DEF DiskInv
  <1>1. /\ irq /\ irq' = FALSE
        /\ expecting_interrupt => completion_wait' = completion_wait + 1
        /\ completion_wait' \in {completion_wait, completion_wait + 1}
        /\ UNCHANGED <<dpc, sec_no, dbuffer, holder, expecting_interrupt, ops>>
        /\ UNCHANGED <<device, command, busy, drq, latch, media>>
    BY Zenon DEF interrupt_handler
  <1>2. DiskTypeOK'
    <2>1. completion_wait' \in Nat
      BY <1>1 DEF DiskTypeOK
    <2>2. QED
      BY <1>1, <2>1, Zenon DEF DiskTypeOK
  <1>3. HolderInside' /\ DataIntact' /\ ChannelQuiet'
    BY <1>1, Zenon DEF HolderInside, DataIntact, ChannelQuiet
  <1>4. CommandPhase'
    BY <1>1 DEF DiskTypeOK, NoPanic, CommandPhase, Completing, Quiet
  <1>5. QED
    BY <1>2, <1>3, <1>4, Zenon

\* A call begins outside the lock and touches nothing that is shared.
LEMMA CallInductive == DiskInv /\ NoPanic /\ (\E t \in DiskThread : Call(t)) => DiskInv'
  <1> SUFFICES ASSUME DiskInv, NEW t \in DiskThread, Call(t) PROVE DiskInv'
    OBVIOUS
  <1> USE DiskAssumption DEF DiskInv, ctrl
  <1>1. PICK s \in Sector, b \in Data \cup {None}, label \in {"r_lock", "w_lock"} :
           /\ dpc[t] = "out" /\ dpc' = [dpc EXCEPT ![t] = label]
           /\ sec_no' = [sec_no EXCEPT ![t] = s]
           /\ dbuffer' = [dbuffer EXCEPT ![t] = b]
           /\ UNCHANGED <<holder, expecting_interrupt, completion_wait>>
           /\ UNCHANGED <<device, command, busy, drq, irq, latch, media>>
    BY Zenon DEF Call, disk_read, disk_write, Goto
  <1>2. DiskTypeOK'
    BY <1>1, Zenon DEF DiskTypeOK
  <1>3. HolderInside' /\ DataIntact' /\ ChannelQuiet'
    BY <1>1, Zenon DEF DiskTypeOK, HolderInside, DataIntact, ChannelQuiet
  <1>4. CommandPhase'
    BY <1>1 DEF DiskTypeOK, CommandPhase, Completing, Quiet
  <1>5. QED
    BY <1>2, <1>3, <1>4, Zenon

\* Every step of disk_read() and disk_write() keeps the invariant.
LEMMA StepInductive == DiskInv /\ NoPanic /\ (\E t \in DiskThread : Step(t)) => DiskInv'
  <1> SUFFICES ASSUME DiskInv, NEW t \in DiskThread, Step(t) PROVE DiskInv'
    OBVIOUS
  <1> USE DiskAssumption DEF DiskInv, ctrl, Goto
  <1>1. CASE acquire(t)
    <2>1. DiskTypeOK' /\ HolderInside'
      BY <1>1, Zenon DEF acquire, DiskTypeOK, HolderInside
    <2>2. ChannelQuiet' /\ DataIntact'
      BY <1>1, Zenon DEF acquire, DiskTypeOK, ChannelQuiet, DataIntact
    <2>3. CommandPhase'
      BY <1>1 DEF acquire, DiskTypeOK, HolderInside, ChannelQuiet, CommandPhase, Completing, Quiet
    <2>4. QED
      BY <2>1, <2>2, <2>3, Zenon
  <1>2. CASE select_sector(t)
    <2>1. DiskTypeOK' /\ HolderInside'
      BY <1>2, Zenon DEF select_sector, DiskTypeOK, HolderInside
    <2>2. ChannelQuiet' /\ DataIntact'
      BY <1>2, Zenon DEF select_sector, DiskTypeOK, ChannelQuiet, DataIntact
    <2>3. CommandPhase'
      BY <1>2 DEF select_sector, DiskTypeOK, HolderInside, CommandPhase, Completing, Quiet
    <2>4. QED
      BY <2>1, <2>2, <2>3, Zenon
  <1>3. CASE issue_pio_command_expect(t)
    <2>1. DiskTypeOK' /\ HolderInside'
      BY <1>3, Zenon DEF issue_pio_command_expect, DiskTypeOK, HolderInside
    <2>2. ChannelQuiet' /\ DataIntact'
      BY <1>3, Zenon DEF issue_pio_command_expect, DiskTypeOK, ChannelQuiet, DataIntact
    <2>3. CommandPhase'
      BY <1>3 DEF issue_pio_command_expect, DiskTypeOK, HolderInside, CommandPhase, Completing, Quiet
    <2>4. QED
      BY <2>1, <2>2, <2>3, Zenon
  <1>4. CASE issue_pio_command(t)
    <2>1. DiskTypeOK' /\ HolderInside'
      BY <1>4, Zenon DEF issue_pio_command, DiskTypeOK, HolderInside
    <2>2. ChannelQuiet' /\ DataIntact'
      BY <1>4 DEF issue_pio_command, DiskTypeOK, HolderInside, ChannelQuiet, DataIntact
    <2>3. CommandPhase'
      BY <1>4 DEF issue_pio_command, DiskTypeOK, HolderInside, CommandPhase, Completing, Quiet
    <2>4. QED
      BY <2>1, <2>2, <2>3, Zenon
  <1>5. CASE sema_down(t)
    <2>1. DiskTypeOK' /\ HolderInside'
      BY <1>5 DEF sema_down, DiskTypeOK, HolderInside
    <2>2. ChannelQuiet' /\ DataIntact'
      BY <1>5 DEF sema_down, DiskTypeOK, HolderInside, ChannelQuiet, DataIntact, CommandPhase, Completing
    <2>3. CommandPhase'
      BY <1>5 DEF sema_down, DiskTypeOK, HolderInside, CommandPhase, Completing, Quiet
    <2>4. QED
      BY <2>1, <2>2, <2>3, Zenon
  <1>6. CASE wait_while_busy(t)
    <2>1. DiskTypeOK' /\ HolderInside'
      BY <1>6 DEF wait_while_busy, DiskTypeOK, HolderInside
    <2>2. ChannelQuiet' /\ DataIntact'
      BY <1>6, Zenon DEF wait_while_busy, DiskTypeOK, ChannelQuiet, DataIntact
    <2>3. CommandPhase'
      BY <1>6 DEF wait_while_busy, DiskTypeOK, HolderInside, CommandPhase, Completing, Quiet
    <2>4. QED
      BY <2>1, <2>2, <2>3, Zenon
  <1>7. CASE input_sector(t)
    <2>1. DiskTypeOK' /\ HolderInside'
      BY <1>7, Zenon DEF input_sector, DiskTypeOK, HolderInside
    <2>2. ChannelQuiet' /\ DataIntact'
      BY <1>7, Zenon DEF input_sector, DiskTypeOK, CommandPhase, ChannelQuiet, DataIntact
    <2>3. CommandPhase'
      BY <1>7, Zenon DEF input_sector, DiskTypeOK, HolderInside, CommandPhase, Completing, Quiet
    <2>4. QED
      BY <2>1, <2>2, <2>3, Zenon
  <1>8. CASE output_sector(t)
    <2>1. DiskTypeOK' /\ HolderInside'
      BY <1>8, Zenon DEF output_sector, DiskTypeOK, HolderInside
    <2>2. ChannelQuiet' /\ DataIntact'
      BY <1>8 DEF output_sector, DiskTypeOK, HolderInside, ChannelQuiet, DataIntact
    <2>3. CommandPhase'
      BY <1>8, Zenon DEF output_sector, DiskTypeOK, HolderInside, CommandPhase, Completing, Quiet
    <2>4. QED
      BY <2>1, <2>2, <2>3, Zenon
  <1>9. CASE release(t)
    <2>1. DiskTypeOK' /\ HolderInside'
      BY <1>9 DEF release, DiskTypeOK, HolderInside
    <2>2. ChannelQuiet' /\ DataIntact'
      BY <1>9, Zenon DEF release, DiskTypeOK, CommandPhase, Quiet, ChannelQuiet, DataIntact
    <2>3. CommandPhase'
      BY <1>9 DEF release, DiskTypeOK, HolderInside, CommandPhase, Completing, Quiet
    <2>4. QED
      BY <2>1, <2>2, <2>3, Zenon
  <1>10. QED
    BY <1>1, <1>2, <1>3, <1>4, <1>5, <1>6, <1>7, <1>8, <1>9, Zenon DEF Step

\* The invariant holds for every number of threads, sectors and calls.
THEOREM DiskInvariant == DiskSpec => []DiskInv
  <1>1. DiskInit => DiskInv
    <2> SUFFICES ASSUME DiskInit PROVE DiskInv
      OBVIOUS
    <2> USE DiskAssumption DEF DiskInit
    <2>1. DiskTypeOK
      BY Zenon DEF DiskTypeOK
    <2>2. HolderInside /\ ChannelQuiet /\ DataIntact
      BY Zenon DEF HolderInside, ChannelQuiet, DataIntact
    <2>3. CommandPhase
      BY Zenon DEF CommandPhase
    <2>4. QED
      BY <2>1, <2>2, <2>3, Zenon DEF DiskInv
  <1>2. DiskInv /\ [DiskNext]_diskVars => DiskInv'
    <2>1. DiskInv /\ UNCHANGED diskVars => DiskInv'
      BY DEF diskVars, host, ctrl, DiskInv, DiskTypeOK, HolderInside, ChannelQuiet, CommandPhase,
             Completing, Quiet, DataIntact
    <2>2. QED
      BY <2>1, ControllerInductive, HandlerInductive, CallInductive, StepInductive, Zenon DEF DiskNext
  <1>3. QED
    BY <1>1, <1>2, PTL DEF DiskSpec

\* A disk_read() that returns has the contents of its own sector in its buffer,
\* and when disk_write() returns the sector has the contents of the buffer,
\* whatever other threads do on the channel.
THEOREM DiskDataIntact == DiskSpec => []DataIntact
  BY DiskInvariant, PTL DEF DiskInv

\* No interrupt, completion or data of a command is left when its thread lets go
\* of the channel's lock, so that a command never takes another's completion.
THEOREM DiskChannelQuiet == DiskSpec => []ChannelQuiet
  BY DiskInvariant, PTL DEF DiskInv

-----------------------------------------------------------------------------
(* The ring buffer.                                                        *)

\* One turn around the ring.
LEMMA Wrap ==
    ASSUME NEW a \in Nat, a < 2 * INTQ_BUFSIZE
    PROVE  a % INTQ_BUFSIZE = IF a < INTQ_BUFSIZE THEN a ELSE a - INTQ_BUFSIZE
  BY SerialAssumption

\* A position inside the ring.
LEMMA RingFacts ==
    ASSUME NEW q \in Queue
    PROVE  /\ next(q.head) = (IF q.head + 1 = INTQ_BUFSIZE THEN 0 ELSE q.head + 1)
           /\ next(q.tail) = (IF q.tail + 1 = INTQ_BUFSIZE THEN 0 ELSE q.tail + 1)
           /\ Used(q) = (IF q.tail <= q.head THEN q.head - q.tail
                         ELSE q.head + INTQ_BUFSIZE - q.tail)
           /\ \A i \in 1 .. INTQ_BUFSIZE :
                 Cell(q, i) = (IF q.tail + i - 1 < INTQ_BUFSIZE THEN q.tail + i - 1
                               ELSE q.tail + i - 1 - INTQ_BUFSIZE)
  <1>1. /\ INTQ_BUFSIZE \in Nat /\ INTQ_BUFSIZE > 1
        /\ q.head \in Nat /\ q.tail \in Nat /\ q.head < INTQ_BUFSIZE /\ q.tail < INTQ_BUFSIZE
    BY SerialAssumption DEF Queue, Pos
  <1>2. /\ next(q.head) = (IF q.head + 1 = INTQ_BUFSIZE THEN 0 ELSE q.head + 1)
        /\ next(q.tail) = (IF q.tail + 1 = INTQ_BUFSIZE THEN 0 ELSE q.tail + 1)
    BY <1>1, Wrap DEF next
  <1>3. Used(q) = (IF q.tail <= q.head THEN q.head - q.tail
                   ELSE q.head + INTQ_BUFSIZE - q.tail)
    <2>1. /\ q.head + INTQ_BUFSIZE - q.tail \in Nat
          /\ q.head + INTQ_BUFSIZE - q.tail < 2 * INTQ_BUFSIZE
      BY <1>1
    <2>2. QED
      BY <1>1, <2>1, Wrap DEF Used
  <1>4. ASSUME NEW i \in 1 .. INTQ_BUFSIZE
        PROVE  Cell(q, i) = (IF q.tail + i - 1 < INTQ_BUFSIZE THEN q.tail + i - 1
                             ELSE q.tail + i - 1 - INTQ_BUFSIZE)
    <2>1. q.tail + i - 1 \in Nat /\ q.tail + i - 1 < 2 * INTQ_BUFSIZE
      BY <1>1
    <2>2. QED
      BY <1>1, <2>1, Wrap DEF Cell
  <1>5. QED
    BY <1>2, <1>3, <1>4, Zenon

\* Positions, counts and the types of what the queue's functions return.
LEMMA QueueTypes ==
    ASSUME NEW q \in Queue
    PROVE  /\ Used(q) \in 0 .. INTQ_BUFSIZE - 1
           /\ \A i \in 1 .. INTQ_BUFSIZE : Cell(q, i) \in Pos
           /\ intq_empty(q) <=> Used(q) = 0
           /\ intq_full(q) <=> Used(q) = INTQ_BUFSIZE - 1
           /\ take(q) \in Queue
           /\ \A byte \in Nat : put(q, byte) \in Queue
  <1>1. /\ INTQ_BUFSIZE \in Nat /\ INTQ_BUFSIZE > 1
        /\ q.head \in Nat /\ q.tail \in Nat /\ q.head < INTQ_BUFSIZE /\ q.tail < INTQ_BUFSIZE
    BY SerialAssumption DEF Queue, Pos
  <1>2. /\ next(q.head) = (IF q.head + 1 = INTQ_BUFSIZE THEN 0 ELSE q.head + 1)
        /\ next(q.tail) = (IF q.tail + 1 = INTQ_BUFSIZE THEN 0 ELSE q.tail + 1)
        /\ Used(q) = (IF q.tail <= q.head THEN q.head - q.tail
                      ELSE q.head + INTQ_BUFSIZE - q.tail)
    BY RingFacts, Zenon
  <1>3. /\ Used(q) \in 0 .. INTQ_BUFSIZE - 1
        /\ intq_empty(q) <=> Used(q) = 0
        /\ intq_full(q) <=> Used(q) = INTQ_BUFSIZE - 1
    BY <1>1, <1>2 DEF intq_empty, intq_full
  <1>4. ASSUME NEW i \in 1 .. INTQ_BUFSIZE PROVE Cell(q, i) \in Pos
    <2>1. Cell(q, i) = (IF q.tail + i - 1 < INTQ_BUFSIZE THEN q.tail + i - 1
                        ELSE q.tail + i - 1 - INTQ_BUFSIZE)
      BY RingFacts, Zenon
    <2>2. QED
      BY <1>1, <2>1 DEF Pos
  <1>5. next(q.head) \in Pos /\ next(q.tail) \in Pos
    BY <1>1, <1>2 DEF Pos
  <1>6. take(q) \in Queue
    BY <1>5, Zenon DEF take, Queue
  <1>7. ASSUME NEW byte \in Nat PROVE put(q, byte) \in Queue
    <2>1. [q.buf EXCEPT ![q.head] = byte] \in [Pos -> Nat]
      BY Zenon DEF Queue
    <2>2. put(q, byte) = [q EXCEPT !.buf = [q.buf EXCEPT ![q.head] = byte],
                                   !.head = next(q.head), !.not_empty = NULL]
      BY Zenon DEF put
    <2>3. QED
      BY <1>5, <2>1, <2>2, Zenon DEF Queue
  <1>8. QED
    BY <1>3, <1>4, <1>6, <1>7, Zenon

\* Two queues that have the same ring have the same bytes.
SameRing(q, r) == r.buf = q.buf /\ r.head = q.head /\ r.tail = q.tail

\* Such queues number the same bytes and are empty or full together.
LEMMA RingKept ==
    ASSUME NEW q, NEW r, SameRing(q, r)
    PROVE  /\ \A out, n : Numbered(q, out, n) => Numbered(r, out, n)
           /\ intq_empty(r) <=> intq_empty(q)
           /\ intq_full(r) <=> intq_full(q)
  BY Zenon DEF SameRing, Numbered, Used, Cell, intq_empty, intq_full

\* intq_putc() adds the next byte behind all others.
LEMMA PutNumbered ==
    ASSUME NEW q \in Queue, NEW out, NEW n \in Nat, Numbered(q, out, n), ~intq_full(q)
    PROVE  Numbered(put(q, n + 1), out, n + 1)
  <1> DEFINE r == put(q, n + 1)
  <1>1. /\ INTQ_BUFSIZE \in Nat /\ INTQ_BUFSIZE > 1
        /\ q.head \in Nat /\ q.tail \in Nat /\ q.head < INTQ_BUFSIZE /\ q.tail < INTQ_BUFSIZE
        /\ q.buf \in [Pos -> Nat] /\ q.head \in Pos
    BY SerialAssumption DEF Queue, Pos
  <1>2. /\ r \in Queue /\ r.head = next(q.head) /\ r.tail = q.tail
        /\ r.buf = [q.buf EXCEPT ![q.head] = n + 1]
    <2>1. n + 1 \in Nat
      OBVIOUS
    <2>2. r \in Queue
      BY <2>1, QueueTypes, Zenon
    <2>3. QED
      BY <2>2, Zenon DEF put, Queue
  <1> HIDE DEF r
  <1>3. Used(q) \in 0 .. INTQ_BUFSIZE - 2
    BY <1>1, QueueTypes
  <1>4. Used(r) = Used(q) + 1
    BY <1>1, <1>2, <1>3, RingFacts
  <1>5. \A i \in 1 .. INTQ_BUFSIZE : Cell(r, i) = Cell(q, i) /\ Cell(q, i) \in Pos
    BY <1>2, QueueTypes, Zenon DEF Cell
  <1>6. Cell(q, Used(q) + 1) = q.head
    <2>1. Used(q) + 1 \in 1 .. INTQ_BUFSIZE
      BY <1>1, <1>3
    <2>2. QED
      BY <1>1, <2>1, RingFacts
  <1>7. \A i \in 1 .. Used(q) : Cell(q, i) # q.head
    BY <1>1, <1>3, RingFacts
  <1>8. Len(out) \in Nat /\ Len(out) + Used(q) = n
    BY DEF Numbered
  <1>9. \A i \in 1 .. Used(r) : r.buf[Cell(r, i)] = Len(out) + i
    <2> SUFFICES ASSUME NEW i \in 1 .. Used(q) + 1
                 PROVE  r.buf[Cell(r, i)] = Len(out) + i
      BY <1>4, Zenon
    <2>1. i \in 1 .. INTQ_BUFSIZE
      BY <1>1, <1>3
    <2>2. CASE i = Used(q) + 1
      <3>1. r.buf[Cell(r, i)] = n + 1
        BY <1>1, <1>2, <1>5, <1>6, <2>1, <2>2, Zenon
      <3>2. QED
        BY <1>3, <1>8, <2>2, <3>1
    <2>3. CASE i \in 1 .. Used(q)
      <3>1. r.buf[Cell(r, i)] = q.buf[Cell(q, i)]
        BY <1>1, <1>2, <1>5, <1>7, <2>1, <2>3, Zenon
      <3>2. QED
        BY <2>3, <3>1, Zenon DEF Numbered
    <2>4. QED
      BY <1>3, <2>2, <2>3
  <1>10. Len(out) + Used(r) = n + 1
    BY <1>3, <1>4, <1>8
  <1>11. QED
    BY <1>9, <1>10, Zenon DEF Numbered, r

\* intq_getc() takes the byte that is next in order.
LEMMA TakeNumbered ==
    ASSUME NEW q \in Queue, NEW out, NEW n \in Nat, Numbered(q, out, n), ~intq_empty(q)
    PROVE  Numbered(take(q), Append(out, q.buf[q.tail]), n)
  <1> DEFINE r == take(q)
             more == Append(out, q.buf[q.tail])
  <1>1. /\ INTQ_BUFSIZE \in Nat /\ INTQ_BUFSIZE > 1
        /\ q.head \in Nat /\ q.tail \in Nat /\ q.head < INTQ_BUFSIZE /\ q.tail < INTQ_BUFSIZE
        /\ q.buf \in [Pos -> Nat] /\ q.tail \in Pos
    BY SerialAssumption DEF Queue, Pos
  <1>2. /\ r \in Queue /\ r.head = q.head /\ r.tail = next(q.tail) /\ r.buf = q.buf
    BY QueueTypes, Zenon DEF take, Queue
  <1>3. /\ out \in Seq(Nat) /\ Len(out) \in Nat /\ Len(out) + Used(q) = n
        /\ \A i \in 1 .. Len(out) : out[i] = i
    BY DEF Numbered
  <1>4. Used(q) \in 1 .. INTQ_BUFSIZE - 1
    BY <1>1, QueueTypes
  <1> HIDE DEF r
  <1>5. Used(r) = Used(q) - 1
    BY <1>1, <1>2, <1>4, RingFacts
  <1>6. Cell(q, 1) = q.tail
    BY <1>1, RingFacts
  <1>7. q.buf[q.tail] = Len(out) + 1 /\ q.buf[q.tail] \in Nat
    <2>1. 1 \in 1 .. Used(q)
      BY <1>4
    <2>2. QED
      BY <1>1, <1>6, <2>1, Zenon DEF Numbered
  <1>8. /\ more \in Seq(Nat) /\ Len(more) = Len(out) + 1
        /\ \A i \in 1 .. Len(more) : more[i] = i
    BY <1>3, <1>7
  <1> HIDE DEF more
  <1>9. \A i \in 1 .. Used(r) : r.buf[Cell(r, i)] = Len(more) + i
    <2> TAKE i \in 1 .. Used(r)
    <2>1. i \in 1 .. INTQ_BUFSIZE /\ i + 1 \in 1 .. INTQ_BUFSIZE /\ i + 1 \in 1 .. Used(q)
      BY <1>1, <1>4, <1>5
    <2>2. Cell(r, i) = Cell(q, i + 1)
      <3>1. /\ r.tail = (IF q.tail + 1 = INTQ_BUFSIZE THEN 0 ELSE q.tail + 1)
            /\ Cell(r, i) = (IF r.tail + i - 1 < INTQ_BUFSIZE THEN r.tail + i - 1
                             ELSE r.tail + i - 1 - INTQ_BUFSIZE)
            /\ Cell(q, i + 1) = (IF q.tail + (i + 1) - 1 < INTQ_BUFSIZE THEN q.tail + (i + 1) - 1
                                 ELSE q.tail + (i + 1) - 1 - INTQ_BUFSIZE)
        BY <1>2, <2>1, RingFacts, Zenon
      <3>2. QED
        BY <1>1, <1>4, <1>5, <2>1, <3>1
    <2>3. q.buf[Cell(q, i + 1)] = Len(out) + (i + 1)
      BY <2>1, Zenon DEF Numbered
    <2>4. QED
      BY <1>2, <1>3, <1>8, <2>1, <2>2, <2>3
  <1>10. Len(more) + Used(r) = n
    BY <1>3, <1>4, <1>5, <1>8
  <1>11. QED
    BY <1>8, <1>9, <1>10, Zenon DEF Numbered, r, more

\* serial_flush() sends everything in the queue, in order.
LEMMA FlushNumbered ==
    ASSUME NEW q \in Queue, NEW out, NEW n \in Nat, Numbered(q, out, n), NEW r \in Queue,
           r.head = q.head, r.tail = q.head, r.buf = q.buf
    PROVE  Numbered(r, out \o Contents(q), n)
  <1> DEFINE more == out \o Contents(q)
  <1>1. /\ out \in Seq(Nat) /\ Len(out) \in Nat /\ Len(out) + Used(q) = n
        /\ \A i \in 1 .. Len(out) : out[i] = i
    BY DEF Numbered
  <1>2. Used(q) \in Nat /\ Used(q) < INTQ_BUFSIZE /\ INTQ_BUFSIZE \in Nat
    BY SerialAssumption, QueueTypes
  <1>3. Contents(q) = [i \in 1 .. Used(q) |-> Len(out) + i]
    BY Zenon DEF Numbered, Contents, Used, Cell
  <1>4. Contents(q) \in Seq(Nat) /\ Len(Contents(q)) = Used(q)
    <2>1. [i \in 1 .. Used(q) |-> Len(out) + i] \in [1 .. Used(q) -> Nat]
      BY <1>1
    <2>2. QED
      BY <1>2, <1>3, <2>1
  <1>5. /\ more \in Seq(Nat) /\ Len(more) = n
        /\ \A i \in 1 .. n : more[i] = i
    BY <1>1, <1>2, <1>3, <1>4
  <1>6. Used(r) = 0
    <2>1. intq_empty(r)
      BY Zenon DEF intq_empty
    <2>2. QED
      BY <2>1, QueueTypes, Zenon
  <1> HIDE DEF more
  <1>7. QED
    BY <1>5, <1>6 DEF Numbered, more

-----------------------------------------------------------------------------
(* The lock of a queue.                                                    *)

\* Appending to a list without repetitions, and removing its first element.
LEMMA AppendFacts ==
    ASSUME NEW T, NEW s \in Seq(T), NEW x \in T
    PROVE  /\ Append(s, x) \in Seq(T)
           /\ \A y : y \in Range(Append(s, x)) <=> y \in Range(s) \/ y = x
           /\ IsInjective(s) /\ x \notin Range(s) => IsInjective(Append(s, x))
  <1>1. /\ Append(s, x) \in Seq(T) /\ Len(s) \in Nat /\ Len(Append(s, x)) = Len(s) + 1
        /\ DOMAIN s = 1 .. Len(s) /\ DOMAIN Append(s, x) = 1 .. Len(s) + 1
        /\ \A i \in 1 .. Len(s) : Append(s, x)[i] = s[i]
        /\ Append(s, x)[Len(s) + 1] = x
    OBVIOUS
  <1>2. \A i \in 1 .. Len(s) + 1 : i \in 1 .. Len(s) \/ i = Len(s) + 1
    BY <1>1
  <1>3. \A i \in 1 .. Len(s) : i \in 1 .. Len(s) + 1
    BY <1>1
  <1>4. Len(s) + 1 \in 1 .. Len(s) + 1
    BY <1>1
  <1>5. \A y : y \in Range(Append(s, x)) <=> y \in Range(s) \/ y = x
    BY <1>1, <1>2, <1>3, <1>4, Zenon DEF Range
  <1>6. IsInjective(s) /\ x \notin Range(s) => IsInjective(Append(s, x))
    BY <1>1, <1>2, Zenon DEF Range, IsInjective
  <1>7. QED
    BY <1>1, <1>5, <1>6, Zenon

\* Without its first element, such a list holds all the others.
LEMMA TailFacts ==
    ASSUME NEW T, NEW s \in Seq(T), s # <<>>, IsInjective(s)
    PROVE  /\ Tail(s) \in Seq(T) /\ Head(s) \in T /\ IsInjective(Tail(s))
           /\ \A y : y \in Range(Tail(s)) <=> y \in Range(s) /\ y # Head(s)
           /\ Head(s) \in Range(s)
  <1>1. /\ Tail(s) \in Seq(T) /\ Len(s) \in Nat /\ Len(s) > 0 /\ Len(Tail(s)) = Len(s) - 1
        /\ DOMAIN s = 1 .. Len(s) /\ DOMAIN Tail(s) = 1 .. Len(s) - 1
        /\ Head(s) = s[1] /\ Head(s) \in T
        /\ \A i \in 1 .. Len(s) - 1 : Tail(s)[i] = s[i + 1]
    OBVIOUS
  <1>2. \A i \in 1 .. Len(s) - 1 : i + 1 \in 1 .. Len(s) /\ i + 1 # 1
    BY <1>1
  <1>3. ASSUME NEW i \in 1 .. Len(s), i # 1 PROVE \E j \in 1 .. Len(s) - 1 : i = j + 1
    <2>1. i - 1 \in 1 .. Len(s) - 1 /\ i = (i - 1) + 1
      BY <1>1, <1>3
    <2>2. QED
      BY <2>1, Zenon
  <1>4. 1 \in 1 .. Len(s)
    BY <1>1
  <1>5. \A y : y \in Range(Tail(s)) <=> y \in Range(s) /\ y # Head(s)
    <2>1. ASSUME NEW y \in Range(Tail(s)) PROVE y \in Range(s) /\ y # Head(s)
      <3>1. PICK i \in 1 .. Len(s) - 1 : y = s[i + 1]
        BY <1>1, Zenon DEF Range
      <3>2. y \in Range(s)
        BY <1>1, <1>2, <3>1, Zenon DEF Range
      <3>3. QED
        BY <1>1, <1>2, <1>4, <3>1, <3>2, Zenon DEF IsInjective
    <2>2. ASSUME NEW y \in Range(s), y # Head(s) PROVE y \in Range(Tail(s))
      <3>1. PICK i \in 1 .. Len(s) : y = s[i]
        BY <1>1, Zenon DEF Range
      <3>2. PICK j \in 1 .. Len(s) - 1 : i = j + 1
        BY <1>1, <1>3, <2>2, <3>1, Zenon
      <3>3. y = Tail(s)[j] /\ j \in DOMAIN Tail(s)
        BY <1>1, <3>1, <3>2, Zenon
      <3>4. QED
        BY <3>3, Zenon DEF Range
    <2>3. QED
      BY <2>1, <2>2, Zenon
  <1>6. \A i, j \in 1 .. Len(s) - 1 : i + 1 = j + 1 => i = j
    BY <1>1
  <1>7. IsInjective(Tail(s))
    <2> SUFFICES ASSUME NEW i \in 1 .. Len(s) - 1, NEW j \in 1 .. Len(s) - 1,
                        Tail(s)[i] = Tail(s)[j]
                 PROVE  i = j
      BY <1>1, Zenon DEF IsInjective
    <2>1. s[i + 1] = s[j + 1]
      BY <1>1, Zenon
    <2>2. i + 1 = j + 1
      BY <1>1, <1>2, <2>1, Zenon DEF IsInjective
    <2>3. QED
      BY <1>6, <2>2, Zenon
  <1>8. QED
    BY <1>1, <1>4, <1>5, <1>7, Zenon DEF Range

\* Thread t goes from at to at2; no other thread of T moves.
Goes(T, t, at, at2, to) == at2[t] = to /\ \A u \in T : u # t => at2[u] = at[u]

\* The lock does not notice steps of other threads.
LEMMA LockFrame ==
    ASSUME NEW T, NEW at, NEW at2, NEW sl, NEW sl2, NEW value, NEW ws, NEW w, NULL \notin T,
           LockOK(T, at, sl, value, ws, w),
           \A u \in T : at2[u] = at[u] /\ (u \in sl2 <=> u \in sl)
    PROVE  LockOK(T, at2, sl2, value, ws, w)
  <1>1. \A u \in Range(ws) : u \in T
    BY DEF LockOK, Range
  <1>2. QED
    BY <1>1, Zenon DEF LockOK

\* signal() wakes the queue's waiter, which keeps the lock.
LEMMA LockSignal ==
    ASSUME NEW T, NEW at, NEW sl, NEW sl2, NEW value, NEW ws, NEW w, NULL \notin T,
           LockOK(T, at, sl, value, ws, w),
           \A u \in T : u \in sl2 <=> u \in sl /\ u # w
    PROVE  LockOK(T, at, sl2, value, ws, NULL)
  <1>1. \A u \in Range(ws) : u \in T /\ at[u] = "lock"
    BY DEF LockOK, Range
  <1>2. \A u \in T : u = w => at[u] = "wait"
    BY Zenon DEF LockOK
  <1>3. \A u \in T : u \in sl2 <=> u \in Range(ws)
    BY <1>1, <1>2, Zenon DEF LockOK
  <1>4. QED
    BY <1>1, <1>3, Zenon DEF LockOK

\* lock_acquire() of a thread that finds the lock taken.
LEMMA LockQueue ==
    ASSUME NEW T, NEW at, NEW at2, NEW sl, NEW sl2, NEW ws, NEW w, NULL \notin T,
           LockOK(T, at, sl, 0, ws, w),
           NEW t \in T, t \notin sl, at[t] # "wait", Goes(T, t, at, at2, "lock"),
           \A u \in T : u \in sl2 <=> u \in sl \/ u = t
    PROVE  LockOK(T, at2, sl2, 0, Append(ws, t), w)
  <1>1. /\ ws \in Seq(T) /\ IsInjective(ws) /\ w \in T \cup {NULL}
        /\ \A u \in Range(ws) : at[u] = "lock"
        /\ w # NULL => at[w] = "wait"
        /\ \A u, v \in T : at[u] = "wait" /\ at[v] = "wait" => u = v
        /\ \E u \in T : at[u] = "wait"
        /\ \A u \in T : u \in sl <=> u = w \/ u \in Range(ws)
    BY Zenon DEF LockOK
  <1>2. \A u \in Range(ws) : u \in T
    BY <1>1 DEF Range
  <1>3. t \notin Range(ws)
    BY <1>1, Zenon
  <1>4. /\ Append(ws, t) \in Seq(T) /\ IsInjective(Append(ws, t))
        /\ \A y : y \in Range(Append(ws, t)) <=> y \in Range(ws) \/ y = t
    BY <1>1, <1>3, AppendFacts, Zenon
  <1>5. \A u \in T : at2[u] = "wait" <=> at[u] = "wait"
    BY Zenon DEF Goes
  <1>6. \A u \in Range(Append(ws, t)) : at2[u] = "lock"
    BY <1>1, <1>2, <1>4, Zenon DEF Goes
  <1>7. /\ w # NULL => at2[w] = "wait"
        /\ \A u, v \in T : at2[u] = "wait" /\ at2[v] = "wait" => u = v
        /\ \E u \in T : at2[u] = "wait"
    BY <1>1, <1>5, Zenon
  <1>8. \A u \in T : u \in sl2 <=> u = w \/ u \in Range(Append(ws, t))
    BY <1>1, <1>4, Zenon
  <1>9. QED
    BY <1>1, <1>4, <1>6, <1>7, <1>8, Zenon DEF LockOK

\* lock_acquire() of a thread that finds the lock free, and wait().
LEMMA LockWait ==
    ASSUME NEW T, NEW at, NEW at2, NEW sl, NEW sl2, NEW ws, NEW w, NULL \notin T,
           LockOK(T, at, sl, 1, ws, w),
           NEW t \in T, t \notin sl, Goes(T, t, at, at2, "wait"),
           \A u \in T : u \in sl2 <=> u \in sl \/ u = t
    PROVE  LockOK(T, at2, sl2, 0, ws, t)
  <1>1. /\ ws \in Seq(T) /\ IsInjective(ws) /\ w \in T \cup {NULL}
        /\ \A u \in Range(ws) : at[u] = "lock"
        /\ w # NULL => at[w] = "wait"
        /\ \A u \in T : u \in sl <=> u = w \/ u \in Range(ws)
    BY Zenon DEF LockOK
  <1>2. \A u \in T : at[u] # "wait"
    BY DEF LockOK
  <1>3. \A u \in T : u # w
    BY <1>1, <1>2, Zenon
  <1>4. \A u \in Range(ws) : u \in T
    BY <1>1 DEF Range
  <1>5. \A u \in Range(ws) : u # t /\ at2[u] = "lock"
    BY <1>1, <1>4, Zenon DEF Goes
  <1>6. \A u \in T : at2[u] = "wait" <=> u = t
    BY <1>2, Zenon DEF Goes
  <1>7. \A u \in T : u \in sl2 <=> u = t \/ u \in Range(ws)
    BY <1>1, <1>3, Zenon
  <1>8. QED
    BY <1>1, <1>5, <1>6, <1>7, Zenon DEF LockOK

\* A thread that is not in wait() and not asleep comes back, or fails.
LEMMA LockLeave ==
    ASSUME NEW T, NEW at, NEW at2, NEW sl, NEW value, NEW ws, NEW w, NULL \notin T,
           LockOK(T, at, sl, value, ws, w),
           NEW t \in T, t \notin sl, at[t] # "wait", NEW to, to # "wait", Goes(T, t, at, at2, to)
    PROVE  LockOK(T, at2, sl, value, ws, w)
  <1>1. \A u \in Range(ws) : u \in T /\ u # t
    BY DEF LockOK, Range
  <1>2. \A u \in T : at2[u] = "wait" <=> at[u] = "wait"
    BY Zenon DEF Goes
  <1>3. \A u \in Range(ws) : at2[u] = "lock"
    BY <1>1, Zenon DEF LockOK, Goes
  <1>4. QED
    BY <1>1, <1>2, <1>3, Zenon DEF LockOK

\* lock_release(): the first thread on the lock is woken and leaves the list.
Rest(ws) == IF ws = <<>> THEN ws ELSE Tail(ws)
First(ws) == IF ws = <<>> THEN {} ELSE {Head(ws)}

\* A thread that runs in wait() holds the lock, and nobody else waits; without it
\* and the first thread on the lock, the others are as before.
LEMMA LockHolder ==
    ASSUME NEW T, NEW at, NEW sl, NEW value, NEW ws, NEW w, NULL \notin T,
           LockOK(T, at, sl, value, ws, w), NEW t \in T, t \notin sl, at[t] = "wait"
    PROVE  /\ value = 0 /\ w = NULL
           /\ \A u \in T : at[u] = "wait" <=> u = t
           /\ Rest(ws) \in Seq(T) /\ IsInjective(Rest(ws))
           /\ \A u \in Range(Rest(ws)) : u \in T /\ u # t /\ at[u] = "lock"
           /\ \A u \in T : u \in Range(Rest(ws)) <=> u \in sl /\ u \notin First(ws)
           /\ t \notin First(ws)
  <1>1. /\ value \in {0, 1} /\ ws \in Seq(T) /\ IsInjective(ws) /\ w \in T \cup {NULL}
        /\ \A u \in Range(ws) : at[u] = "lock"
        /\ w # NULL => at[w] = "wait"
        /\ \A u, v \in T : at[u] = "wait" /\ at[v] = "wait" => u = v
        /\ value = 0 <=> \E u \in T : at[u] = "wait"
        /\ \A u \in T : u \in sl <=> u = w \/ u \in Range(ws)
    BY Zenon DEF LockOK
  <1>2. value = 0
    BY <1>1, Zenon
  <1>3. w = NULL
    BY <1>1, Zenon
  <1>4. \A u \in T : at[u] = "wait" <=> u = t
    BY <1>1, Zenon
  <1>5. \A u \in Range(ws) : u \in T /\ u # t
    BY <1>1 DEF Range
  <1>6. /\ Rest(ws) \in Seq(T) /\ IsInjective(Rest(ws))
        /\ \A u : u \in Range(Rest(ws)) <=> u \in Range(ws) /\ u \notin First(ws)
        /\ \A u \in First(ws) : u \in Range(ws)
    <2>1. CASE ws = <<>>
      <3>1. Rest(ws) = ws /\ First(ws) = {}
        BY <2>1, Zenon DEF Rest, First
      <3>2. QED
        BY <1>1, <3>1, Zenon
    <2>2. CASE ws # <<>>
      <3>1. Rest(ws) = Tail(ws) /\ First(ws) = {Head(ws)}
        BY <2>2, Zenon DEF Rest, First
      <3>2. /\ Tail(ws) \in Seq(T) /\ IsInjective(Tail(ws)) /\ Head(ws) \in Range(ws)
            /\ \A y : y \in Range(Tail(ws)) <=> y \in Range(ws) /\ y # Head(ws)
        BY <1>1, <2>2, TailFacts, Zenon
      <3>3. QED
        BY <3>1, <3>2, Zenon
    <2>3. QED
      BY <2>1, <2>2, Zenon
  <1>7. \A u \in Range(Rest(ws)) : u \in T /\ u # t /\ at[u] = "lock"
    BY <1>1, <1>5, <1>6, Zenon
  <1>8. \A u \in T : u \in Range(Rest(ws)) <=> u \in sl /\ u \notin First(ws)
    BY <1>1, <1>3, <1>6, Zenon
  <1>9. t \notin First(ws)
    BY <1>5, <1>6, Zenon
  <1>10. QED
    BY <1>2, <1>3, <1>4, <1>6, <1>7, <1>8, <1>9, Zenon

\* It releases the lock and its call returns.
LEMMA LockRelease ==
    ASSUME NEW T, NEW at, NEW at2, NEW sl, NEW sl2, NEW value, NEW ws, NEW w, NULL \notin T,
           LockOK(T, at, sl, value, ws, w), NEW t \in T, t \notin sl, at[t] = "wait",
           Goes(T, t, at, at2, "out"),
           \A u \in T : u \in sl2 <=> u \in sl /\ u \notin First(ws)
    PROVE  LockOK(T, at2, sl2, value + 1, Rest(ws), w)
  <1>1. /\ value = 0 /\ w = NULL
        /\ \A u \in T : at[u] = "wait" <=> u = t
        /\ Rest(ws) \in Seq(T) /\ IsInjective(Rest(ws))
        /\ \A u \in Range(Rest(ws)) : u \in T /\ u # t /\ at[u] = "lock"
        /\ \A u \in T : u \in Range(Rest(ws)) <=> u \in sl /\ u \notin First(ws)
    BY LockHolder
  <1>2. value + 1 = 1
    BY <1>1
  <1>3. \A u \in T : at2[u] # "wait"
    BY <1>1, Zenon DEF Goes
  <1>4. \A u \in Range(Rest(ws)) : at2[u] = "lock"
    BY <1>1, Zenon DEF Goes
  <1>5. \A u \in T : u \in sl2 <=> u = w \/ u \in Range(Rest(ws))
    BY <1>1, Zenon
  <1>6. QED
    BY <1>1, <1>2, <1>3, <1>4, <1>5 DEF LockOK

\* It releases the lock, finds that it has to wait again, and gets the lock back
\* before the thread that it has woken runs.
LEMMA LockAgain ==
    ASSUME NEW T, NEW at, NEW at2, NEW sl, NEW sl2, NEW value, NEW ws, NEW w, NULL \notin T,
           LockOK(T, at, sl, value, ws, w), NEW t \in T, t \notin sl, at[t] = "wait",
           Goes(T, t, at, at2, "wait"),
           \A u \in T : u \in sl2 <=> (u \in sl /\ u \notin First(ws)) \/ u = t
    PROVE  LockOK(T, at2, sl2, 0, Rest(ws), t)
  <1>1. /\ value = 0 /\ w = NULL
        /\ \A u \in T : at[u] = "wait" <=> u = t
        /\ Rest(ws) \in Seq(T) /\ IsInjective(Rest(ws))
        /\ \A u \in Range(Rest(ws)) : u \in T /\ u # t /\ at[u] = "lock"
        /\ \A u \in T : u \in Range(Rest(ws)) <=> u \in sl /\ u \notin First(ws)
    BY LockHolder
  <1>2. \A u \in T : at2[u] = "wait" <=> u = t
    BY <1>1, Zenon DEF Goes
  <1>3. \A u \in Range(Rest(ws)) : at2[u] = "lock"
    BY <1>1, Zenon DEF Goes
  <1>4. \A u \in T : u \in sl2 <=> u = t \/ u \in Range(Rest(ws))
    BY <1>1, Zenon
  <1>5. QED
    BY <1>1, <1>2, <1>3, <1>4, Zenon DEF LockOK

-----------------------------------------------------------------------------
(* What the functions of a queue change.                                   *)

\* Taking or adding a byte leaves the lock alone.
LEMMA TakePutFields ==
    ASSUME NEW q \in Queue, NEW byte \in Nat
    PROVE  /\ take(q).value = q.value /\ take(q).waiters = q.waiters
           /\ take(q).not_full = NULL /\ take(q).not_empty = q.not_empty
           /\ put(q, byte).value = q.value /\ put(q, byte).waiters = q.waiters
           /\ put(q, byte).not_full = q.not_full /\ put(q, byte).not_empty = NULL
  BY Zenon DEF take, put, Queue

\* The threads that signal() wakes: input_putc() a reader, a transmitted byte a
\* writer.
LEMMA SignalledThreads ==
    ASSUME NEW q \in Queue, NEW byte \in Nat
    PROVE  /\ q.not_full = NULL => /\ signalled(q, put(q, byte)) = {q.not_empty} \ {NULL}
                                   /\ signalled(q, take(q)) = {}
           /\ q.not_empty = NULL => /\ signalled(q, take(q)) = {q.not_full} \ {NULL}
                                    /\ signalled(q, put(q, byte)) = {}
           /\ signalled(q, q) = {}
  <1>1. /\ take(q).not_full = NULL /\ take(q).not_empty = q.not_empty
        /\ put(q, byte).not_full = q.not_full /\ put(q, byte).not_empty = NULL
    BY TakePutFields, Zenon
  <1>2. QED
    BY <1>1, Zenon DEF signalled

\* lock_release() changes the lock only.
LEMMA UnlockFields ==
    ASSUME NEW q \in Queue, q.value = 0
    PROVE  /\ unlock(q) \in Queue /\ SameRing(q, unlock(q))
           /\ unlock(q).value = 1 /\ unlock(q).waiters = Rest(q.waiters)
           /\ unlock(q).not_full = q.not_full /\ unlock(q).not_empty = q.not_empty
           /\ unlocked(q) = First(q.waiters)
  <1>1. Rest(q.waiters) \in Seq(Thread)
    BY DEF Queue, Rest
  <1>2. unlock(q) = [q EXCEPT !.value = 1, !.waiters = Rest(q.waiters)]
    BY DEF Queue, Rest, unlock
  <1>3. QED
    BY <1>1, <1>2, Zenon DEF Queue, SameRing, unlocked, First

\* A thread that sleeps changes the lock, or takes it and becomes the waiter.
LEMMA SleepFields ==
    ASSUME NEW q \in Queue, NEW t \in Thread
    PROVE  /\ sleep(q, t) \in Queue /\ SameRing(q, sleep(q, t))
           /\ q.value = 0 =>
                /\ sleep(q, t).value = 0 /\ sleep(q, t).waiters = Append(q.waiters, t)
                /\ sleep(q, t).not_full = q.not_full /\ sleep(q, t).not_empty = q.not_empty
                /\ asleep(q) = "lock"
           /\ q.value = 1 =>
                /\ sleep(q, t).value = 0 /\ sleep(q, t).waiters = q.waiters
                /\ asleep(q) = "wait"
                /\ t \in Reader => /\ sleep(q, t).not_full = q.not_full
                                   /\ sleep(q, t).not_empty = t
                /\ t \in Writer => /\ sleep(q, t).not_empty = q.not_empty
                                   /\ sleep(q, t).not_full = t
  <1>1. Append(q.waiters, t) \in Seq(Thread)
    BY DEF Queue
  <1>2. CASE q.value = 0
    <2>1. sleep(q, t) = [q EXCEPT !.waiters = Append(q.waiters, t)] /\ asleep(q) = "lock"
      BY <1>2, Zenon DEF sleep, asleep
    <2>2. sleep(q, t) \in Queue
      BY <1>1, <2>1, Zenon DEF Queue
    <2>3. /\ SameRing(q, sleep(q, t))
          /\ sleep(q, t).value = q.value /\ sleep(q, t).waiters = Append(q.waiters, t)
          /\ sleep(q, t).not_full = q.not_full /\ sleep(q, t).not_empty = q.not_empty
      BY <2>1, Zenon DEF Queue, SameRing
    <2>4. QED
      BY <1>2, <2>1, <2>2, <2>3
  <1>3. CASE q.value = 1 /\ t \in Reader
    <2>1. t \notin Writer /\ q.value # 0
      BY <1>3, SerialAssumption
    <2>2. sleep(q, t) = [q EXCEPT !.value = 0, !.not_empty = t] /\ asleep(q) = "wait"
      BY <1>3, <2>1, Zenon DEF sleep, asleep
    <2>3. QED
      BY <1>3, <2>1, <2>2, Zenon DEF Queue, SameRing
  <1>4. CASE q.value = 1 /\ t \in Writer
    <2>1. t \notin Reader /\ q.value # 0
      BY <1>4, SerialAssumption
    <2>2. sleep(q, t) = [q EXCEPT !.value = 0, !.not_full = t] /\ asleep(q) = "wait"
      BY <1>4, <2>1, Zenon DEF sleep, asleep
    <2>3. QED
      BY <1>4, <2>1, <2>2, Zenon DEF Queue, SameRing
  <1>5. q.value \in {0, 1} /\ (t \in Reader \/ t \in Writer)
    BY Zenon DEF Queue, Thread
  <1>6. QED
    BY <1>2, <1>3, <1>4, <1>5, Zenon

\* A byte taken from a queue makes room for one.
LEMMA RoomAfterTake ==
    ASSUME NEW q \in Queue
    PROVE  /\ intq_full(q) => ~intq_empty(q)
           /\ ~intq_empty(q) => ~intq_full(take(q))
  <1>1. /\ INTQ_BUFSIZE \in Nat /\ INTQ_BUFSIZE > 1
        /\ q.head \in Nat /\ q.tail \in Nat /\ q.head < INTQ_BUFSIZE /\ q.tail < INTQ_BUFSIZE
    BY SerialAssumption DEF Queue, Pos
  <1>2. take(q).head = q.head /\ take(q).tail = next(q.tail)
    BY Zenon DEF take, Queue
  <1>3. /\ next(q.head) = (IF q.head + 1 = INTQ_BUFSIZE THEN 0 ELSE q.head + 1)
        /\ next(q.tail) = (IF q.tail + 1 = INTQ_BUFSIZE THEN 0 ELSE q.tail + 1)
    BY RingFacts, Zenon
  <1>4. next(q.head) # q.head
    BY <1>1, <1>3
  <1>5. next(q.head) = next(q.tail) => q.head = q.tail
    BY <1>1, <1>3
  <1>6. QED
    BY <1>2, <1>4, <1>5, Zenon DEF intq_full, intq_empty

-----------------------------------------------------------------------------
(* The input buffer and its readers.                                       *)

InputOK(q, at, sl, out, n) ==
    /\ q \in Queue /\ q.not_full = NULL /\ n \in Nat
    /\ Numbered(q, out, n)
    /\ LockOK(Reader, at, sl, q.value, q.waiters, q.not_empty)
    /\ q.not_empty # NULL => intq_empty(q)

\* Steps of other threads do not concern the readers.
LEMMA InputFrame ==
    ASSUME NEW q, NEW at, NEW at2, NEW sl, NEW sl2, NEW out, NEW n, InputOK(q, at, sl, out, n),
           \A u \in Reader : at2[u] = at[u] /\ (u \in sl2 <=> u \in sl)
    PROVE  InputOK(q, at2, sl2, out, n)
  <1>1. LockOK(Reader, at2, sl2, q.value, q.waiters, q.not_empty)
    BY LockFrame, SerialAssumption, Zenon DEF InputOK
  <1>2. QED
    BY <1>1, Zenon DEF InputOK

\* A byte arrives.
LEMMA InputPut ==
    ASSUME NEW q, NEW at, NEW sl, NEW sl2, NEW out, NEW n, InputOK(q, at, sl, out, n),
           ~intq_full(q),
           \A u \in Reader : u \in sl2 <=> u \in sl /\ u \notin signalled(q, put(q, n + 1))
    PROVE  InputOK(put(q, n + 1), at, sl2, out, n + 1)
  <1>1. q \in Queue /\ q.not_full = NULL /\ n \in Nat /\ n + 1 \in Nat /\ NULL \notin Reader
    BY SerialAssumption DEF InputOK
  <1>2. put(q, n + 1) \in Queue
    BY <1>1, QueueTypes, Zenon
  <1>3. Numbered(put(q, n + 1), out, n + 1)
    BY <1>1, PutNumbered, Zenon DEF InputOK
  <1>4. /\ put(q, n + 1).value = q.value /\ put(q, n + 1).waiters = q.waiters
        /\ put(q, n + 1).not_full = q.not_full /\ put(q, n + 1).not_empty = NULL
    BY <1>1, TakePutFields, Zenon
  <1>5. signalled(q, put(q, n + 1)) = {q.not_empty} \ {NULL}
    BY <1>1, SignalledThreads, Zenon
  <1>6. \A u \in Reader : u \in sl2 <=> u \in sl /\ u # q.not_empty
    BY <1>1, <1>5, Zenon
  <1>7. LockOK(Reader, at, sl, q.value, q.waiters, q.not_empty)
    BY Zenon DEF InputOK
  <1>8. LockOK(Reader, at, sl2, q.value, q.waiters, NULL)
    BY <1>1, <1>6, <1>7, LockSignal, Zenon
  <1>9. QED
    BY <1>1, <1>2, <1>3, <1>4, <1>8, Zenon DEF InputOK

\* A reader takes a byte without having slept, or after it has slept.
LEMMA InputTake ==
    ASSUME NEW q, NEW at, NEW sl, NEW out, NEW n, InputOK(q, at, sl, out, n),
           ~intq_empty(q)
    PROVE  /\ InputOK(take(q), at, sl, Append(out, q.buf[q.tail]), n)
           /\ signalled(q, take(q)) = {}
  <1>1. q \in Queue /\ q.not_full = NULL /\ n \in Nat /\ q.not_empty = NULL
    BY Zenon DEF InputOK
  <1>2. take(q) \in Queue
    BY <1>1, QueueTypes, Zenon
  <1>3. Numbered(take(q), Append(out, q.buf[q.tail]), n)
    BY <1>1, TakeNumbered, Zenon DEF InputOK
  <1>4. /\ take(q).value = q.value /\ take(q).waiters = q.waiters
        /\ take(q).not_full = NULL /\ take(q).not_empty = q.not_empty
    BY <1>1, TakePutFields, Zenon
  <1>5. LockOK(Reader, at, sl, q.value, q.waiters, q.not_empty)
    BY Zenon DEF InputOK
  <1>6. signalled(q, take(q)) = {}
    BY <1>1, SignalledThreads, Zenon
  <1>7. QED
    BY <1>1, <1>2, <1>3, <1>4, <1>5, <1>6, Zenon DEF InputOK

\* A reader sleeps because the buffer is empty, or because the lock is taken.
LEMMA InputSleep ==
    ASSUME NEW q, NEW at, NEW at2, NEW sl, NEW sl2, NEW out, NEW n, InputOK(q, at, sl, out, n),
           NEW t \in Reader, t \notin sl, at[t] # "wait", q.value = 0 \/ intq_empty(q),
           Goes(Reader, t, at, at2, asleep(q)),
           \A u \in Reader : u \in sl2 <=> u \in sl \/ u = t
    PROVE  InputOK(sleep(q, t), at2, sl2, out, n)
  <1>1. /\ q \in Queue /\ q.not_full = NULL /\ n \in Nat /\ NULL \notin Reader
        /\ q.value \in {0, 1} /\ t \in Thread
    BY SerialAssumption, Zenon DEF InputOK, Queue, Thread
  <1>2. /\ Numbered(q, out, n)
        /\ q.not_empty # NULL => intq_empty(q)
        /\ LockOK(Reader, at, sl, q.value, q.waiters, q.not_empty)
    BY Zenon DEF InputOK
  <1>3. sleep(q, t) \in Queue /\ SameRing(q, sleep(q, t))
    BY <1>1, SleepFields, Zenon
  <1>4. /\ Numbered(sleep(q, t), out, n)
        /\ intq_empty(sleep(q, t)) <=> intq_empty(q)
    BY <1>2, <1>3, RingKept, Zenon
  <1>5. CASE q.value = 0
    <2>1. /\ sleep(q, t).value = 0 /\ sleep(q, t).waiters = Append(q.waiters, t)
          /\ sleep(q, t).not_full = q.not_full /\ sleep(q, t).not_empty = q.not_empty
          /\ asleep(q) = "lock"
      BY <1>1, <1>5, SleepFields, Zenon
    <2>2. LockOK(Reader, at2, sl2, 0, Append(q.waiters, t), q.not_empty)
      BY <1>1, <1>2, <1>5, <2>1, LockQueue, Zenon
    <2>3. QED
      BY <1>1, <1>2, <1>3, <1>4, <2>1, <2>2, Zenon DEF InputOK
  <1>6. CASE q.value = 1
    <2>1. /\ sleep(q, t).value = 0 /\ sleep(q, t).waiters = q.waiters
          /\ sleep(q, t).not_full = q.not_full /\ sleep(q, t).not_empty = t
          /\ asleep(q) = "wait"
      BY <1>1, <1>6, SleepFields, Zenon
    <2>2. LockOK(Reader, at2, sl2, 0, q.waiters, t)
      BY <1>1, <1>2, <1>6, <2>1, LockWait, Zenon
    <2>3. intq_empty(q)
      BY <1>6
    <2>4. QED
      BY <1>1, <1>2, <1>3, <1>4, <2>1, <2>2, <2>3, Zenon DEF InputOK
  <1>7. QED
    BY <1>1, <1>5, <1>6, Zenon

\* A reader that wait() has woken takes a byte, or finds the buffer empty again.
LEMMA InputWoken ==
    ASSUME NEW q, NEW at, NEW at2, NEW sl, NEW sl2, NEW out, NEW n, InputOK(q, at, sl, out, n),
           NEW t \in Reader, t \notin sl, at[t] = "wait"
    PROVE  /\ unlock(q) \in Queue /\ SameRing(q, unlock(q)) /\ asleep(unlock(q)) = "wait"
           /\ unlock(q).not_full = NULL
           /\ /\ Goes(Reader, t, at, at2, "out")
              /\ \A u \in Reader : u \in sl2 <=> u \in sl /\ u \notin unlocked(q)
              => InputOK(unlock(q), at2, sl2, out, n)
           /\ /\ intq_empty(q) /\ Goes(Reader, t, at, at2, "wait")
              /\ \A u \in Reader : u \in sl2 <=> (u \in sl /\ u \notin unlocked(q)) \/ u = t
              => InputOK(sleep(unlock(q), t), at2, sl2, out, n)
  <1>1. /\ q \in Queue /\ q.not_full = NULL /\ n \in Nat /\ NULL \notin Reader /\ t \in Thread
        /\ Numbered(q, out, n)
        /\ q.not_empty # NULL => intq_empty(q)
        /\ LockOK(Reader, at, sl, q.value, q.waiters, q.not_empty)
    BY SerialAssumption, Zenon DEF InputOK, Thread
  <1>2. q.value = 0 /\ q.not_empty = NULL
    BY <1>1, LockHolder
  <1>3. /\ unlock(q) \in Queue /\ SameRing(q, unlock(q))
        /\ unlock(q).value = 1 /\ unlock(q).waiters = Rest(q.waiters)
        /\ unlock(q).not_full = q.not_full /\ unlock(q).not_empty = q.not_empty
        /\ unlocked(q) = First(q.waiters)
    BY <1>1, <1>2, UnlockFields, Zenon
  <1>4. /\ Numbered(unlock(q), out, n)
        /\ intq_empty(unlock(q)) <=> intq_empty(q)
    BY <1>1, <1>3, RingKept, Zenon
  <1>5. /\ sleep(unlock(q), t) \in Queue /\ SameRing(unlock(q), sleep(unlock(q), t))
        /\ sleep(unlock(q), t).value = 0 /\ sleep(unlock(q), t).waiters = Rest(q.waiters)
        /\ sleep(unlock(q), t).not_full = NULL /\ sleep(unlock(q), t).not_empty = t
        /\ asleep(unlock(q)) = "wait"
    BY <1>1, <1>3, SleepFields, Zenon
  <1>6. /\ Numbered(sleep(unlock(q), t), out, n)
        /\ intq_empty(sleep(unlock(q), t)) <=> intq_empty(q)
    BY <1>4, <1>5, RingKept, Zenon
  <1>7. ASSUME Goes(Reader, t, at, at2, "out"),
               \A u \in Reader : u \in sl2 <=> u \in sl /\ u \notin First(q.waiters)
        PROVE  InputOK(unlock(q), at2, sl2, out, n)
    <2>1. LockOK(Reader, at2, sl2, q.value + 1, Rest(q.waiters), q.not_empty)
      BY <1>1, <1>7, LockRelease, Zenon
    <2>2. LockOK(Reader, at2, sl2, 1, Rest(q.waiters), NULL)
      BY <1>2, <2>1
    <2>3. QED
      BY <1>1, <1>2, <1>3, <1>4, <2>2, Zenon DEF InputOK
  <1>8. ASSUME intq_empty(q), Goes(Reader, t, at, at2, "wait"),
               \A u \in Reader : u \in sl2 <=> (u \in sl /\ u \notin First(q.waiters)) \/ u = t
        PROVE  InputOK(sleep(unlock(q), t), at2, sl2, out, n)
    <2>1. LockOK(Reader, at2, sl2, 0, Rest(q.waiters), t)
      BY <1>1, <1>8, LockAgain, Zenon
    <2>2. QED
      BY <1>1, <1>5, <1>6, <1>8, <2>1, Zenon DEF InputOK
  <1>9. QED
    BY <1>1, <1>3, <1>5, <1>7, <1>8, Zenon

\* A reader fails wait()'s ASSERT.
LEMMA InputFail ==
    ASSUME NEW q, NEW at, NEW at2, NEW sl, NEW out, NEW n, InputOK(q, at, sl, out, n),
           NEW t \in Reader, t \notin sl, at[t] # "wait", Goes(Reader, t, at, at2, "panic")
    PROVE  InputOK(q, at2, sl, out, n)
  <1>1. LockOK(Reader, at2, sl, q.value, q.waiters, q.not_empty)
    <2>1. NULL \notin Reader /\ LockOK(Reader, at, sl, q.value, q.waiters, q.not_empty)
      BY SerialAssumption, Zenon DEF InputOK
    <2>2. QED
      BY <2>1, LockLeave, Zenon
  <1>2. QED
    BY <1>1, Zenon DEF InputOK

-----------------------------------------------------------------------------
(* The transmit queue and its writers.                                     *)

OutputOK(q, at, sl, out, n) ==
    /\ q \in Queue /\ q.not_empty = NULL /\ n \in Nat
    /\ Numbered(q, out, n)
    /\ LockOK(Writer, at, sl, q.value, q.waiters, q.not_full)
    /\ q.not_full # NULL => intq_full(q)

\* Steps of other threads do not concern the writers.
LEMMA OutputFrame ==
    ASSUME NEW q, NEW at, NEW at2, NEW sl, NEW sl2, NEW out, NEW n, OutputOK(q, at, sl, out, n),
           \A u \in Writer : at2[u] = at[u] /\ (u \in sl2 <=> u \in sl)
    PROVE  OutputOK(q, at2, sl2, out, n)
  <1>1. LockOK(Writer, at2, sl2, q.value, q.waiters, q.not_full)
    BY LockFrame, SerialAssumption, Zenon DEF OutputOK
  <1>2. QED
    BY <1>1, Zenon DEF OutputOK

\* The UART takes a byte.
LEMMA OutputTake ==
    ASSUME NEW q, NEW at, NEW sl, NEW sl2, NEW out, NEW n, OutputOK(q, at, sl, out, n),
           ~intq_empty(q),
           \A u \in Writer : u \in sl2 <=> u \in sl /\ u \notin signalled(q, take(q))
    PROVE  OutputOK(take(q), at, sl2, Append(out, q.buf[q.tail]), n)
  <1>1. q \in Queue /\ q.not_empty = NULL /\ n \in Nat /\ NULL \notin Writer
    BY SerialAssumption, Zenon DEF OutputOK
  <1>2. take(q) \in Queue
    BY <1>1, QueueTypes, Zenon
  <1>3. Numbered(take(q), Append(out, q.buf[q.tail]), n)
    BY <1>1, TakeNumbered, Zenon DEF OutputOK
  <1>4. /\ take(q).value = q.value /\ take(q).waiters = q.waiters
        /\ take(q).not_full = NULL /\ take(q).not_empty = q.not_empty
    BY <1>1, TakePutFields, Zenon
  <1>5. signalled(q, take(q)) = {q.not_full} \ {NULL}
    BY <1>1, SignalledThreads, Zenon
  <1>6. \A u \in Writer : u \in sl2 <=> u \in sl /\ u # q.not_full
    BY <1>1, <1>5, Zenon
  <1>7. LockOK(Writer, at, sl, q.value, q.waiters, q.not_full)
    BY Zenon DEF OutputOK
  <1>8. LockOK(Writer, at, sl2, q.value, q.waiters, NULL)
    BY <1>1, <1>6, <1>7, LockSignal, Zenon
  <1>9. QED
    BY <1>1, <1>2, <1>3, <1>4, <1>8, Zenon DEF OutputOK

\* serial_flush() takes all of them.
LEMMA OutputFlush ==
    ASSUME NEW q, NEW at, NEW sl, NEW sl2, NEW out, NEW n, OutputOK(q, at, sl, out, n),
           NEW r \in Queue, r.head = q.head, r.tail = q.head, r.buf = q.buf,
           r.value = q.value, r.waiters = q.waiters, r.not_full = NULL, r.not_empty = NULL,
           \A u \in Writer : u \in sl2 <=> u \in sl /\ u \notin signalled(q, r)
    PROVE  OutputOK(r, at, sl2, out \o Contents(q), n) /\ intq_empty(r)
  <1>1. q \in Queue /\ q.not_empty = NULL /\ n \in Nat /\ NULL \notin Writer
    BY SerialAssumption, Zenon DEF OutputOK
  <1>2. Numbered(r, out \o Contents(q), n)
    BY <1>1, FlushNumbered, Zenon DEF OutputOK
  <1>3. \A u \in Writer : u \in sl2 <=> u \in sl /\ u # q.not_full
    BY <1>1, Zenon DEF signalled
  <1>4. LockOK(Writer, at, sl, q.value, q.waiters, q.not_full)
    BY Zenon DEF OutputOK
  <1>5. LockOK(Writer, at, sl2, q.value, q.waiters, NULL)
    BY <1>1, <1>3, <1>4, LockSignal, Zenon
  <1>6. QED
    BY <1>1, <1>2, <1>5, Zenon DEF OutputOK, intq_empty

\* A byte is queued without a writer having slept, or after one has slept.
LEMMA OutputPut ==
    ASSUME NEW q, NEW at, NEW sl, NEW out, NEW n, OutputOK(q, at, sl, out, n),
           ~intq_full(q)
    PROVE  /\ OutputOK(put(q, n + 1), at, sl, out, n + 1)
           /\ signalled(q, put(q, n + 1)) = {}
  <1>1. q \in Queue /\ q.not_empty = NULL /\ n \in Nat /\ n + 1 \in Nat /\ q.not_full = NULL
    BY DEF OutputOK
  <1>2. put(q, n + 1) \in Queue
    BY <1>1, QueueTypes, Zenon
  <1>3. Numbered(put(q, n + 1), out, n + 1)
    BY <1>1, PutNumbered, Zenon DEF OutputOK
  <1>4. /\ put(q, n + 1).value = q.value /\ put(q, n + 1).waiters = q.waiters
        /\ put(q, n + 1).not_full = q.not_full /\ put(q, n + 1).not_empty = NULL
    BY <1>1, TakePutFields, Zenon
  <1>5. LockOK(Writer, at, sl, q.value, q.waiters, q.not_full)
    BY Zenon DEF OutputOK
  <1>6. signalled(q, put(q, n + 1)) = {}
    BY <1>1, SignalledThreads, Zenon
  <1>7. QED
    BY <1>1, <1>2, <1>3, <1>4, <1>5, <1>6, Zenon DEF OutputOK

\* A writer sleeps because the queue is full, or because the lock is taken.
LEMMA OutputSleep ==
    ASSUME NEW q, NEW at, NEW at2, NEW sl, NEW sl2, NEW out, NEW n, OutputOK(q, at, sl, out, n),
           NEW t \in Writer, t \notin sl, at[t] # "wait", q.value = 0 \/ intq_full(q),
           Goes(Writer, t, at, at2, asleep(q)),
           \A u \in Writer : u \in sl2 <=> u \in sl \/ u = t
    PROVE  OutputOK(sleep(q, t), at2, sl2, out, n)
  <1>1. /\ q \in Queue /\ q.not_empty = NULL /\ n \in Nat /\ NULL \notin Writer
        /\ q.value \in {0, 1} /\ t \in Thread
    BY SerialAssumption, Zenon DEF OutputOK, Queue, Thread
  <1>2. /\ Numbered(q, out, n)
        /\ q.not_full # NULL => intq_full(q)
        /\ LockOK(Writer, at, sl, q.value, q.waiters, q.not_full)
    BY Zenon DEF OutputOK
  <1>3. sleep(q, t) \in Queue /\ SameRing(q, sleep(q, t))
    BY <1>1, SleepFields, Zenon
  <1>4. /\ Numbered(sleep(q, t), out, n)
        /\ intq_full(sleep(q, t)) <=> intq_full(q)
    BY <1>2, <1>3, RingKept, Zenon
  <1>5. CASE q.value = 0
    <2>1. /\ sleep(q, t).value = 0 /\ sleep(q, t).waiters = Append(q.waiters, t)
          /\ sleep(q, t).not_empty = q.not_empty /\ sleep(q, t).not_full = q.not_full
          /\ asleep(q) = "lock"
      BY <1>1, <1>5, SleepFields, Zenon
    <2>2. LockOK(Writer, at2, sl2, 0, Append(q.waiters, t), q.not_full)
      BY <1>1, <1>2, <1>5, <2>1, LockQueue, Zenon
    <2>3. QED
      BY <1>1, <1>2, <1>3, <1>4, <2>1, <2>2, Zenon DEF OutputOK
  <1>6. CASE q.value = 1
    <2>1. /\ sleep(q, t).value = 0 /\ sleep(q, t).waiters = q.waiters
          /\ sleep(q, t).not_empty = q.not_empty /\ sleep(q, t).not_full = t
          /\ asleep(q) = "wait"
      BY <1>1, <1>6, SleepFields, Zenon
    <2>2. LockOK(Writer, at2, sl2, 0, q.waiters, t)
      BY <1>1, <1>2, <1>6, <2>1, LockWait, Zenon
    <2>3. intq_full(q)
      BY <1>6
    <2>4. QED
      BY <1>1, <1>2, <1>3, <1>4, <2>1, <2>2, <2>3, Zenon DEF OutputOK
  <1>7. QED
    BY <1>1, <1>5, <1>6, Zenon

\* A writer that wait() has woken adds its byte, or finds the queue full again.
LEMMA OutputWoken ==
    ASSUME NEW q, NEW at, NEW at2, NEW sl, NEW sl2, NEW out, NEW n, OutputOK(q, at, sl, out, n),
           NEW t \in Writer, t \notin sl, at[t] = "wait"
    PROVE  /\ unlock(q) \in Queue /\ SameRing(q, unlock(q)) /\ asleep(unlock(q)) = "wait"
           /\ unlock(q).not_empty = NULL
           /\ /\ Goes(Writer, t, at, at2, "out")
              /\ \A u \in Writer : u \in sl2 <=> u \in sl /\ u \notin unlocked(q)
              => OutputOK(unlock(q), at2, sl2, out, n)
           /\ /\ intq_full(q) /\ Goes(Writer, t, at, at2, "wait")
              /\ \A u \in Writer : u \in sl2 <=> (u \in sl /\ u \notin unlocked(q)) \/ u = t
              => OutputOK(sleep(unlock(q), t), at2, sl2, out, n)
  <1>1. /\ q \in Queue /\ q.not_empty = NULL /\ n \in Nat /\ NULL \notin Writer /\ t \in Thread
        /\ Numbered(q, out, n)
        /\ q.not_full # NULL => intq_full(q)
        /\ LockOK(Writer, at, sl, q.value, q.waiters, q.not_full)
    BY SerialAssumption, Zenon DEF OutputOK, Thread
  <1>2. q.value = 0 /\ q.not_full = NULL
    BY <1>1, LockHolder
  <1>3. /\ unlock(q) \in Queue /\ SameRing(q, unlock(q))
        /\ unlock(q).value = 1 /\ unlock(q).waiters = Rest(q.waiters)
        /\ unlock(q).not_empty = q.not_empty /\ unlock(q).not_full = q.not_full
        /\ unlocked(q) = First(q.waiters)
    BY <1>1, <1>2, UnlockFields, Zenon
  <1>4. /\ Numbered(unlock(q), out, n)
        /\ intq_full(unlock(q)) <=> intq_full(q)
    BY <1>1, <1>3, RingKept, Zenon
  <1>5. /\ sleep(unlock(q), t) \in Queue /\ SameRing(unlock(q), sleep(unlock(q), t))
        /\ sleep(unlock(q), t).value = 0 /\ sleep(unlock(q), t).waiters = Rest(q.waiters)
        /\ sleep(unlock(q), t).not_empty = NULL /\ sleep(unlock(q), t).not_full = t
        /\ asleep(unlock(q)) = "wait"
    BY <1>1, <1>3, SleepFields, Zenon
  <1>6. /\ Numbered(sleep(unlock(q), t), out, n)
        /\ intq_full(sleep(unlock(q), t)) <=> intq_full(q)
    BY <1>4, <1>5, RingKept, Zenon
  <1>7. ASSUME Goes(Writer, t, at, at2, "out"),
               \A u \in Writer : u \in sl2 <=> u \in sl /\ u \notin First(q.waiters)
        PROVE  OutputOK(unlock(q), at2, sl2, out, n)
    <2>1. LockOK(Writer, at2, sl2, q.value + 1, Rest(q.waiters), q.not_full)
      BY <1>1, <1>7, LockRelease, Zenon
    <2>2. LockOK(Writer, at2, sl2, 1, Rest(q.waiters), NULL)
      BY <1>2, <2>1
    <2>3. QED
      BY <1>1, <1>2, <1>3, <1>4, <2>2, Zenon DEF OutputOK
  <1>8. ASSUME intq_full(q), Goes(Writer, t, at, at2, "wait"),
               \A u \in Writer : u \in sl2 <=> (u \in sl /\ u \notin First(q.waiters)) \/ u = t
        PROVE  OutputOK(sleep(unlock(q), t), at2, sl2, out, n)
    <2>1. LockOK(Writer, at2, sl2, 0, Rest(q.waiters), t)
      BY <1>1, <1>8, LockAgain, Zenon
    <2>2. QED
      BY <1>1, <1>5, <1>6, <1>8, <2>1, Zenon DEF OutputOK
  <1>9. QED
    BY <1>1, <1>3, <1>5, <1>7, <1>8, Zenon

\* A writer fails wait()'s ASSERT.
LEMMA OutputFail ==
    ASSUME NEW q, NEW at, NEW at2, NEW sl, NEW out, NEW n, OutputOK(q, at, sl, out, n),
           NEW t \in Writer, t \notin sl, at[t] # "wait", Goes(Writer, t, at, at2, "panic")
    PROVE  OutputOK(q, at2, sl, out, n)
  <1>1. LockOK(Writer, at2, sl, q.value, q.waiters, q.not_full)
    <2>1. NULL \notin Writer /\ LockOK(Writer, at, sl, q.value, q.waiters, q.not_full)
      BY SerialAssumption, Zenon DEF OutputOK
    <2>2. QED
      BY <2>1, LockLeave, Zenon
  <1>2. QED
    BY <1>1, Zenon DEF OutputOK

\* Before the port is set up a byte is sent at once.
LEMMA OutputPoll ==
    ASSUME NEW q, NEW at, NEW sl, NEW out, NEW n, OutputOK(q, at, sl, out, n), intq_empty(q)
    PROVE  OutputOK(q, at, sl, Append(out, n + 1), n + 1)
  <1>1. /\ q \in Queue /\ n \in Nat /\ out \in Seq(Nat) /\ Len(out) + Used(q) = n
        /\ \A i \in 1 .. Len(out) : out[i] = i
    BY Zenon DEF OutputOK, Numbered
  <1>2. Used(q) = 0
    BY <1>1, QueueTypes, Zenon
  <1>3. Len(out) = n
    BY <1>1, <1>2
  <1>4. /\ Append(out, n + 1) \in Seq(Nat) /\ Len(Append(out, n + 1)) + Used(q) = n + 1
        /\ \A i \in 1 .. n + 1 : Append(out, n + 1)[i] = i
    BY <1>1, <1>2, <1>3
  <1>5. Len(Append(out, n + 1)) = n + 1
    BY <1>1, <1>3
  <1>6. Numbered(q, Append(out, n + 1), n + 1)
    BY <1>2, <1>4, <1>5 DEF Numbered
  <1>7. QED
    BY <1>1, <1>6 DEF OutputOK

-----------------------------------------------------------------------------
(* The steps.                                                              *)

\* The invariant, by component.
LEMMA InvParts ==
    SerialInv <=>
        /\ InputOK(buffer, pc, blocked, read, received)
        /\ OutputOK(txq, pc, blocked, sent, written)
        /\ blocked \subseteq Thread
        /\ pc \in [Thread -> {"out", "lock", "wait", "panic"}]
        /\ mode \in {"POLL", "QUEUE"}
        /\ InterruptsOK /\ PollOK
  BY Zenon DEF SerialInv, SerialTypeOK, ReadersOK, WritersOK, InputOK, OutputOK

\* The same in the next state.
LEMMA InvPartsNext ==
    ASSUME InputOK(buffer', pc', blocked', read', received'),
           OutputOK(txq', pc', blocked', sent', written'),
           blocked' \subseteq Thread, mode' \in {"POLL", "QUEUE"},
           pc' \in [Thread -> {"out", "lock", "wait", "panic"}],
           InterruptsOK', PollOK'
    PROVE  SerialInv'
  BY Zenon DEF SerialInv, SerialTypeOK, ReadersOK, WritersOK, InputOK, OutputOK

\* write_ier() sets the register to what the queues call for.
LEMMA WriteIer ==
    ASSUME NEW rx, NEW tx, write_ier(rx, tx)
    PROVE  /\ "RECV" \in ier' <=> ~intq_full(rx)
           /\ ~intq_empty(tx) => "XMIT" \in ier'
  BY Zenon DEF write_ier

\* The port is set up: write_ier() sets the register for the first time.
LEMMA InitQueueStep ==
    SerialInv /\ serial_init_queue => SerialInv'
  <1> SUFFICES ASSUME SerialInv, serial_init_queue PROVE SerialInv'
    OBVIOUS
  <1>1. /\ buffer' = buffer /\ txq' = txq /\ pc' = pc /\ blocked' = blocked /\ read' = read
        /\ received' = received /\ sent' = sent /\ written' = written /\ mode' = "QUEUE"
        /\ write_ier(buffer, txq)
    BY Zenon DEF serial_init_queue
  <1>2. InterruptsOK'
    BY <1>1, WriteIer, Zenon DEF InterruptsOK
  <1>3. PollOK'
    BY <1>1, Zenon DEF PollOK
  <1>4. /\ InputOK(buffer', pc', blocked', read', received')
        /\ OutputOK(txq', pc', blocked', sent', written')
        /\ blocked' \subseteq Thread /\ mode' \in {"POLL", "QUEUE"}
        /\ pc' \in [Thread -> {"out", "lock", "wait", "panic"}]
    BY <1>1, InvParts, Zenon
  <1>5. QED
    BY <1>2, <1>3, <1>4, InvPartsNext, Zenon

\* The receive half of the interrupt, then the transmit half.
LEMMA InterruptStep ==
    SerialInv /\ serial_interrupt => SerialInv'
  <1> SUFFICES ASSUME SerialInv, serial_interrupt PROVE SerialInv'
    OBVIOUS
  <1>1. PICK recv \in BOOLEAN, xmit \in BOOLEAN :
          LET rcv == recv /\ ~intq_full(buffer)
              xmt == xmit /\ ~intq_empty(txq)
              rx == IF rcv THEN put(buffer, received + 1) ELSE buffer
              tx == IF xmt THEN take(txq) ELSE txq
          IN /\ buffer' = rx /\ txq' = tx
             /\ received' = IF rcv THEN received + 1 ELSE received
             /\ sent' = IF xmt THEN Append(sent, txq.buf[txq.tail]) ELSE sent
             /\ blocked' = (blocked \ signalled(buffer, rx)) \ signalled(txq, tx)
             /\ write_ier(rx, tx)
             /\ pc' = pc /\ mode' = mode /\ read' = read /\ written' = written
    BY Zenon DEF serial_interrupt
  <1> DEFINE rcv == recv /\ ~intq_full(buffer)
             xmt == xmit /\ ~intq_empty(txq)
             one == blocked \ signalled(buffer, buffer')
  <1>2. /\ InputOK(buffer, pc, blocked, read, received)
        /\ OutputOK(txq, pc, blocked, sent, written)
        /\ blocked \subseteq Thread /\ mode \in {"POLL", "QUEUE"}
        /\ pc \in [Thread -> {"out", "lock", "wait", "panic"}]
        /\ PollOK
    BY InvParts, Zenon
  <1>3. /\ buffer \in Queue /\ buffer.not_full = NULL /\ buffer.not_empty \in Reader \cup {NULL}
        /\ txq \in Queue /\ txq.not_empty = NULL /\ txq.not_full \in Writer \cup {NULL}
        /\ received \in Nat /\ received + 1 \in Nat /\ written \in Nat
    BY <1>2 DEF InputOK, OutputOK, Queue
  <1>4. signalled(buffer, buffer') \subseteq Reader
    <2>1. /\ signalled(buffer, put(buffer, received + 1)) = {buffer.not_empty} \ {NULL}
          /\ signalled(buffer, buffer) = {}
      BY <1>3, SignalledThreads, Zenon
    <2>2. buffer' = put(buffer, received + 1) \/ buffer' = buffer
      BY <1>1, Zenon
    <2>3. QED
      BY <1>3, <2>1, <2>2
  <1>5. signalled(txq, txq') \subseteq Writer
    <2>1. /\ signalled(txq, take(txq)) = {txq.not_full} \ {NULL}
          /\ signalled(txq, txq) = {}
      BY <1>3, SignalledThreads, Zenon
    <2>2. txq' = take(txq) \/ txq' = txq
      BY <1>1, Zenon
    <2>3. QED
      BY <1>3, <2>1, <2>2
  <1>6. blocked' = one \ signalled(txq, txq')
    BY <1>1, Zenon
  <1>7. \A u \in Reader : u \in blocked' <=> u \in blocked /\ u \notin signalled(buffer, buffer')
    BY <1>5, <1>6, SerialAssumption, Zenon
  <1>8. \A u \in Writer : u \in blocked' <=> u \in blocked /\ u \notin signalled(txq, txq')
    BY <1>4, <1>6, SerialAssumption, Zenon
  <1>9. InputOK(buffer', pc, blocked', read, received')
    <2>1. CASE rcv
      <3>1. buffer' = put(buffer, received + 1) /\ received' = received + 1 /\ ~intq_full(buffer)
        BY <1>1, <2>1, Zenon
      <3>2. QED
        BY <1>2, <1>7, <3>1, InputPut, Zenon
    <2>2. CASE ~rcv
      <3>1. buffer' = buffer /\ received' = received
        BY <1>1, <2>2, Zenon
      <3>2. signalled(buffer, buffer') = {}
        BY <1>3, <3>1, SignalledThreads, Zenon
      <3>3. \A u \in Reader : pc[u] = pc[u] /\ (u \in blocked' <=> u \in blocked)
        BY <1>7, <3>2, Zenon
      <3>4. QED
        BY <1>2, <3>1, <3>3, InputFrame, Zenon
    <2>3. QED
      BY <2>1, <2>2, Zenon
  <1>10. OutputOK(txq', pc, blocked', sent', written)
    <2>1. CASE xmt
      <3>1. txq' = take(txq) /\ sent' = Append(sent, txq.buf[txq.tail]) /\ ~intq_empty(txq)
        BY <1>1, <2>1, Zenon
      <3>2. QED
        BY <1>2, <1>8, <3>1, OutputTake, Zenon
    <2>2. CASE ~xmt
      <3>1. txq' = txq /\ sent' = sent
        BY <1>1, <2>2, Zenon
      <3>2. signalled(txq, txq') = {}
        BY <1>3, <3>1, SignalledThreads, Zenon
      <3>3. \A u \in Writer : pc[u] = pc[u] /\ (u \in blocked' <=> u \in blocked)
        BY <1>8, <3>2, Zenon
      <3>4. QED
        BY <1>2, <3>1, <3>3, OutputFrame, Zenon
    <2>3. QED
      BY <2>1, <2>2, Zenon
  <1>11. InterruptsOK'
    <2>1. write_ier(buffer', txq')
      BY <1>1, Zenon
    <2>2. QED
      BY <2>1, WriteIer, Zenon DEF InterruptsOK
  <1>12. PollOK'
    BY <1>1, <1>2, Zenon DEF PollOK
  <1>13. blocked' \subseteq Thread
    BY <1>2, <1>6, Zenon
  <1>14. QED
    BY <1>1, <1>2, <1>9, <1>10, <1>11, <1>12, <1>13, InvPartsNext, Zenon

\* A key arrives: a reader may be woken, writers are not concerned.
LEMMA KeyboardStep ==
    SerialInv /\ keyboard_interrupt => SerialInv'
  <1> SUFFICES ASSUME SerialInv, keyboard_interrupt PROVE SerialInv'
    OBVIOUS
  <1>1. /\ ~intq_full(buffer) /\ buffer' = put(buffer, received + 1)
        /\ received' = received + 1 /\ blocked' = blocked \ signalled(buffer, buffer')
        /\ serial_notify(buffer')
        /\ txq' = txq /\ pc' = pc /\ mode' = mode /\ read' = read /\ written' = written
        /\ sent' = sent
    BY Zenon DEF keyboard_interrupt
  <1>2. /\ InputOK(buffer, pc, blocked, read, received)
        /\ OutputOK(txq, pc, blocked, sent, written)
        /\ blocked \subseteq Thread /\ mode \in {"POLL", "QUEUE"}
        /\ pc \in [Thread -> {"out", "lock", "wait", "panic"}]
        /\ PollOK
    BY InvParts, Zenon
  <1>3. /\ buffer \in Queue /\ buffer.not_full = NULL /\ buffer.not_empty \in Reader \cup {NULL}
        /\ received + 1 \in Nat
    BY <1>2 DEF InputOK, Queue
  <1>4. signalled(buffer, buffer') \subseteq Reader
    BY <1>1, <1>3, SignalledThreads, Zenon
  <1>5. InputOK(buffer', pc, blocked', read, received')
    <2>1. \A u \in Reader : u \in blocked' <=> u \in blocked
                                             /\ u \notin signalled(buffer, put(buffer, received + 1))
      BY <1>1, Zenon
    <2>2. QED
      BY <1>1, <1>2, <2>1, InputPut, Zenon
  <1>6. OutputOK(txq, pc, blocked', sent, written)
    <2>1. \A u \in Writer : pc[u] = pc[u] /\ (u \in blocked' <=> u \in blocked)
      BY <1>1, <1>4, SerialAssumption, Zenon
    <2>2. QED
      BY <1>2, <2>1, OutputFrame, Zenon
  <1>7. InterruptsOK'
    <2>1. mode' = "QUEUE" => write_ier(buffer', txq')
      BY <1>1, Zenon DEF serial_notify
    <2>2. QED
      BY <2>1, WriteIer, Zenon DEF InterruptsOK
  <1>8. PollOK'
    BY <1>1, <1>2, Zenon DEF PollOK
  <1>9. blocked' \subseteq Thread
    BY <1>1, <1>2, Zenon
  <1>10. QED
    BY <1>1, <1>2, <1>5, <1>6, <1>7, <1>8, <1>9, InvPartsNext, Zenon

\* Room is made by polling if the queue is full.
LEMMA PutcIntrOffStep ==
    SerialInv /\ serial_putc_intr_off => SerialInv'
  <1> SUFFICES ASSUME SerialInv, serial_putc_intr_off PROVE SerialInv'
    OBVIOUS
  <1>1. /\ InputOK(buffer, pc, blocked, read, received)
        /\ OutputOK(txq, pc, blocked, sent, written)
        /\ blocked \subseteq Thread /\ mode \in {"POLL", "QUEUE"}
        /\ pc \in [Thread -> {"out", "lock", "wait", "panic"}]
        /\ InterruptsOK /\ PollOK
    BY InvParts, Zenon
  <1>2. /\ written' = written + 1 /\ buffer' = buffer /\ pc' = pc /\ mode' = mode
        /\ received' = received /\ read' = read
    BY Zenon DEF serial_putc_intr_off
  <1>3. /\ txq \in Queue /\ txq.not_empty = NULL /\ txq.not_full \in Writer \cup {NULL}
        /\ written \in Nat /\ written + 1 \in Nat
    BY <1>1 DEF OutputOK, Queue
  <1>4. CASE mode = "POLL"
    <2>1. sent' = Append(sent, written + 1) /\ txq' = txq /\ blocked' = blocked /\ ier' = ier
      BY <1>4, Zenon DEF serial_putc_intr_off
    <2>2. intq_empty(txq)
      BY <1>1, <1>4, Zenon DEF PollOK
    <2>3. OutputOK(txq, pc, blocked, Append(sent, written + 1), written + 1)
      BY <1>1, <2>2, OutputPoll, Zenon
    <2>4. InterruptsOK' /\ PollOK'
      BY <1>1, <1>2, <2>1, Zenon DEF InterruptsOK, PollOK
    <2>5. QED
      BY <1>1, <1>2, <2>1, <2>3, <2>4, InvPartsNext, Zenon
  <1>5. CASE mode = "QUEUE"
    <2> DEFINE q == IF intq_full(txq) THEN take(txq) ELSE txq
    <2>1. /\ txq' = put(q, written + 1)
          /\ sent' = (IF intq_full(txq) THEN Append(sent, txq.buf[txq.tail]) ELSE sent)
          /\ blocked' = blocked \ signalled(txq, q)
          /\ write_ier(buffer, txq')
      BY <1>5, Zenon DEF serial_putc_intr_off
    <2>2. signalled(txq, q) \subseteq Writer
      BY <1>3, SignalledThreads, Zenon
    <2>3. OutputOK(q, pc, blocked', sent', written) /\ ~intq_full(q)
      <3>1. CASE intq_full(txq)
        <4>1. q = take(txq) /\ sent' = Append(sent, txq.buf[txq.tail])
          BY <2>1, <3>1, Zenon
        <4>2. ~intq_empty(txq) /\ ~intq_full(take(txq))
          BY <1>3, <3>1, RoomAfterTake, Zenon
        <4>3. \A u \in Writer : u \in blocked' <=> u \in blocked
                                                 /\ u \notin signalled(txq, take(txq))
          BY <2>1, <4>1, Zenon
        <4>4. OutputOK(take(txq), pc, blocked', Append(sent, txq.buf[txq.tail]), written)
          BY <1>1, <4>2, <4>3, OutputTake, Zenon
        <4>5. QED
          BY <4>1, <4>2, <4>4, Zenon
      <3>2. CASE ~intq_full(txq)
        <4>1. q = txq /\ sent' = sent
          BY <2>1, <3>2, Zenon
        <4>2. signalled(txq, txq) = {}
          BY <1>3, SignalledThreads, Zenon
        <4>3. blocked' = blocked
          BY <2>1, <4>1, <4>2, Zenon
        <4>4. QED
          BY <1>1, <3>2, <4>1, <4>3, Zenon
      <3>3. QED
        BY <3>1, <3>2, Zenon
    <2> HIDE DEF q
    <2>4. OutputOK(put(q, written + 1), pc, blocked', sent', written + 1)
      BY <2>3, OutputPut, Zenon
    <2>5. InputOK(buffer, pc, blocked', read, received)
      <3>1. \A u \in Reader : pc[u] = pc[u] /\ (u \in blocked' <=> u \in blocked)
        BY <2>1, <2>2, SerialAssumption, Zenon
      <3>2. QED
        BY <1>1, <3>1, InputFrame, Zenon
    <2>6. InterruptsOK'
      BY <1>2, <2>1, WriteIer, Zenon DEF InterruptsOK
    <2>7. PollOK'
      BY <1>2, <1>5, Zenon DEF PollOK
    <2>8. blocked' \subseteq Thread
      BY <1>1, <2>1, Zenon
    <2>9. QED
      BY <1>1, <1>2, <2>1, <2>4, <2>5, <2>6, <2>7, <2>8, InvPartsNext, Zenon
  <1>6. QED
    BY <1>1, <1>4, <1>5, Zenon

\* serial_flush() leaves the transmit queue empty.
LEMMA FlushStep ==
    SerialInv /\ serial_flush => SerialInv'
  <1> SUFFICES ASSUME SerialInv, serial_flush PROVE SerialInv'
    OBVIOUS
  <1>1. /\ InputOK(buffer, pc, blocked, read, received)
        /\ OutputOK(txq, pc, blocked, sent, written)
        /\ blocked \subseteq Thread /\ mode \in {"POLL", "QUEUE"}
        /\ pc \in [Thread -> {"out", "lock", "wait", "panic"}]
        /\ InterruptsOK /\ PollOK
    BY InvParts, Zenon
  <1>2. /\ txq' = [txq EXCEPT !.tail = txq.head, !.not_full = NULL]
        /\ sent' = sent \o Contents(txq)
        /\ blocked' = blocked \ signalled(txq, txq')
        /\ buffer' = buffer /\ pc' = pc /\ ier' = ier /\ mode' = mode /\ received' = received
        /\ read' = read /\ written' = written
    BY Zenon DEF serial_flush, Contents
  <1>3. txq \in Queue /\ txq.not_empty = NULL /\ txq.not_full \in Writer \cup {NULL}
    BY <1>1, Zenon DEF OutputOK, Queue
  <1>4. signalled(txq, txq') \subseteq Writer
    BY <1>3, Zenon DEF signalled
  <1>5. OutputOK(txq', pc, blocked', sent', written) /\ intq_empty(txq')
    <2>1. \A u \in Writer : u \in blocked' <=> u \in blocked /\ u \notin signalled(txq, txq')
      BY <1>2, Zenon
    <2>2. /\ txq' \in Queue /\ txq'.head = txq.head /\ txq'.tail = txq.head /\ txq'.buf = txq.buf
          /\ txq'.value = txq.value /\ txq'.waiters = txq.waiters
          /\ txq'.not_full = NULL /\ txq'.not_empty = NULL
      BY <1>2, <1>3, Zenon DEF Queue
    <2>3. OutputOK(txq, pc, blocked, sent, written)
      BY <1>1, Zenon
    <2>4. OutputOK(txq', pc, blocked', sent \o Contents(txq), written) /\ intq_empty(txq')
      BY <2>1, <2>2, <2>3, OutputFlush, Zenon
    <2>5. QED
      BY <1>2, <2>4, Zenon
  <1>6. InputOK(buffer, pc, blocked', read, received)
    <2>1. \A u \in Reader : pc[u] = pc[u] /\ (u \in blocked' <=> u \in blocked)
      BY <1>2, <1>4, SerialAssumption, Zenon
    <2>2. QED
      BY <1>1, <2>1, InputFrame, Zenon
  <1>7. InterruptsOK' /\ PollOK'
    BY <1>1, <1>2, <1>5, Zenon DEF InterruptsOK, PollOK
  <1>8. blocked' \subseteq Thread
    BY <1>1, <1>2, Zenon
  <1>9. QED
    BY <1>1, <1>2, <1>5, <1>6, <1>7, <1>8, InvPartsNext, Zenon

\* A reader's steps, as far as the transmit queue and the types go: the reader
\* moves, and only readers fall asleep or are woken.
LEMMA ReaderElsewhere ==
    ASSUME SerialInv, NEW t \in Reader, NEW to \in {"out", "lock", "wait", "panic"},
           pc' = [pc EXCEPT ![t] = to], mode' = mode, txq' = txq, sent' = sent,
           written' = written,
           \A u : u \notin Reader => (u \in blocked' <=> u \in blocked)
    PROVE  /\ OutputOK(txq', pc', blocked', sent', written') /\ PollOK'
           /\ blocked' \subseteq Thread /\ mode' \in {"POLL", "QUEUE"}
           /\ pc' \in [Thread -> {"out", "lock", "wait", "panic"}]
           /\ Goes(Reader, t, pc, pc', to)
  <1>1. /\ OutputOK(txq, pc, blocked, sent, written)
        /\ blocked \subseteq Thread /\ mode \in {"POLL", "QUEUE"}
        /\ pc \in [Thread -> {"out", "lock", "wait", "panic"}]
        /\ PollOK
    BY InvParts, Zenon
  <1>2. t \in Thread /\ t \notin Writer
    BY SerialAssumption, Zenon DEF Thread
  <1>3. \A u \in Writer : pc'[u] = pc[u] /\ (u \in blocked' <=> u \in blocked)
    BY <1>1, <1>2, SerialAssumption, Zenon DEF Thread
  <1>4. OutputOK(txq, pc', blocked', sent, written)
    BY <1>1, <1>3, OutputFrame, Zenon
  <1>5. blocked' \subseteq Thread
    BY <1>1, Zenon DEF Thread
  <1>6. PollOK'
    BY <1>1, <1>3, Zenon DEF PollOK
  <1>7. Goes(Reader, t, pc, pc', to) /\ pc' \in [Thread -> {"out", "lock", "wait", "panic"}]
    BY <1>1, <1>2, Zenon DEF Goes, Thread
  <1>8. QED
    BY <1>1, <1>4, <1>5, <1>6, <1>7, Zenon

\* intq_getc() up to the point where it sleeps or returns.
LEMMA ReaderCallStep ==
    ASSUME SerialInv, NEW t \in Reader, reader_call(t)
    PROVE  SerialInv'
  <1>1. /\ InputOK(buffer, pc, blocked, read, received) /\ InterruptsOK
        /\ pc \in [Thread -> {"out", "lock", "wait", "panic"}]
    BY InvParts, Zenon
  <1>2. /\ t \notin blocked /\ pc[t] = "out" /\ input_getc(t, buffer, {})
        /\ txq' = txq /\ mode' = mode /\ received' = received /\ written' = written
        /\ sent' = sent
    BY Zenon DEF reader_call, Runs
  <1>3. CASE intq_empty(buffer)
    <2>1. /\ buffer' = sleep(buffer, t) /\ pc' = [pc EXCEPT ![t] = asleep(buffer)]
          /\ blocked' = blocked \cup {t} /\ ier' = ier /\ read' = read
      BY <1>2, <1>3, Zenon DEF input_getc
    <2>2. asleep(buffer) \in {"out", "lock", "wait", "panic"}
      BY Zenon DEF asleep
    <2>3. /\ OutputOK(txq', pc', blocked', sent', written') /\ PollOK'
          /\ blocked' \subseteq Thread /\ mode' \in {"POLL", "QUEUE"}
          /\ pc' \in [Thread -> {"out", "lock", "wait", "panic"}]
          /\ Goes(Reader, t, pc, pc', asleep(buffer))
      BY <1>2, <2>1, <2>2, ReaderElsewhere, Zenon
    <2>4. \A u \in Reader : u \in blocked' <=> u \in blocked \/ u = t
      BY <2>1, Zenon
    <2>5. InputOK(sleep(buffer, t), pc', blocked', read, received)
      BY <1>1, <1>2, <1>3, <2>3, <2>4, InputSleep, Zenon
    <2>6. intq_full(buffer') <=> intq_full(buffer)
      <3>1. buffer \in Queue /\ t \in Thread
        BY <1>1, Zenon DEF InputOK, Thread
      <3>2. QED
        BY <2>1, <3>1, SleepFields, RingKept, Zenon
    <2>7. InterruptsOK'
      BY <1>1, <1>2, <2>1, <2>6, Zenon DEF InterruptsOK
    <2>8. QED
      BY <1>2, <2>1, <2>3, <2>5, <2>7, InvPartsNext, Zenon
  <1>4. CASE ~intq_empty(buffer)
    <2>1. /\ buffer' = take(buffer) /\ read' = Append(read, buffer.buf[buffer.tail])
          /\ pc' = [pc EXCEPT ![t] = "out"]
          /\ blocked' = (blocked \ {}) \ signalled(buffer, take(buffer))
          /\ serial_notify(take(buffer))
      BY <1>2, <1>4, Zenon DEF input_getc
    <2>2. /\ InputOK(take(buffer), pc, blocked, Append(read, buffer.buf[buffer.tail]), received)
          /\ signalled(buffer, take(buffer)) = {}
      BY <1>1, <1>4, InputTake, Zenon
    <2>3. blocked' = blocked
      BY <2>1, <2>2, Zenon
    <2>4. /\ OutputOK(txq', pc', blocked', sent', written') /\ PollOK'
          /\ blocked' \subseteq Thread /\ mode' \in {"POLL", "QUEUE"}
          /\ pc' \in [Thread -> {"out", "lock", "wait", "panic"}]
      BY <1>2, <2>1, <2>3, ReaderElsewhere, Zenon
    <2>5. pc' = pc
      BY <1>1, <1>2, <2>1, Zenon DEF Thread
    <2>6. InterruptsOK'
      <3>1. mode' = "QUEUE" => write_ier(buffer', txq')
        BY <1>2, <2>1, Zenon DEF serial_notify
      <3>2. QED
        BY <3>1, WriteIer, Zenon DEF InterruptsOK
    <2>7. QED
      BY <1>2, <2>1, <2>2, <2>3, <2>4, <2>5, <2>6, InvPartsNext, Zenon
  <1>5. QED
    BY <1>3, <1>4, Zenon

\* A reader that lock_release() has woken gets the lock, sleeps again, or fails.
LEMMA ReaderLockStep ==
    ASSUME SerialInv, NEW t \in Reader, reader_lock(t)
    PROVE  SerialInv'
  <1>1. /\ InputOK(buffer, pc, blocked, read, received) /\ InterruptsOK
        /\ pc \in [Thread -> {"out", "lock", "wait", "panic"}]
    BY InvParts, Zenon
  <1>2. /\ t \notin blocked /\ pc[t] = "lock" /\ lock_acquire(t, buffer, intq_empty(buffer))
        /\ ier' = ier /\ mode' = mode /\ received' = received /\ read' = read
        /\ written' = written /\ sent' = sent
    BY Zenon DEF reader_lock, Runs
  <1>3. pc[t] # "wait"
    BY <1>2, Zenon
  <1>4. CASE /\ pc' = [pc EXCEPT ![t] = "panic"]
             /\ buffer' = buffer /\ txq' = txq /\ blocked' = blocked
    <2>1. /\ OutputOK(txq', pc', blocked', sent', written') /\ PollOK'
          /\ blocked' \subseteq Thread /\ mode' \in {"POLL", "QUEUE"}
          /\ pc' \in [Thread -> {"out", "lock", "wait", "panic"}]
          /\ Goes(Reader, t, pc, pc', "panic")
      BY <1>2, <1>4, ReaderElsewhere, Zenon
    <2>2. InputOK(buffer, pc', blocked, read, received)
      BY <1>1, <1>2, <1>3, <2>1, InputFail, Zenon
    <2>3. InterruptsOK'
      BY <1>1, <1>2, <1>4, Zenon DEF InterruptsOK
    <2>4. QED
      BY <1>2, <1>4, <2>1, <2>2, <2>3, InvPartsNext, Zenon
  <1>5. CASE /\ buffer.value = 0 \/ intq_empty(buffer)
             /\ pc' = [pc EXCEPT ![t] = asleep(buffer)]
             /\ blocked' = blocked \cup {t} /\ buffer' = sleep(buffer, t) /\ txq' = txq
    <2>1. asleep(buffer) \in {"out", "lock", "wait", "panic"}
      BY Zenon DEF asleep
    <2>2. /\ OutputOK(txq', pc', blocked', sent', written') /\ PollOK'
          /\ blocked' \subseteq Thread /\ mode' \in {"POLL", "QUEUE"}
          /\ pc' \in [Thread -> {"out", "lock", "wait", "panic"}]
          /\ Goes(Reader, t, pc, pc', asleep(buffer))
      BY <1>2, <1>5, <2>1, ReaderElsewhere, Zenon
    <2>3. \A u \in Reader : u \in blocked' <=> u \in blocked \/ u = t
      BY <1>5, Zenon
    <2>4. InputOK(sleep(buffer, t), pc', blocked', read, received)
      BY <1>1, <1>2, <1>3, <1>5, <2>2, <2>3, InputSleep, Zenon
    <2>5. intq_full(buffer') <=> intq_full(buffer)
      <3>1. buffer \in Queue /\ t \in Thread
        BY <1>1, Zenon DEF InputOK, Thread
      <3>2. QED
        BY <1>5, <3>1, SleepFields, RingKept, Zenon
    <2>6. InterruptsOK'
      BY <1>1, <1>2, <1>5, <2>5, Zenon DEF InterruptsOK
    <2>7. QED
      BY <1>2, <1>5, <2>2, <2>4, <2>6, InvPartsNext, Zenon
  <1>6. QED
    BY <1>2, <1>4, <1>5, Zenon DEF lock_acquire

\* A reader that signal() has woken goes on after wait().
LEMMA ReaderWokenStep ==
    ASSUME SerialInv, NEW t \in Reader, reader_woken(t)
    PROVE  SerialInv'
  <1> DEFINE q == unlock(buffer)
  <1>1. /\ InputOK(buffer, pc, blocked, read, received) /\ InterruptsOK
        /\ pc \in [Thread -> {"out", "lock", "wait", "panic"}]
    BY InvParts, Zenon
  <1>2. /\ t \notin blocked /\ pc[t] = "wait" /\ input_getc(t, q, unlocked(buffer))
        /\ txq' = txq /\ mode' = mode /\ received' = received /\ written' = written
        /\ sent' = sent
    BY Zenon DEF reader_woken, Runs
  <1>3. /\ q \in Queue /\ SameRing(buffer, q) /\ asleep(q) = "wait"
        /\ q.not_full = NULL
        /\ /\ Goes(Reader, t, pc, pc', "out")
           /\ \A u \in Reader : u \in blocked' <=> u \in blocked /\ u \notin unlocked(buffer)
           => InputOK(q, pc', blocked', read, received)
        /\ /\ intq_empty(buffer) /\ Goes(Reader, t, pc, pc', "wait")
           /\ \A u \in Reader : u \in blocked' <=>
                 (u \in blocked /\ u \notin unlocked(buffer)) \/ u = t
           => InputOK(sleep(q, t), pc', blocked', read, received)
    BY <1>1, <1>2, InputWoken, Zenon
  <1>4. unlocked(buffer) \subseteq Reader
    <2>1. buffer.waiters \in Seq(Reader)
      BY <1>1, Zenon DEF InputOK, LockOK
    <2>2. QED
      BY <2>1 DEF unlocked
  <1>5. (intq_empty(q) <=> intq_empty(buffer)) /\ (intq_full(q) <=> intq_full(buffer))
    BY <1>3, RingKept, Zenon
  <1> HIDE DEF q
  <1>6. CASE intq_empty(q)
    <2>1. /\ buffer' = sleep(q, t) /\ pc' = [pc EXCEPT ![t] = "wait"]
          /\ blocked' = (blocked \ unlocked(buffer)) \cup {t} /\ ier' = ier /\ read' = read
      BY <1>2, <1>3, <1>6, Zenon DEF input_getc
    <2>2. /\ OutputOK(txq', pc', blocked', sent', written') /\ PollOK'
          /\ blocked' \subseteq Thread /\ mode' \in {"POLL", "QUEUE"}
          /\ pc' \in [Thread -> {"out", "lock", "wait", "panic"}]
          /\ Goes(Reader, t, pc, pc', "wait")
      BY <1>2, <1>4, <2>1, ReaderElsewhere, Zenon
    <2>3. \A u \in Reader : u \in blocked' <=> (u \in blocked /\ u \notin unlocked(buffer)) \/ u = t
      BY <1>2, <2>1, Zenon
    <2>4. InputOK(sleep(q, t), pc', blocked', read, received)
      BY <1>3, <1>5, <1>6, <2>2, <2>3, Zenon
    <2>5. intq_full(buffer') <=> intq_full(q)
      <3>1. t \in Thread
        BY Zenon DEF Thread
      <3>2. QED
        BY <1>3, <2>1, <3>1, SleepFields, RingKept, Zenon
    <2>6. InterruptsOK'
      BY <1>1, <1>2, <1>5, <2>1, <2>5, Zenon DEF InterruptsOK
    <2>7. QED
      BY <1>2, <2>1, <2>2, <2>4, <2>6, InvPartsNext, Zenon
  <1>7. CASE ~intq_empty(q)
    <2>1. /\ buffer' = take(q) /\ read' = Append(read, q.buf[q.tail])
          /\ pc' = [pc EXCEPT ![t] = "out"]
          /\ blocked' = (blocked \ unlocked(buffer)) \ signalled(q, take(q))
          /\ serial_notify(take(q))
      BY <1>2, <1>7, Zenon DEF input_getc
    <2>2. signalled(q, take(q)) = {}
      <3>1. 0 \in Nat
        OBVIOUS
      <3>2. QED
        BY <1>3, <3>1, SignalledThreads, Zenon
    <2>3. blocked' = blocked \ unlocked(buffer)
      BY <2>1, <2>2, Zenon
    <2>4. /\ OutputOK(txq', pc', blocked', sent', written') /\ PollOK'
          /\ blocked' \subseteq Thread /\ mode' \in {"POLL", "QUEUE"}
          /\ pc' \in [Thread -> {"out", "lock", "wait", "panic"}]
          /\ Goes(Reader, t, pc, pc', "out")
      BY <1>2, <1>4, <2>1, <2>3, ReaderElsewhere, Zenon
    <2>5. \A u \in Reader : u \in blocked' <=> u \in blocked /\ u \notin unlocked(buffer)
      BY <2>3, Zenon
    <2>6. InputOK(q, pc', blocked', read, received)
      BY <1>3, <2>4, <2>5, Zenon
    <2>7. InputOK(take(q), pc', blocked', Append(read, q.buf[q.tail]), received)
      BY <1>7, <2>6, InputTake, Zenon
    <2>8. InterruptsOK'
      <3>1. mode' = "QUEUE" => write_ier(buffer', txq')
        BY <1>2, <2>1, Zenon DEF serial_notify
      <3>2. QED
        BY <3>1, WriteIer, Zenon DEF InterruptsOK
    <2>9. QED
      BY <1>2, <2>1, <2>4, <2>7, <2>8, InvPartsNext, Zenon
  <1>8. QED
    BY <1>6, <1>7, Zenon

\* The same of a writer's steps, all of which are after the port was set up.
LEMMA WriterElsewhere ==
    ASSUME SerialInv, NEW t \in Writer, NEW to \in {"out", "lock", "wait", "panic"},
           pc' = [pc EXCEPT ![t] = to], mode' = mode, mode = "QUEUE" \/ pc[t] # "out",
           buffer' = buffer, read' = read, received' = received,
           \A u : u \notin Writer => (u \in blocked' <=> u \in blocked)
    PROVE  /\ InputOK(buffer', pc', blocked', read', received') /\ PollOK'
           /\ blocked' \subseteq Thread /\ mode' \in {"POLL", "QUEUE"}
           /\ pc' \in [Thread -> {"out", "lock", "wait", "panic"}]
           /\ Goes(Writer, t, pc, pc', to)
  <1>1. /\ InputOK(buffer, pc, blocked, read, received)
        /\ blocked \subseteq Thread /\ mode \in {"POLL", "QUEUE"}
        /\ pc \in [Thread -> {"out", "lock", "wait", "panic"}]
        /\ PollOK
    BY InvParts, Zenon
  <1>2. t \in Thread /\ t \notin Reader
    BY SerialAssumption, Zenon DEF Thread
  <1>3. \A u \in Reader : pc'[u] = pc[u] /\ (u \in blocked' <=> u \in blocked)
    BY <1>1, <1>2, SerialAssumption, Zenon DEF Thread
  <1>4. InputOK(buffer, pc', blocked', read, received)
    BY <1>1, <1>3, InputFrame, Zenon
  <1>5. blocked' \subseteq Thread
    BY <1>1, Zenon DEF Thread
  <1>6. PollOK'
    BY <1>1, Zenon DEF PollOK
  <1>7. Goes(Writer, t, pc, pc', to) /\ pc' \in [Thread -> {"out", "lock", "wait", "panic"}]
    BY <1>1, <1>2, Zenon DEF Goes, Thread
  <1>8. QED
    BY <1>1, <1>4, <1>5, <1>6, <1>7, Zenon

\* intq_putc() up to the point where it sleeps or returns.
LEMMA WriterCallStep ==
    ASSUME SerialInv, NEW t \in Writer, writer_call(t)
    PROVE  SerialInv'
  <1>1. /\ OutputOK(txq, pc, blocked, sent, written) /\ InterruptsOK
        /\ pc \in [Thread -> {"out", "lock", "wait", "panic"}]
    BY InvParts, Zenon
  <1>2. /\ t \notin blocked /\ pc[t] = "out" /\ mode = "QUEUE" /\ serial_putc(t, txq, {})
        /\ buffer' = buffer /\ mode' = mode /\ received' = received /\ read' = read
        /\ sent' = sent
    BY Zenon DEF writer_call, Runs
  <1>3. CASE intq_full(txq)
    <2>1. /\ txq' = sleep(txq, t) /\ pc' = [pc EXCEPT ![t] = asleep(txq)]
          /\ blocked' = blocked \cup {t} /\ ier' = ier /\ written' = written
      BY <1>2, <1>3, Zenon DEF serial_putc
    <2>2. asleep(txq) \in {"out", "lock", "wait", "panic"}
      BY Zenon DEF asleep
    <2>3. /\ InputOK(buffer', pc', blocked', read', received') /\ PollOK'
          /\ blocked' \subseteq Thread /\ mode' \in {"POLL", "QUEUE"}
          /\ pc' \in [Thread -> {"out", "lock", "wait", "panic"}]
          /\ Goes(Writer, t, pc, pc', asleep(txq))
      BY <1>2, <2>1, <2>2, WriterElsewhere, Zenon
    <2>4. \A u \in Writer : u \in blocked' <=> u \in blocked \/ u = t
      BY <2>1, Zenon
    <2>5. OutputOK(sleep(txq, t), pc', blocked', sent, written)
      BY <1>1, <1>2, <1>3, <2>3, <2>4, OutputSleep, Zenon
    <2>6. intq_empty(txq') <=> intq_empty(txq)
      <3>1. txq \in Queue /\ t \in Thread
        BY <1>1, Zenon DEF OutputOK, Thread
      <3>2. QED
        BY <2>1, <3>1, SleepFields, RingKept, Zenon
    <2>7. InterruptsOK'
      BY <1>1, <1>2, <2>1, <2>6, Zenon DEF InterruptsOK
    <2>8. QED
      BY <1>2, <2>1, <2>3, <2>5, <2>7, InvPartsNext, Zenon
  <1>4. CASE ~intq_full(txq)
    <2>1. /\ txq' = put(txq, written + 1) /\ written' = written + 1
          /\ pc' = [pc EXCEPT ![t] = "out"]
          /\ blocked' = (blocked \ {}) \ signalled(txq, put(txq, written + 1))
          /\ write_ier(buffer, txq') /\ read' = read
      BY <1>2, <1>4, Zenon DEF serial_putc
    <2>2. /\ OutputOK(put(txq, written + 1), pc, blocked, sent, written + 1)
          /\ signalled(txq, put(txq, written + 1)) = {}
      BY <1>1, <1>4, OutputPut, Zenon
    <2>3. blocked' = blocked
      BY <2>1, <2>2, Zenon
    <2>4. /\ InputOK(buffer', pc', blocked', read', received') /\ PollOK'
          /\ blocked' \subseteq Thread /\ mode' \in {"POLL", "QUEUE"}
          /\ pc' \in [Thread -> {"out", "lock", "wait", "panic"}]
      BY <1>2, <2>1, <2>3, WriterElsewhere, Zenon
    <2>5. pc' = pc
      BY <1>1, <1>2, <2>1, Zenon DEF Thread
    <2>6. InterruptsOK'
      BY <1>2, <2>1, WriteIer, Zenon DEF InterruptsOK
    <2>7. QED
      BY <1>2, <2>1, <2>2, <2>3, <2>4, <2>5, <2>6, InvPartsNext, Zenon
  <1>5. QED
    BY <1>3, <1>4, Zenon

\* A writer that lock_release() has woken gets the lock, sleeps again, or fails.
LEMMA WriterLockStep ==
    ASSUME SerialInv, NEW t \in Writer, writer_lock(t)
    PROVE  SerialInv'
  <1>1. /\ OutputOK(txq, pc, blocked, sent, written) /\ InterruptsOK
        /\ pc \in [Thread -> {"out", "lock", "wait", "panic"}]
    BY InvParts, Zenon
  <1>2. /\ t \notin blocked /\ pc[t] = "lock" /\ lock_acquire(t, txq, intq_full(txq))
        /\ ier' = ier /\ mode' = mode /\ received' = received /\ read' = read
        /\ written' = written /\ sent' = sent
    BY Zenon DEF writer_lock, Runs
  <1>3. pc[t] # "wait" /\ pc[t] # "out"
    BY <1>2, Zenon
  <1>4. CASE /\ pc' = [pc EXCEPT ![t] = "panic"]
             /\ txq' = txq /\ buffer' = buffer /\ blocked' = blocked
    <2>1. /\ InputOK(buffer', pc', blocked', read', received') /\ PollOK'
          /\ blocked' \subseteq Thread /\ mode' \in {"POLL", "QUEUE"}
          /\ pc' \in [Thread -> {"out", "lock", "wait", "panic"}]
          /\ Goes(Writer, t, pc, pc', "panic")
      BY <1>2, <1>3, <1>4, WriterElsewhere, Zenon
    <2>2. OutputOK(txq, pc', blocked, sent, written)
      BY <1>1, <1>2, <1>3, <2>1, OutputFail, Zenon
    <2>3. InterruptsOK'
      BY <1>1, <1>2, <1>4, Zenon DEF InterruptsOK
    <2>4. QED
      BY <1>2, <1>4, <2>1, <2>2, <2>3, InvPartsNext, Zenon
  <1>5. CASE /\ txq.value = 0 \/ intq_full(txq)
             /\ pc' = [pc EXCEPT ![t] = asleep(txq)]
             /\ blocked' = blocked \cup {t} /\ txq' = sleep(txq, t) /\ buffer' = buffer
    <2>1. asleep(txq) \in {"out", "lock", "wait", "panic"}
      BY Zenon DEF asleep
    <2>2. /\ InputOK(buffer', pc', blocked', read', received') /\ PollOK'
          /\ blocked' \subseteq Thread /\ mode' \in {"POLL", "QUEUE"}
          /\ pc' \in [Thread -> {"out", "lock", "wait", "panic"}]
          /\ Goes(Writer, t, pc, pc', asleep(txq))
      BY <1>2, <1>3, <1>5, <2>1, WriterElsewhere, Zenon
    <2>3. \A u \in Writer : u \in blocked' <=> u \in blocked \/ u = t
      BY <1>5, Zenon
    <2>4. OutputOK(sleep(txq, t), pc', blocked', sent, written)
      BY <1>1, <1>2, <1>3, <1>5, <2>2, <2>3, OutputSleep, Zenon
    <2>5. intq_empty(txq') <=> intq_empty(txq)
      <3>1. txq \in Queue /\ t \in Thread
        BY <1>1, Zenon DEF OutputOK, Thread
      <3>2. QED
        BY <1>5, <3>1, SleepFields, RingKept, Zenon
    <2>6. InterruptsOK'
      BY <1>1, <1>2, <1>5, <2>5, Zenon DEF InterruptsOK
    <2>7. QED
      BY <1>2, <1>5, <2>2, <2>4, <2>6, InvPartsNext, Zenon
  <1>6. QED
    BY <1>2, <1>4, <1>5, SerialAssumption, Zenon DEF lock_acquire

\* A writer that signal() has woken goes on after wait().
LEMMA WriterWokenStep ==
    ASSUME SerialInv, NEW t \in Writer, writer_woken(t)
    PROVE  SerialInv'
  <1> DEFINE q == unlock(txq)
  <1>1. /\ OutputOK(txq, pc, blocked, sent, written) /\ InterruptsOK
        /\ pc \in [Thread -> {"out", "lock", "wait", "panic"}]
    BY InvParts, Zenon
  <1>2. /\ t \notin blocked /\ pc[t] = "wait" /\ serial_putc(t, q, unlocked(txq))
        /\ buffer' = buffer /\ mode' = mode /\ received' = received /\ read' = read
        /\ sent' = sent
    BY Zenon DEF writer_woken, Runs
  <1>3. /\ q \in Queue /\ SameRing(txq, q) /\ asleep(q) = "wait"
        /\ q.not_empty = NULL
        /\ /\ Goes(Writer, t, pc, pc', "out")
           /\ \A u \in Writer : u \in blocked' <=> u \in blocked /\ u \notin unlocked(txq)
           => OutputOK(q, pc', blocked', sent, written)
        /\ /\ intq_full(txq) /\ Goes(Writer, t, pc, pc', "wait")
           /\ \A u \in Writer : u \in blocked' <=>
                 (u \in blocked /\ u \notin unlocked(txq)) \/ u = t
           => OutputOK(sleep(q, t), pc', blocked', sent, written)
    BY <1>1, <1>2, OutputWoken, Zenon
  <1>4. unlocked(txq) \subseteq Writer
    <2>1. txq.waiters \in Seq(Writer)
      BY <1>1, Zenon DEF OutputOK, LockOK
    <2>2. QED
      BY <2>1 DEF unlocked
  <1>5. (intq_full(q) <=> intq_full(txq)) /\ (intq_empty(q) <=> intq_empty(txq))
    BY <1>3, RingKept, Zenon
  <1> HIDE DEF q
  <1>6. CASE intq_full(q)
    <2>1. /\ txq' = sleep(q, t) /\ pc' = [pc EXCEPT ![t] = "wait"]
          /\ blocked' = (blocked \ unlocked(txq)) \cup {t} /\ ier' = ier /\ written' = written
      BY <1>2, <1>3, <1>6, Zenon DEF serial_putc
    <2>2. /\ InputOK(buffer', pc', blocked', read', received') /\ PollOK'
          /\ blocked' \subseteq Thread /\ mode' \in {"POLL", "QUEUE"}
          /\ pc' \in [Thread -> {"out", "lock", "wait", "panic"}]
          /\ Goes(Writer, t, pc, pc', "wait")
      BY <1>2, <1>4, <2>1, WriterElsewhere, Zenon
    <2>3. \A u \in Writer : u \in blocked' <=> (u \in blocked /\ u \notin unlocked(txq)) \/ u = t
      BY <1>2, <2>1, Zenon
    <2>4. OutputOK(sleep(q, t), pc', blocked', sent, written)
      BY <1>3, <1>5, <1>6, <2>2, <2>3, Zenon
    <2>5. intq_empty(txq') <=> intq_empty(q)
      <3>1. t \in Thread
        BY Zenon DEF Thread
      <3>2. QED
        BY <1>3, <2>1, <3>1, SleepFields, RingKept, Zenon
    <2>6. InterruptsOK'
      BY <1>1, <1>2, <1>5, <2>1, <2>5, Zenon DEF InterruptsOK
    <2>7. QED
      BY <1>2, <2>1, <2>2, <2>4, <2>6, InvPartsNext, Zenon
  <1>7. CASE ~intq_full(q)
    <2>1. /\ txq' = put(q, written + 1) /\ written' = written + 1
          /\ pc' = [pc EXCEPT ![t] = "out"]
          /\ blocked' = (blocked \ unlocked(txq)) \ signalled(q, put(q, written + 1))
          /\ write_ier(buffer, txq')
      BY <1>2, <1>7, Zenon DEF serial_putc
    <2>2. signalled(q, put(q, written + 1)) = {}
      <3>1. written + 1 \in Nat
        BY <1>1 DEF OutputOK
      <3>2. QED
        BY <1>3, <3>1, SignalledThreads, Zenon
    <2>3. blocked' = blocked \ unlocked(txq)
      BY <2>1, <2>2, Zenon
    <2>4. /\ InputOK(buffer', pc', blocked', read', received') /\ PollOK'
          /\ blocked' \subseteq Thread /\ mode' \in {"POLL", "QUEUE"}
          /\ pc' \in [Thread -> {"out", "lock", "wait", "panic"}]
          /\ Goes(Writer, t, pc, pc', "out")
      BY <1>2, <1>4, <2>1, <2>3, WriterElsewhere, Zenon
    <2>5. \A u \in Writer : u \in blocked' <=> u \in blocked /\ u \notin unlocked(txq)
      BY <2>3, Zenon
    <2>6. OutputOK(q, pc', blocked', sent, written)
      BY <1>3, <2>4, <2>5, Zenon
    <2>7. OutputOK(put(q, written + 1), pc', blocked', sent, written + 1)
      BY <1>7, <2>6, OutputPut, Zenon
    <2>8. InterruptsOK'
      BY <1>2, <2>1, WriteIer, Zenon DEF InterruptsOK
    <2>9. QED
      BY <1>2, <2>1, <2>4, <2>7, <2>8, InvPartsNext, Zenon
  <1>8. QED
    BY <1>6, <1>7, Zenon

-----------------------------------------------------------------------------
(* The theorems.                                                           *)

\* At boot both queues are empty, nobody sleeps and the port polls.
LEMMA SerialInitInv == SerialInit => SerialInv
  <1> SUFFICES ASSUME SerialInit PROVE SerialInv
    OBVIOUS
  <1>1. /\ buffer = intq_init /\ txq = intq_init /\ blocked = {}
        /\ pc = [t \in Thread |-> "out"] /\ mode = "POLL"
        /\ received = 0 /\ read = <<>> /\ written = 0 /\ sent = <<>>
    BY Zenon DEF SerialInit
  <1> DEFINE q == intq_init
  <1>2. 0 \in Pos
    BY SerialAssumption DEF Pos
  <1>3. /\ q.head = 0 /\ q.tail = 0 /\ q.not_full = NULL /\ q.not_empty = NULL /\ q.value = 1
        /\ q.waiters = <<>>
    BY Zenon DEF intq_init
  <1>4. q \in Queue
    BY <1>2 DEF intq_init, Queue
  <1> HIDE DEF q
  <1>5. intq_empty(q)
    BY <1>3, Zenon DEF intq_empty
  <1>6. Used(q) = 0
    BY <1>4, <1>5, QueueTypes, Zenon
  <1>7. Numbered(q, <<>>, 0)
    BY <1>6 DEF Numbered
  <1>8. ASSUME NEW T \in {Reader, Writer}
        PROVE  LockOK(T, pc, {}, 1, <<>>, NULL)
    <2>1. /\ <<>> \in Seq(T) /\ \A u : u \notin Range(<<>>)
          /\ IsInjective(<<>>)
      BY DEF Range, IsInjective
    <2>2. \A u \in T : pc[u] # "wait" /\ u # NULL
      BY <1>1, SerialAssumption DEF Thread
    <2>3. QED
      BY <2>1, <2>2 DEF LockOK
  <1>9. LockOK(Reader, pc, {}, 1, <<>>, NULL) /\ LockOK(Writer, pc, {}, 1, <<>>, NULL)
    BY <1>8, Zenon
  <1>10. /\ InputOK(q, pc, {}, <<>>, 0)
         /\ OutputOK(q, pc, {}, <<>>, 0)
    BY <1>3, <1>4, <1>7, <1>9, Zenon DEF InputOK, OutputOK
  <1>11. InterruptsOK /\ PollOK
    BY <1>1, <1>5, Zenon DEF InterruptsOK, PollOK, q, Thread
  <1>12. QED
    BY <1>1, <1>10, <1>11, InvParts, Zenon DEF q

\* Every step keeps the invariant.
LEMMA SerialNextInv == SerialInv /\ [SerialNext]_vars => SerialInv'
  <1> SUFFICES ASSUME SerialInv, [SerialNext]_vars PROVE SerialInv'
    OBVIOUS
  <1>1. CASE serial_init_queue
    BY <1>1, InitQueueStep, Zenon
  <1>2. CASE serial_interrupt
    BY <1>2, InterruptStep, Zenon
  <1>3. CASE keyboard_interrupt
    BY <1>3, KeyboardStep, Zenon
  <1>4. CASE serial_putc_intr_off
    BY <1>4, PutcIntrOffStep, Zenon
  <1>5. CASE serial_flush
    BY <1>5, FlushStep, Zenon
  <1>6. ASSUME NEW t \in Reader, reader_call(t) \/ reader_lock(t) \/ reader_woken(t)
        PROVE  SerialInv'
    BY <1>6, ReaderCallStep, ReaderLockStep, ReaderWokenStep, Zenon
  <1>7. ASSUME NEW t \in Writer, writer_call(t) \/ writer_lock(t) \/ writer_woken(t)
        PROVE  SerialInv'
    BY <1>7, WriterCallStep, WriterLockStep, WriterWokenStep, Zenon
  <1>8. CASE UNCHANGED vars
    <2>1. /\ buffer' = buffer /\ txq' = txq /\ blocked' = blocked /\ pc' = pc /\ ier' = ier
          /\ mode' = mode /\ received' = received /\ read' = read /\ written' = written
          /\ sent' = sent
      BY <1>8, Zenon DEF vars
    <2>2. InterruptsOK' /\ PollOK'
      BY <2>1, InvParts, Zenon DEF InterruptsOK, PollOK
    <2>3. QED
      BY <2>1, <2>2, InvParts, InvPartsNext, Zenon
  <1>9. QED
    BY <1>1, <1>2, <1>3, <1>4, <1>5, <1>6, <1>7, <1>8, Zenon DEF SerialNext, Device, Resume

\* The state of the two queues, their locks and their threads, for any number of
\* readers and writers and any size of the ring.
THEOREM SerialInvariant == SerialSpec => []SerialInv
  BY SerialInitInv, SerialNextInv, PTL DEF SerialSpec

\* A sequence of the bytes sent and those in the ring.
LEMMA NumberedInOrder ==
    ASSUME NEW q \in Queue, NEW out, NEW n \in Nat, Numbered(q, out, n)
    PROVE  out \o Contents(q) = [i \in 1 .. n |-> i]
  <1> DEFINE r == [q EXCEPT !.tail = q.head]
             all == out \o Contents(q)
  <1>1. r \in Queue /\ r.head = q.head /\ r.tail = q.head /\ r.buf = q.buf
    BY Zenon DEF Queue
  <1> HIDE DEF r
  <1>2. Numbered(r, all, n)
    BY <1>1, FlushNumbered, Zenon
  <1> HIDE DEF all
  <1>3. Used(r) = 0
    <2>1. intq_empty(r)
      BY <1>1, Zenon DEF intq_empty
    <2>2. QED
      BY <1>1, <2>1, QueueTypes, Zenon
  <1>4. all \in Seq(Nat) /\ Len(all) = n /\ \A i \in 1 .. n : all[i] = i
    BY <1>2, <1>3 DEF Numbered
  <1>5. all \in [1 .. n -> Nat]
    BY <1>4
  <1>6. all = [i \in 1 .. n |-> i]
    BY <1>4, <1>5, Zenon
  <1>7. QED
    BY <1>6, Zenon DEF all

\* Bytes reach the readers, and the UART, once each and in the order in which
\* they were received, or written.
THEOREM SerialBytesInOrder == SerialSpec => []BytesInOrder
  <1>1. SerialInv => BytesInOrder
    <2> SUFFICES ASSUME SerialInv PROVE BytesInOrder
      OBVIOUS
    <2>1. /\ buffer \in Queue /\ received \in Nat /\ Numbered(buffer, read, received)
          /\ txq \in Queue /\ written \in Nat /\ Numbered(txq, sent, written)
      BY Zenon DEF SerialInv, SerialTypeOK
    <2>2. QED
      BY <2>1, NumberedInOrder, Zenon DEF BytesInOrder
  <1>2. QED
    BY <1>1, SerialInvariant, PTL

\* A blocked thread is the waiter of its queue, with good reason and with the
\* lock, or is on the list of the lock; and the UART may interrupt when it should.
THEOREM SerialSleepersKnown == SerialSpec => []SleepersKnown
  <1>1. SerialInv => SleepersKnown
    <2> SUFFICES ASSUME SerialInv PROVE SleepersKnown
      OBVIOUS
    <2>1. /\ LockOK(Reader, pc, blocked, buffer.value, buffer.waiters, buffer.not_empty)
          /\ buffer.not_empty # NULL => intq_empty(buffer)
          /\ LockOK(Writer, pc, blocked, txq.value, txq.waiters, txq.not_full)
          /\ txq.not_full # NULL => intq_full(txq)
          /\ InterruptsOK
      BY Zenon DEF SerialInv, ReadersOK, WritersOK
    <2>2. /\ Range(buffer.waiters) \subseteq Reader /\ buffer.not_empty \in Reader \cup {NULL}
          /\ \A t \in Reader : t \in blocked <=> t = buffer.not_empty \/ t \in Range(buffer.waiters)
          /\ \A t \in Reader : buffer.not_empty = t => buffer.value = 0
      BY <2>1, SerialAssumption DEF LockOK, Range
    <2>3. /\ Range(txq.waiters) \subseteq Writer /\ txq.not_full \in Writer \cup {NULL}
          /\ \A t \in Writer : t \in blocked <=> t = txq.not_full \/ t \in Range(txq.waiters)
          /\ \A t \in Writer : txq.not_full = t => txq.value = 0
      BY <2>1, SerialAssumption DEF LockOK, Range
    <2>4. \A t \in Thread :
            t \in blocked <=> \/ t \in {buffer.not_empty, txq.not_full}
                              \/ t \in Range(buffer.waiters) \cup Range(txq.waiters)
      BY <2>2, <2>3, SerialAssumption, Zenon DEF Thread
    <2>5. \A t \in Thread :
            /\ buffer.not_empty = t => intq_empty(buffer) /\ buffer.value = 0
            /\ txq.not_full = t => intq_full(txq) /\ txq.value = 0
      BY <2>1, <2>2, <2>3, SerialAssumption, Zenon DEF Thread
    <2>6. QED
      BY <2>1, <2>4, <2>5, Zenon DEF SleepersKnown, InterruptsOK
  <1>2. QED
    BY <1>1, SerialInvariant, PTL

=============================================================================
