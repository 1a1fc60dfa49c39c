-------------------------------- MODULE Disk --------------------------------
(***************************************************************************)
(* One ATA channel with its disks (devices/disk.c): threads that read and  *)
(* write sectors in PIO mode, the interrupt handler, and the controller as *)
(* the driver sees it through its registers.                               *)
(*                                                                         *)
(* The channel's lock is the lock of module Synch seen as an atomic mutual *)
(* exclusion.  Loops that poll a status bit, sleeping in between, are      *)
(* guards; a thread may be preempted between any two accesses.             *)
(***************************************************************************)
EXTENDS Naturals

CONSTANTS
    DiskThread, None,  \* None: no holder, or a buffer without data
    Sector,   \* pairs of a disk of the channel and a sector number on it
    Data,     \* contents of a sector
    Faults,   \* whether a command may fail
    MaxOps    \* bound on the number of calls

ASSUME DiskAssumption == None \notin DiskThread /\ Faults \in BOOLEAN /\ MaxOps \in Nat

VARIABLES
    dpc,                  \* where each thread is in disk_read() or disk_write()
    sec_no,               \* its sector
    dbuffer,              \* its buffer
    holder,               \* holder of the channel's lock
    expecting_interrupt,  \* member of struct channel
    completion_wait,      \* value of the semaphore of struct channel
    ops,                  \* calls so far
    device,               \* sector in the controller's selection registers
    command,              \* command that the controller executes
    busy, drq,            \* BSY and DRQ bits of the status register
    irq,                  \* an interrupt is pending
    latch,                \* data received by the controller
    media                 \* contents of the disks

host == <<dpc, sec_no, dbuffer, holder, expecting_interrupt, completion_wait, ops>>
ctrl == <<device, command, busy, drq, irq, latch, media>>
diskVars == <<host, ctrl>>

\* disk_init() has identified the disks; nothing is in progress.
DiskInit ==
    /\ dpc = [t \in DiskThread |-> "out"]
    /\ sec_no \in {[t \in DiskThread |-> s] : s \in Sector}
    /\ dbuffer = [t \in DiskThread |-> None]
    /\ holder = None
    /\ expecting_interrupt = FALSE
    /\ completion_wait = 0
    /\ ops = 0
    /\ device \in Sector
    /\ command = "none"
    /\ busy = FALSE /\ drq = FALSE /\ irq = FALSE
    /\ latch \in Data
    /\ media \in [Sector -> Data]

-----------------------------------------------------------------------------
(* The controller, as the driver relies on it.                             *)

\* It has fetched a sector, or is ready to receive one, or has stored one.  A
\* command that fails leaves DRQ clear.
device_ready ==
    /\ busy
    /\ busy' = FALSE
    /\ \/ /\ command = "read"
          /\ drq' \in (IF Faults THEN BOOLEAN ELSE {TRUE})
          /\ irq' = TRUE
       \/ /\ command = "write"
          /\ drq' \in (IF Faults THEN BOOLEAN ELSE {TRUE})
          /\ UNCHANGED irq
    /\ UNCHANGED <<device, command, latch, media, host>>

\* interrupt_handler(): the channel's interrupt was raised.
interrupt_handler ==
    /\ irq
    /\ irq' = FALSE
    /\ completion_wait' = IF expecting_interrupt THEN completion_wait + 1 ELSE completion_wait
    /\ UNCHANGED <<dpc, sec_no, dbuffer, holder, expecting_interrupt, ops>>
    /\ UNCHANGED <<device, command, busy, drq, latch, media>>

-----------------------------------------------------------------------------
(* disk_read() and disk_write().                                           *)

Goto(t, from, to) == dpc[t] = from /\ dpc' = [dpc EXCEPT ![t] = to]

disk_read(t, s) ==
    /\ ops < MaxOps
    /\ ops' = ops + 1
    /\ Goto(t, "out", "r_lock")
    /\ sec_no' = [sec_no EXCEPT ![t] = s]
    /\ dbuffer' = [dbuffer EXCEPT ![t] = None]
    /\ UNCHANGED <<holder, expecting_interrupt, completion_wait, ctrl>>

disk_write(t, s, d) ==
    /\ ops < MaxOps
    /\ ops' = ops + 1
    /\ Goto(t, "out", "w_lock")
    /\ sec_no' = [sec_no EXCEPT ![t] = s]
    /\ dbuffer' = [dbuffer EXCEPT ![t] = d]
    /\ UNCHANGED <<holder, expecting_interrupt, completion_wait, ctrl>>

\* lock_acquire (&c->lock);
acquire(t) ==
    /\ holder = None
    /\ holder' = t
    /\ Goto(t, "r_lock", "r_select") \/ Goto(t, "w_lock", "w_select")
    /\ UNCHANGED <<sec_no, dbuffer, expecting_interrupt, completion_wait, ops, ctrl>>

\* select_sector(): wait_until_idle() reads the status register, which clears
\* a pending interrupt.
select_sector(t) ==
    /\ Goto(t, "r_select", "r_expect") \/ Goto(t, "w_select", "w_expect")
    /\ ~busy /\ ~drq
    /\ irq' = FALSE
    /\ device' = sec_no[t]
    /\ UNCHANGED <<sec_no, dbuffer, holder, expecting_interrupt, completion_wait, ops>>
    /\ UNCHANGED <<command, busy, drq, latch, media>>

\* Mutant: the flag is not set.
issue_pio_command_expect_Never(t) ==
    /\ Goto(t, "r_expect", "r_command") \/ Goto(t, "w_expect", "w_command")
    /\ UNCHANGED <<sec_no, dbuffer, holder, expecting_interrupt, completion_wait, ops, ctrl>>

\* issue_pio_command(): first the flag, then the command register.
issue_pio_command_expect(t) ==
    /\ Goto(t, "r_expect", "r_command") \/ Goto(t, "w_expect", "w_command")
    /\ expecting_interrupt' = TRUE
    /\ UNCHANGED <<sec_no, dbuffer, holder, completion_wait, ops, ctrl>>

\* Mutant: a read only polls, and leaves its completion to the next command.
issue_pio_command_PollRead(t) ==
    /\ \/ Goto(t, "r_command", "r_busy") /\ command' = "read"
       \/ Goto(t, "w_command", "w_busy") /\ command' = "write"
    /\ busy' = TRUE
    /\ UNCHANGED <<sec_no, dbuffer, holder, expecting_interrupt, completion_wait, ops>>
    /\ UNCHANGED <<device, drq, irq, latch, media>>

issue_pio_command(t) ==
    /\ \/ Goto(t, "r_command", "r_down") /\ command' = "read"
       \/ Goto(t, "w_command", "w_busy") /\ command' = "write"
    /\ busy' = TRUE
    /\ UNCHANGED <<sec_no, dbuffer, holder, expecting_interrupt, completion_wait, ops>>
    /\ UNCHANGED <<device, drq, irq, latch, media>>

\* sema_down (&c->completion_wait);
sema_down(t) ==
    /\ completion_wait > 0
    /\ completion_wait' = completion_wait - 1
    /\ Goto(t, "r_down", "r_busy") \/ Goto(t, "w_down", "w_done")
    /\ UNCHANGED <<sec_no, dbuffer, holder, expecting_interrupt, ops, ctrl>>

\* wait_while_busy(), and the PANIC if DRQ is clear after it.
wait_while_busy(t) ==
    /\ ~busy
    /\ \/ drq /\ (Goto(t, "r_busy", "r_input") \/ Goto(t, "w_busy", "w_output"))
       \/ ~drq /\ (Goto(t, "r_busy", "panic") \/ Goto(t, "w_busy", "panic"))
    /\ UNCHANGED <<sec_no, dbuffer, holder, expecting_interrupt, completion_wait, ops, ctrl>>

input_sector(t) ==
    /\ Goto(t, "r_input", "r_done")
    /\ dbuffer' = [dbuffer EXCEPT ![t] = media[device]]
    /\ drq' = FALSE
    /\ command' = "none"
    /\ UNCHANGED <<sec_no, holder, expecting_interrupt, completion_wait, ops>>
    /\ UNCHANGED <<device, busy, irq, latch, media>>

\* Mutant: the write does not wait for its completion interrupt.
output_sector_NoDown(t) ==
    /\ Goto(t, "w_output", "w_done")
    /\ drq' = FALSE
    /\ busy' = TRUE
    /\ command' = "store"
    /\ latch' = dbuffer[t]
    /\ UNCHANGED <<sec_no, dbuffer, holder, expecting_interrupt, completion_wait, ops>>
    /\ UNCHANGED <<device, irq, media>>

output_sector(t) ==
    /\ Goto(t, "w_output", "w_down")
    /\ drq' = FALSE
    /\ busy' = TRUE
    /\ command' = "store"
    /\ latch' = dbuffer[t]
    /\ UNCHANGED <<sec_no, dbuffer, holder, expecting_interrupt, completion_wait, ops>>
    /\ UNCHANGED <<device, irq, media>>

\* The controller stores the sector it was given and interrupts.
device_stored ==
    /\ busy /\ command = "store"
    /\ busy' = FALSE /\ irq' = TRUE /\ command' = "none"
    /\ media' = [media EXCEPT ![device] = latch]
    /\ UNCHANGED <<device, drq, latch, host>>

\* lock_release (&c->lock);
release(t) ==
    /\ holder' = None
    /\ Goto(t, "r_done", "out") \/ Goto(t, "w_done", "out")
    /\ UNCHANGED <<sec_no, dbuffer, expecting_interrupt, completion_wait, ops, ctrl>>

-----------------------------------------------------------------------------
NoPanic == \A t \in DiskThread : dpc[t] # "panic"

Call(t) == \E s \in Sector : disk_read(t, s) \/ \E d \in Data : disk_write(t, s, d)

Step(t) ==
    \/ acquire(t) \/ select_sector(t) \/ issue_pio_command_expect(t) \/ issue_pio_command(t)
    \/ sema_down(t) \/ wait_while_busy(t) \/ input_sector(t) \/ output_sector(t) \/ release(t)

Controller == device_ready \/ device_stored

DiskNext ==
    /\ NoPanic
    /\ \/ \E t \in DiskThread : Call(t) \/ Step(t)
       \/ Controller
       \/ interrupt_handler

DiskSpec == DiskInit /\ [][DiskNext]_diskVars

\* The controller answers, a pending interrupt is handled, threads are run.
DiskFairness ==
    /\ \A t \in DiskThread : WF_diskVars(NoPanic /\ Step(t))
    /\ WF_diskVars(NoPanic /\ Controller)
    /\ WF_diskVars(NoPanic /\ interrupt_handler)

-----------------------------------------------------------------------------
(* Correctness.                                                            *)

\* A read returns what is on its own sector, and a write returns only "after
\* the disk has acknowledged receiving the data" (disk.c:230), although other
\* threads use the same controller registers and interrupt.
DataIntact ==
    \A t \in DiskThread :
        /\ dpc[t] = "r_done" => dbuffer[t] = media[sec_no[t]]
        /\ dpc[t] = "w_done" => media[sec_no[t]] = dbuffer[t]

\* A command is over when its thread lets go of the lock: no completion, no
\* interrupt and no data are left for the next command to take for its own.
ChannelQuiet ==
    holder = None => completion_wait = 0 /\ ~irq /\ ~busy /\ ~drq

\* The inductive invariant from which both follow.  The lock's holder is the
\* thread inside a command, and each point of a command tells how far the
\* controller may be with it.
DiskTypeOK ==
    /\ dpc \in [DiskThread -> {"out", "r_lock", "r_select", "r_expect", "r_command", "r_down",
                               "r_busy", "r_input", "r_done", "w_lock", "w_select", "w_expect",
                               "w_command", "w_busy", "w_output", "w_down", "w_done", "panic"}]
    /\ sec_no \in [DiskThread -> Sector]
    /\ dbuffer \in [DiskThread -> Data \cup {None}]
    /\ holder \in DiskThread \cup {None}
    /\ completion_wait \in Nat
    /\ device \in Sector
    /\ command \in {"none", "read", "write", "store"}
    /\ latch \in Data \cup {None} /\ media \in [Sector -> Data \cup {None}]
    /\ busy \in BOOLEAN /\ drq \in BOOLEAN /\ irq \in BOOLEAN /\ expecting_interrupt \in BOOLEAN

HolderInside == \A t \in DiskThread : holder = t <=> dpc[t] \notin {"out", "r_lock", "w_lock"}

Quiet == completion_wait = 0 /\ ~irq /\ ~busy /\ ~drq

\* A completion is on its way: the controller works, or its interrupt is
\* pending, or the handler has raised the semaphore.
Completing(working, finished) ==
    \/ busy /\ ~drq /\ ~irq /\ completion_wait = 0 /\ working
    \/ ~busy /\ irq /\ completion_wait = 0 /\ finished
    \/ ~busy /\ ~irq /\ completion_wait = 1 /\ finished

CommandPhase ==
    \A t \in DiskThread :
        /\ dpc[t] \notin {"out", "r_lock", "w_lock", "r_select", "w_select"} => device = sec_no[t]
        /\ dpc[t] \in {"r_command", "w_command", "r_down", "w_busy", "w_output", "w_down"} =>
              expecting_interrupt
        /\ dpc[t] \in {"r_select", "w_select", "r_expect", "w_expect", "r_command", "w_command",
                       "r_done", "w_done"} => Quiet
        /\ dpc[t] = "r_down" => Completing(command = "read", TRUE)
        /\ dpc[t] = "w_busy" => command = "write" /\ ~irq /\ completion_wait = 0 /\ (busy => ~drq)
        /\ dpc[t] \in {"r_busy", "r_input", "w_output"} =>
              ~busy /\ ~irq /\ completion_wait = 0
        /\ dpc[t] \in {"r_input", "w_output"} => drq
        /\ dpc[t] = "w_down" =>
              /\ ~drq
              /\ Completing(command = "store" /\ latch = dbuffer[t], media[sec_no[t]] = dbuffer[t])

DiskInv == DiskTypeOK /\ HolderInside /\ ChannelQuiet /\ CommandPhase /\ DataIntact

\* Every call returns, or panics because a command failed: no completion
\* interrupt is missed.
CallsReturn == \A t \in DiskThread : dpc[t] # "out" ~> (dpc[t] = "out" \/ ~NoPanic)

=============================================================================
