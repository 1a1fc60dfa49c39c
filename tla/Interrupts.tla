----------------------------- MODULE Interrupts ------------------------------
(***************************************************************************)
(* Interrupt handling (threads/interrupt.c): the descriptor table, the     *)
(* dispatcher intr_handler(), and the two cascaded 8259A controllers as it *)
(* drives them.  Each thread has the frames of the interrupts it is in; a  *)
(* thread may be switched away from inside one, with interrupts off.       *)
(***************************************************************************)
EXTENDS Integers, Sequences, SequencesExt, FiniteSetsExt

CONSTANTS
    Task,              \* threads
    Lines,             \* device lines 0 .. 15 that are raised
    Traps,             \* vectors of exceptions that happen
    MaxFrames          \* bound: interrupts inside interrupts, of one thread

VARIABLES
    IF_,               \* the CPU's interrupt flag
    running,           \* the current thread
    frames,            \* of each thread, innermost last
    old_level,         \* of each thread that is not running: its flag
    in_external_intr, yield_on_return,
    irr, isr,          \* lines requested, and in service, of both controllers
    halted

interruptVars == <<IF_, running, frames, old_level, in_external_intr, yield_on_return, irr, isr, halted>>

External(vec) == vec \in 32 .. 47                       \* 0x20 .. 0x2f

----------------------------------------------------------------------------
(* The descriptor table.                                                   *)

\* make_intr_gate() and make_trap_gate(): an interrupt gate clears the flag.
make_gate(handler, level, dpl) == [handler |-> handler, clears |-> level = "INTR_OFF", dpl |-> dpl]

intr_init == [vec \in 0 .. 255 |-> make_gate("NULL", "INTR_OFF", 0)]

register_handler(t, r) ==
    CASE t[r.vec].handler = "NULL" -> [t EXCEPT ![r.vec] = make_gate(r.handler, r.level, r.dpl)]

intr_register_ext(vec, handler) ==
    CASE External(vec) -> [vec |-> vec, dpl |-> 0, level |-> "INTR_OFF", handler |-> handler]

intr_register_int(vec, dpl, level, handler) ==
    CASE ~External(vec) -> [vec |-> vec, dpl |-> dpl, level |-> level, handler |-> handler]

exception_init ==
    [i \in 1 .. 3 |-> intr_register_int(i + 2, 3, "INTR_ON", "kill")]
    \o [i \in 1 .. 9 |-> intr_register_int(<<0, 1, 6, 7, 11, 12, 13, 16, 19>>[i], 0, "INTR_ON", "kill")]
    \o <<intr_register_int(14, 0, "INTR_OFF", "page_fault")>>

\* The registrations of main(), in its order.
Registrations ==
    <<intr_register_ext(32, "timer"), intr_register_ext(33, "keyboard")>>
    \o exception_init
    \o <<intr_register_ext(36, "serial"), intr_register_ext(46, "disk"), intr_register_ext(47, "disk")>>

\* The table does not change after boot.
idt == FoldLeft(register_handler, intr_init, Registrations)

----------------------------------------------------------------------------
(* The controllers.                                                        *)

Chip(n) == IF n = 1 THEN 0 .. 7 ELSE 8 .. 15

\* Fixed priority, the slave behind line 2 of the master.
Deliverable(line) ==
    /\ \A s \in isr \cap Chip(1) : (IF line > 7 THEN 2 ELSE line) < s
    /\ line > 7 => \A s \in isr \cap Chip(2) : line < s

Priority(line) == IF line > 7 THEN 20 + line ELSE 10 * line

First(line) == line \in irr /\ Deliverable(line) /\ \A l \in irr : Deliverable(l) => Priority(line) <= Priority(l)

\* A non-specific end of interrupt.
EOI(in_service, n) ==
    LET mine == in_service \cap Chip(n) IN IF mine = {} THEN in_service ELSE in_service \ {Min(mine)}

pic_end_of_interrupt_OneChip(vec) == EOI(isr, IF vec >= 40 THEN 2 ELSE 1)

\* "Acknowledge master PIC.  Acknowledge slave PIC if this is a slave interrupt."
pic_end_of_interrupt(vec) ==
    CASE External(vec) -> IF vec >= 40 THEN EOI(EOI(isr, 1), 2) ELSE EOI(isr, 1)

----------------------------------------------------------------------------
(* The CPU and the dispatcher.                                             *)

InterruptsInit ==
    /\ IF_ = TRUE /\ running = (CHOOSE t \in Task : TRUE)       \* the initial thread
    /\ frames = [t \in Task |-> <<>>] /\ old_level = [t \in Task |-> TRUE]
    /\ in_external_intr = FALSE /\ yield_on_return = FALSE
    /\ irr = {} /\ isr = {} /\ halted = FALSE

Frame == Last(frames[running])
InFrame(stage) == frames[running] # <<>> /\ Frame.stage = stage
InCode == ~halted /\ (InFrame("handler") => ~External(Frame.vec)) /\ ~InFrame("entry") /\ ~InFrame("return")
SetFrame(f) == frames' = [frames EXCEPT ![running] = Append(Front(@), f)]

\* The CPU goes through the gate of vec.
Push(vec) ==
    /\ Len(frames[running]) < MaxFrames
    /\ frames' = [frames EXCEPT ![running] = Append(@, [vec |-> vec, flag |-> IF_, stage |-> "entry", asked |-> FALSE])]
    /\ IF_' = (IF_ /\ ~idt[vec].clears)
    /\ UNCHANGED <<running, old_level, in_external_intr, yield_on_return, halted>>

raise(line) ==
    /\ ~halted /\ line \notin irr /\ irr' = irr \cup {line}
    /\ UNCHANGED <<IF_, running, frames, old_level, in_external_intr, yield_on_return, isr, halted>>

external(line) ==
    /\ ~halted /\ IF_ /\ First(line)
    /\ irr' = irr \ {line}
    /\ isr' = isr \cup {line} \cup (IF line > 7 THEN {2} ELSE {})
    /\ Push(32 + line)

\* The request goes away while the CPU answers it: the controller gives its
\* vector 7 and has nothing of its own in service.
spurious(line) ==
    /\ ~halted /\ IF_ /\ First(line)
    /\ irr' = irr \ {line}
    /\ isr' = IF line > 7 THEN isr \cup {2} ELSE isr
    /\ Push(IF line > 7 THEN 47 ELSE 39)

exception(vec) == InCode /\ Push(vec) /\ UNCHANGED <<irr, isr>>

\* intr_handler() up to the handler, with its ASSERTs.
intr_handler_begin ==
    /\ ~halted /\ InFrame("entry")
    /\ IF External(Frame.vec)
       THEN CASE ~IF_ /\ ~in_external_intr -> in_external_intr' = TRUE /\ yield_on_return' = FALSE
       ELSE UNCHANGED <<in_external_intr, yield_on_return>>
    /\ halted' = (idt[Frame.vec].handler = "NULL" /\ Frame.vec \notin {39, 47})
    /\ SetFrame([Frame EXCEPT !.stage = "handler"])
    /\ UNCHANGED <<IF_, running, old_level, irr, isr>>

\* The timer's handler, at the end of a time slice.
intr_yield_on_return ==
    /\ ~halted /\ InFrame("handler") /\ idt[Frame.vec].handler = "timer"
    /\ CASE in_external_intr -> yield_on_return' = TRUE
    /\ SetFrame([Frame EXCEPT !.asked = TRUE])
    /\ UNCHANGED <<IF_, running, old_level, in_external_intr, irr, isr, halted>>

\* intr_enable() and intr_disable(): by a thread or by an exception's handler.
intr_set_level(level) ==
    /\ InCode /\ IF_ # level
    /\ CASE ~in_external_intr -> IF_' = level
    /\ UNCHANGED <<running, frames, old_level, in_external_intr, yield_on_return, irr, isr, halted>>

\* schedule(): t goes on where it was switched away from.
Switch(t, level) ==
    /\ running' = t
    /\ old_level' = [old_level EXCEPT ![running] = level]
    /\ IF_' = IF t = running THEN level ELSE old_level[t]

thread_yield(t) ==
    /\ InCode /\ Switch(t, IF_) /\ t # running
    /\ UNCHANGED <<frames, in_external_intr, yield_on_return, irr, isr, halted>>

\* intr_handler() from the handler's return; t runs if there is a yield.
intr_handler_end(t) ==
    /\ ~halted /\ InFrame("handler")
    /\ SetFrame([Frame EXCEPT !.stage = "return"])
    /\ IF External(Frame.vec)
       THEN /\ CASE ~IF_ /\ in_external_intr -> in_external_intr' = FALSE
            /\ isr' = pic_end_of_interrupt(Frame.vec)
            /\ IF yield_on_return THEN Switch(t, FALSE)
               ELSE t = running /\ UNCHANGED <<running, old_level, IF_>>
       ELSE t = running /\ UNCHANGED <<in_external_intr, isr, running, old_level, IF_>>
    /\ UNCHANGED <<yield_on_return, irr, halted>>

\* The end of intr_entry in intr-stubs.S.
iretq ==
    /\ ~halted /\ InFrame("return")
    /\ IF_' = Frame.flag
    /\ frames' = [frames EXCEPT ![running] = Front(@)]
    /\ UNCHANGED <<running, old_level, in_external_intr, yield_on_return, irr, isr, halted>>

InterruptsNext ==
    \/ \E line \in Lines : raise(line) \/ external(line) \/ spurious(line)
    \/ \E vec \in Traps : exception(vec)
    \/ \E level \in BOOLEAN : intr_set_level(level)
    \/ \E t \in Task : thread_yield(t) \/ intr_handler_end(t)
    \/ intr_handler_begin \/ intr_yield_on_return \/ iretq

----------------------------------------------------------------------------

\* Whenever interrupts are on, in whatever thread and inside whatever exception,
\* nothing is in service at either controller, so that no later interrupt is held
\* back; at most one external interrupt is being handled, by the running thread
\* and with interrupts off; a request to yield is that of the interrupt that
\* returns; and only a vector without a handler stops the kernel
\* (interrupt.c:97-104, 310-324, 331-375).
InterruptsAcknowledged ==
    /\ IF_ => isr = {}
    /\ in_external_intr <=> InFrame("handler") /\ External(Frame.vec)
    /\ in_external_intr =>
          /\ ~IF_ /\ yield_on_return = Frame.asked
          /\ \A t \in Task \ {running} : frames[t] # <<>> /\ External(Last(frames[t]).vec) => Last(frames[t]).stage = "return"
    /\ halted => Frame.vec \in {32 + l : l \in Lines \ {0, 1, 4, 14, 15}}

=============================================================================
