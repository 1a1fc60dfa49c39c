------------------------------ MODULE Console --------------------------------
(***************************************************************************)
(* The console (lib/kernel/console.c) and the text display (devices/vga.c).*)
(* Threads print messages under a lock that one thread may take again;     *)
(* interrupt handlers and a panic print without it.  serial_putc() and     *)
(* vga_putc() each run with interrupts off: a thread switch or an interrupt*)
(* may come between them.  The lock is the lock of module Synch seen as an *)
(* atomic mutual exclusion.                                                *)
(***************************************************************************)
EXTENDS Integers, Sequences, SequencesExt, FiniteSetsExt, TLC

CONSTANTS
    Printer,           \* threads
    NoHolder,
    Messages,          \* strings that are printed
    COL_CNT, ROW_CNT, Tab,
    MaxOut, MaxNesting \* bounds: characters, calls inside calls

VARIABLES
    console_lock,      \* its holder
    console_lock_depth,
    use_console_lock,
    calls,             \* of each thread: innermost last; what is left to print
    serial,            \* characters sent to the serial port, with their call
    vga,               \* cursor and frame buffer of the display
    shown              \* characters sent to the display, with their call

consoleVars == <<console_lock, console_lock_depth, use_console_lock, calls, serial, vga, shown>>

Blank == " "
Row == [x \in 0 .. COL_CNT - 1 |-> Blank]
RoundUpTo(n, step) == ((n + step - 1) \div step) * step

----------------------------------------------------------------------------
(* vga.c *)

newline(v) ==
    [v EXCEPT !.cx = 0,
              !.cy = Min({@ + 1, ROW_CNT - 1}),
              !.fb = IF v.cy + 1 < ROW_CNT THEN v.fb
                     ELSE [y \in DOMAIN v.fb |-> IF y < ROW_CNT - 1 THEN v.fb[y + 1] ELSE Row]]

cls(v) == [v EXCEPT !.cx = 0, !.cy = 0, !.fb = [y \in DOMAIN v.fb |-> Row]]

Wrap_Late(v) == IF v.cx > COL_CNT THEN newline(v) ELSE v

\* if (cx >= COL_CNT) newline ();
Wrap(v) == IF v.cx >= COL_CNT THEN newline(v) ELSE v

vga_putc(v, c) ==
    LET w == CASE c = "LF" -> newline(v)
               [] c = "FF" -> cls(v)
               [] c = "BS" -> [v EXCEPT !.cx = IF @ > 0 THEN @ - 1 ELSE 0]
               [] c = "CR" -> [v EXCEPT !.cx = 0]
               [] c = "HT" -> Wrap([v EXCEPT !.cx = RoundUpTo(@ + 1, Tab)])
               [] OTHER -> Wrap([v EXCEPT !.fb[v.cy][v.cx] = c, !.cx = @ + 1])
    IN  [w EXCEPT !.cursor = w.cx + COL_CNT * w.cy]     \* move_cursor()

\* find_cursor(): the boot loader has left text and the cursor somewhere.
FindCursor(cp) ==
    [found |-> cp, cursor |-> cp, cx |-> cp % COL_CNT, cy |-> cp \div COL_CNT,
     fb |-> [y \in 0 .. ROW_CNT - 1 |-> [x \in 0 .. COL_CNT - 1 |-> "?"]]]

----------------------------------------------------------------------------
(* console.c *)

ConsoleInit ==
    /\ console_lock = NoHolder /\ console_lock_depth = 0
    /\ use_console_lock = TRUE
    /\ calls = [t \in Printer |-> <<>>]
    /\ serial = <<>> /\ shown = <<>>
    /\ vga \in {FindCursor(cp) : cp \in {0, COL_CNT * ROW_CNT - 1}}

Room(n) == Len(serial) + n <= MaxOut
InCall(t) == calls[t] # <<>>
Top(t) == Last(calls[t])
Sent(t) == [by |-> t, call |-> Head(calls[t]).id, c |-> Head(Top(t).left)]
SetTop(t, frame) == calls' = [calls EXCEPT ![t] = Append(Front(@), frame)]

acquire_console_NoDepth(t) ==
    /\ use_console_lock
    /\ console_lock \in {NoHolder, t}
    /\ console_lock' = t
    /\ UNCHANGED console_lock_depth

acquire_console(t) ==
    /\ use_console_lock
    /\ \/ console_lock = t /\ console_lock_depth' = console_lock_depth + 1 /\ UNCHANGED console_lock
       \/ console_lock = NoHolder /\ console_lock' = t /\ UNCHANGED console_lock_depth

\* vprintf(), puts(), putbuf() or putchar(), up to the first character; a
\* thread may come back to it from inside serial_putc() (console.c:32-54).
print_begin(t, msg) ==
    /\ Room(Len(msg)) /\ Len(calls[t]) < MaxNesting
    /\ acquire_console(t)
    /\ calls' = [calls EXCEPT ![t] = Append(@, [left |-> msg, half |-> FALSE, id |-> Len(serial)])]
    /\ UNCHANGED <<use_console_lock, serial, vga, shown>>

\* putchar_have_lock(): the ASSERT and serial_putc(), then vga_putc().
putchar_serial(t) ==
    /\ use_console_lock /\ InCall(t) /\ ~Top(t).half /\ Top(t).left # <<>>
    /\ Room(1)
    /\ CASE console_lock = t -> serial' = Append(serial, Sent(t))
    /\ SetTop(t, [Top(t) EXCEPT !.half = TRUE])
    /\ UNCHANGED <<console_lock, console_lock_depth, use_console_lock, vga, shown>>

putchar_vga(t) ==
    /\ use_console_lock /\ InCall(t) /\ Top(t).half
    /\ vga' = vga_putc(vga, Head(Top(t).left))
    /\ shown' = Append(shown, Sent(t))
    /\ SetTop(t, [Top(t) EXCEPT !.left = Tail(@), !.half = FALSE])
    /\ UNCHANGED <<console_lock, console_lock_depth, use_console_lock, serial>>

release_console(t) ==
    IF console_lock_depth > 0
    THEN console_lock_depth' = console_lock_depth - 1 /\ UNCHANGED console_lock
    ELSE console_lock' = NoHolder /\ UNCHANGED console_lock_depth

print_end(t) ==
    /\ use_console_lock /\ InCall(t) /\ Top(t).left = <<>>
    /\ release_console(t)
    /\ calls' = [calls EXCEPT ![t] = Front(@)]
    /\ UNCHANGED <<use_console_lock, serial, vga, shown>>

\* A message printed with interrupts off and without the lock.
Unlocked(by, msg) ==
    LET sent == [i \in DOMAIN msg |-> [by |-> by, call |-> 0, c |-> msg[i]]]
    IN  /\ Room(Len(msg))
        /\ serial' = serial \o sent /\ shown' = shown \o sent
        /\ vga' = FoldLeft(vga_putc, vga, msg)
        /\ UNCHANGED <<console_lock, console_lock_depth, calls>>

print_interrupt(msg) == use_console_lock /\ Unlocked("interrupt", msg) /\ UNCHANGED use_console_lock

\* debug_panic() turns interrupts off and calls console_panic().
console_panic(msg) == use_console_lock /\ use_console_lock' = FALSE /\ Unlocked("panic", msg)

ConsoleNext ==
    \/ \E t \in Printer :
          \/ \E msg \in Messages : print_begin(t, msg)
          \/ putchar_serial(t) \/ putchar_vga(t) \/ print_end(t)
    \/ \E msg \in Messages : print_interrupt(msg) \/ console_panic(msg)

----------------------------------------------------------------------------
(* An endless sheet on which the same text is written.                     *)

Down(s) == [rows |-> s.rows @@ ((s.r + 1) :> Row), r |-> s.r + 1, c |-> 0]
Fit(s) == IF s.c < COL_CNT THEN s ELSE Down(s)

Write(s, ch) ==
    CASE ch = "LF" -> Down(s)
      [] ch = "FF" -> [rows |-> [y \in 0 .. ROW_CNT - 1 |-> Row], r |-> 0, c |-> 0]
      [] ch = "BS" -> [s EXCEPT !.c = Max({@ - 1, 0})]
      [] ch = "CR" -> [s EXCEPT !.c = 0]
      [] ch = "HT" -> Fit([s EXCEPT !.c = Min({c \in @ + 1 .. @ + Tab : c % Tab = 0})])
      [] OTHER -> Fit([s EXCEPT !.rows[s.r][s.c] = ch, !.c = @ + 1])

Written ==
    LET v == FindCursor(vga.found)
    IN  FoldLeft(LAMBDA s, sent : Write(s, sent.c), [rows |-> v.fb, r |-> v.cy, c |-> v.cx], shown)

LinesWhole(out) ==
    \A i, j, k \in DOMAIN out :
        (/\ i < j /\ j < k /\ {out[i].by, out[j].by} \subseteq Printer
         /\ out[i].by = out[k].by /\ out[i].call = out[k].call)
        => out[j].by = out[i].by

LockCounted ==
    use_console_lock =>
        /\ \A t \in Printer : InCall(t) <=> console_lock = t
        /\ console_lock_depth = Max({Len(calls[t]) : t \in Printer} \cup {1}) - 1

ScreenShows ==
    LET s == Written
        top == Max(DOMAIN s.rows) + 1 - ROW_CNT
    IN  /\ vga.fb = [y \in 0 .. ROW_CNT - 1 |-> s.rows[top + y]]
        /\ vga.cursor = s.c + COL_CNT * (s.r - top)

\* The output of a call is not mixed with that of another thread, on the serial
\* port or on the display, whatever is printed inside the call; the lock is held exactly by the thread that prints
\* and its depth counts the calls; and the display and its cursor show the last
\* rows of the text that was sent to it (console.c:11-17, vga.c:46-131).
ConsoleExact == LinesWhole(serial) /\ LinesWhole(shown) /\ LockCounted /\ ScreenShows

=============================================================================
