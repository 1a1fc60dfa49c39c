----------------------------- MODULE MCComments ------------------------------
(***************************************************************************)
(* Comments and an assertion that the code contradicts.  The arguments of  *)
(* the library, the firmware's memory map, the calibration of the timer    *)
(* and the callers of malloc() go their ways side by side, so that one     *)
(* behaviour can refute them all.                                          *)
(***************************************************************************)
EXTENDS Malloc, Arrays, Format, Pools, Timer

MCBits == [t \in Type |-> IF t \in {"hh", "h"} THEN 8 ELSE 16]
MCWidths == {[text |-> <<>>, stars |-> <<>>]}
MCPrecisions == {[text |-> <<".", "9">>, stars |-> <<>>]}
MCArea(start, pages) == [start |-> PageSize * start, size |-> PageSize * pages, type |-> USABLE]
MCEntry == {MCArea(0, 3), MCArea(8, 10), MCArea(24, 5)}

CommentsInit == StringInit /\ FormatInit /\ PoolsInit /\ TimerInit /\ MallocInit

CommentsNext ==
    \/ StringNext /\ UNCHANGED <<vars, spec, e820, timerVars>>
    \/ FormatNext /\ UNCHANGED <<vars, mem, e820, timerVars>>
    \/ PoolsNext /\ UNCHANGED <<vars, mem, spec, timerVars>>
    \/ TimerNext /\ UNCHANGED <<vars, mem, spec, e820>>
    \/ MallocNext /\ UNCHANGED <<mem, spec, e820, timerVars>>

CommentsSpec == CommentsInit /\ [][CommentsNext]_<<vars, mem, spec, e820, timerVars>>

\* At least one of nine sentences about the code holds in every state: what
\* memmove() returns (string.c:21), what strlcat() writes (string.c:320), what
\* umod64() returns (arithmetic.c:118), what bitmap_scan_and_flip() returns for no
\* bits (bitmap.c:289), how many digits format_integer() outputs (stdio.c:479),
\* what populate_pools() asserts (palloc.c:182), what loops_per_tick counts
\* (timer.c:23), how large a block of malloc() is (malloc.c:82) and what calloc()
\* makes sure of (malloc.c:153).  A state that violates this violates every one of them.
SomeSentenceHolds ==
    \/ MemmoveReturnsDst
    \/ StrlcatTerminates
    \/ RemainderReturned
    \/ ScanOfNoneReturnsZero
    \/ PrecisionMatched
    \/ PoolAssertHolds
    \/ LoopsPerTick
    \/ AtLeastSize
    \/ ProductFits

=============================================================================
