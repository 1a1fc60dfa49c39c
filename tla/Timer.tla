------------------------------- MODULE Timer ---------------------------------
(***************************************************************************)
(* The timer (devices/timer.c): programming the 8254, the calibration of   *)
(* the delay loop, and the delays.  unsigned has Width bits; the machine   *)
(* runs `rate' iterations of the delay loop in a tick.                     *)
(***************************************************************************)
EXTENDS Integers, Sequences, SequencesExt, FiniteSetsExt

CONSTANTS
    Freqs,             \* values of TIMER_FREQ
    Rates,             \* speeds of the machine
    Width,
    StartBit,          \* 10: loops_per_tick starts at 1u << 10
    EndBit,            \* 10: the refinement ends at high_bit >> 10
    Sleepers,          \* threads
    Requests,          \* <<num, denom>> of real_time_sleep(); denom = 0: timer_sleep(num)
    MaxLate, MaxDelays \* bounds: ticks a sleeper is late, delays

VARIABLES
    TIMER_FREQ, rate,
    pit,               \* count in counter 0 of the 8254: its two bytes
    ticks,
    loops_per_tick,
    stage,             \* of boot: "init", "double", "refine", "done", "panic"
    high_bit, test_bit,
    delay,             \* of each thread: the call it is in
    delayed            \* delays that ended

timerVars == <<TIMER_FREQ, rate, pit, ticks, loops_per_tick, stage, high_bit, test_bit, delay, delayed>>

Trunc(n) == n % 2^Width                                        \* an unsigned
Quot(a, b) == IF a >= 0 THEN a \div b ELSE -((-a) \div b)    \* C's a / b for b > 0
Awake == [num |-> 0, denom |-> 0, then |-> 0, for |-> 0]

TimerInit ==
    /\ TIMER_FREQ \in Freqs /\ rate \in Rates
    /\ pit = <<0, 0>> /\ ticks = 0 /\ loops_per_tick = 0
    /\ stage = "init" /\ high_bit = 0 /\ test_bit = 0
    /\ delay = [t \in Sleepers |-> Awake]
    /\ delayed = <<>>

count_Truncated == (1193180 \div TIMER_FREQ) % 2^16
count == ((1193180 + TIMER_FREQ \div 2) \div TIMER_FREQ) % 2^16

\* timer_init(), and the start of timer_calibrate().
timer_init ==
    /\ stage = "init"
    /\ pit' = <<count % 256, count \div 256>>
    /\ loops_per_tick' = 2^StartBit
    /\ stage' = "double"
    /\ UNCHANGED <<TIMER_FREQ, rate, ticks, high_bit, test_bit, delay, delayed>>

\* too_many_loops() starts at a tick and ends in the tick in which the loops end.
too_many_loops(loops) == loops > rate
Elapse(loops) == ticks' = ticks + 1 + (loops \div (rate + 1))

\* The while loop of timer_calibrate(), with its ASSERT.
calibrate_double ==
    LET loops == Trunc(2 * loops_per_tick)
    IN  /\ stage = "double"
        /\ Elapse(loops)
        /\ IF too_many_loops(loops)
           THEN /\ high_bit' = loops_per_tick /\ test_bit' = loops_per_tick \div 2
                /\ stage' = "refine" /\ UNCHANGED loops_per_tick
           ELSE /\ loops_per_tick' = loops
                /\ stage' = IF loops # 0 THEN "double" ELSE "panic"
                /\ UNCHANGED <<high_bit, test_bit>>
        /\ UNCHANGED <<TIMER_FREQ, rate, pit, delay, delayed>>

\* One round of the for loop; its bits are below high_bit, so that | is +.
calibrate_refine ==
    /\ stage = "refine"
    /\ IF test_bit = high_bit \div 2^EndBit
       THEN stage' = "done" /\ UNCHANGED <<ticks, loops_per_tick, test_bit>>
       ELSE /\ Elapse(high_bit + test_bit)
            /\ loops_per_tick' = IF too_many_loops(high_bit + test_bit)
                                 THEN loops_per_tick ELSE loops_per_tick + test_bit
            /\ test_bit' = test_bit \div 2
            /\ UNCHANGED stage
    /\ UNCHANGED <<TIMER_FREQ, rate, pit, high_bit, delay, delayed>>

\* timer_interrupt(); thread_tick() is in module Scheduler.
timer_interrupt ==
    /\ stage = "done"
    /\ \E t \in Sleepers : delay[t] # Awake
    /\ \A t \in Sleepers : delay[t] # Awake => ticks - delay[t].then < delay[t].for + MaxLate
    /\ ticks' = ticks + 1
    /\ UNCHANGED <<TIMER_FREQ, rate, pit, loops_per_tick, stage, high_bit, test_bit, delay, delayed>>

\* The ticks to wait for: timer_sleep(), or real_time_sleep() of a longer time.
TicksOf(num, denom) == IF denom = 0 THEN num ELSE Quot(num * TIMER_FREQ, denom)

\* The call of timer_sleep(), timer_msleep(), timer_usleep() or timer_nsleep() by
\* t, up to timer_ticks().
sleep_begin(t, num, denom) ==
    /\ stage = "done" /\ delay[t] = Awake /\ Len(delayed) < MaxDelays
    /\ denom = 0 \/ TicksOf(num, denom) > 0
    /\ delay' = [delay EXCEPT ![t] = [num |-> num, denom |-> denom, then |-> ticks, for |-> TicksOf(num, denom)]]
    /\ UNCHANGED <<TIMER_FREQ, rate, pit, ticks, loops_per_tick, stage, high_bit, test_bit, delayed>>

\* while (timer_elapsed (start) < ticks) thread_yield ();
sleep_end(t) ==
    /\ delay[t] # Awake /\ ticks - delay[t].then >= delay[t].for
    /\ delay' = [delay EXCEPT ![t] = Awake]
    /\ delayed' = Append(delayed, [num |-> delay[t].num, denom |-> delay[t].denom,
                                 ticks |-> ticks - delay[t].then, loops |-> 0])
    /\ UNCHANGED <<TIMER_FREQ, rate, pit, ticks, loops_per_tick, stage, high_bit, test_bit>>

busy_loops_ScaleFirst(num, denom) == Quot(loops_per_tick * Quot(num, 1000) * TIMER_FREQ, denom \div 1000)

\* The argument of busy_wait().
busy_loops(num, denom) == Quot(Quot(loops_per_tick * num, 1000) * TIMER_FREQ, denom \div 1000)

\* real_time_sleep() of less than a tick.
busy_wait(t, num, denom) ==
    /\ stage = "done" /\ delay[t] = Awake /\ Len(delayed) < MaxDelays
    /\ denom # 0 /\ TicksOf(num, denom) <= 0
    /\ delayed' = Append(delayed, [num |-> num, denom |-> denom, ticks |-> 0,
                                 loops |-> Max({busy_loops(num, denom), 0})])
    /\ UNCHANGED <<TIMER_FREQ, rate, pit, ticks, loops_per_tick, stage, high_bit, test_bit, delay>>

TimerNext ==
    \/ timer_init \/ calibrate_double \/ calibrate_refine \/ timer_interrupt
    \/ \E t \in Sleepers :
          \/ \E r \in Requests : sleep_begin(t, r[1], r[2]) \/ busy_wait(t, r[1], r[2])
          \/ sleep_end(t)

----------------------------------------------------------------------------

\* On a machine that runs at least the starting count in a tick, high_bit is the
\* largest power of two of loops in a tick, loops_per_tick has that bit as its
\* highest, and is at most the eight further bits it is refined to below the rate.
\* How far it may be above the rate is LoopsPerTick's question.
Calibrated ==
    stage = "done" /\ rate >= 2^StartBit =>
        /\ high_bit <= rate /\ rate < 2 * high_bit
        /\ high_bit <= loops_per_tick /\ loops_per_tick < 2 * high_bit
        /\ rate - loops_per_tick < high_bit \div 2^(EndBit - 2)

\* The 8254 is programmed to the nearest count; the calibration finds the highest
\* bit of the rate and falls short of the rate by no more than the bits it refines,
\* and only a machine too fast for an unsigned stops the boot; no delay ends before
\* the whole ticks it was asked for; and a shorter one runs the requested part of
\* loops_per_tick, to the precision that dividing by 1000 first leaves
\* (timer.c:36-71, 91-98, 163-186).
DelaysKept ==
    /\ stage # "init" =>
          2 * (IF (pit[1] + 256 * pit[2]) * TIMER_FREQ > 1193180
               THEN (pit[1] + 256 * pit[2]) * TIMER_FREQ - 1193180
               ELSE 1193180 - (pit[1] + 256 * pit[2]) * TIMER_FREQ) <= TIMER_FREQ
    /\ Calibrated
    /\ stage = "panic" => rate >= 2^(Width - 1)
    /\ \A d \in Range(delayed) :
          IF d.denom = 0 THEN d.ticks >= d.num
          ELSE \/ d.num <= 0 /\ d.loops = 0
               \/ (d.ticks + 1) * d.denom > d.num * TIMER_FREQ /\ d.ticks > 0
               \/ LET part == d.denom \div 1000      \* exact: num * loops_per_tick * FREQ / denom
                      exact == loops_per_tick * d.num * TIMER_FREQ
                  IN  /\ d.num * TIMER_FREQ < d.denom
                      /\ d.loops <= loops_per_tick
                      /\ d.loops * part <= exact \div 1000
                      /\ exact \div 1000 < (d.loops + 1) * part + TIMER_FREQ

----------------------------------------------------------------------------

\* "Number of loops per timer tick.  Initialized by timer_calibrate()."
\* (timer.c:23-24): as many loops do fit into a tick.
LoopsPerTick == stage = "done" /\ rate >= 2^StartBit => ~too_many_loops(loops_per_tick)

=============================================================================
