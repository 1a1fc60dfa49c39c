SPECIFICATION SchedFairSpec
CONSTANTS
    Thread = {main, idle, t1, t2}
    initial_thread = main
    IdlePage = idle
    NULL = NULL
    TIME_SLICE = 2
INVARIANT SchedSafe
PROPERTIES NoRugPulled NoOvertaking ReadyRuns
