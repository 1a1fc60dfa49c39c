SPECIFICATION SynchSpec
CONSTANTS
    Thread = {main, idle, t1, t2, t3}
    initial_thread = main
    IdlePage = idle
    NULL = NULL
    TIME_SLICE = 1
    monitor = monitor
    tid_lock = tid_lock
    Sema = {s}
    Lock = {tid_lock}
    Cond = {}
    LockOf <- MCLockOf
    Ops = {"sema", "device", "create"}
    MaxValue = 2
    MaxTid = 6
INVARIANTS SleepersListed TidsUnique
PROPERTY ImplementsScheduler
SYMMETRY Symmetry
