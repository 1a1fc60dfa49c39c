SPECIFICATION SynchSpec
CONSTANTS
    Thread = {main, idle, t1, t2}
    initial_thread = main
    IdlePage = idle
    NULL = NULL
    TIME_SLICE = 1
    monitor = monitor
    tid_lock = tid_lock
    Sema = {}
    Lock = {tid_lock, monitor}
    Cond = {cond}
    LockOf <- MCLockOf
    Ops = {"lock", "cond", "create", "level"}
    MaxValue = 1
    MaxTid = 5
INVARIANTS LockExclusion WaiterAlive
PROPERTY ImplementsMonitor
SYMMETRY Symmetry
