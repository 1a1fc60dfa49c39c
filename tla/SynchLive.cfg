SPECIFICATION SynchFairSpec
CONSTANTS
    Thread = {main, idle, t1}
    initial_thread = main
    IdlePage = idle
    NULL = NULL
    TIME_SLICE = 1
    monitor = monitor
    tid_lock = tid_lock
    Sema = {s}
    Lock = {tid_lock, monitor}
    Cond = {cond}
    LockOf <- MCLockOf
    Ops = {"sema", "device", "lock", "cond", "create", "exit"}
    MaxValue = 1
    MaxTid = 4
PROPERTY WaitersServed
