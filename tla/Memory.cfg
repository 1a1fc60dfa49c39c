SPECIFICATION MemorySpec
CONSTANTS
    Thread = {t1, t2, t3}
    NULL = NULL
    NoHolder = NoHolder
    KernelPages = 3
    UserPages = 1
    PageCnt = {1, 2}
    p1 = p1
    p2 = p2
    main = main
    Process = {p1, p2}
    UserFrames = 5
    PageSize = 2
    KERN_BASE = 16
    AddressLimit = 32
    StackPage = 5
    Boots <- MCBoots
INVARIANTS PagesExclusive ContentKept FailsOnlyWhenFull PagesOwned CpuContext 
SYMMETRY Symmetry
CHECK_DEADLOCK FALSE
