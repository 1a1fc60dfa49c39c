SPECIFICATION SerialSpec
CONSTANTS
    Reader = {r1, r2}
    Writer = {}
    NULL = NULL
    INTQ_BUFSIZE = 3
    MaxByte = 3
INVARIANTS WaitAssertHolds
CHECK_DEADLOCK FALSE
