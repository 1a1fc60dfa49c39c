SPECIFICATION DevicesSpec
CONSTANTS
    Reader = {r1, r2}
    Writer = {w1, w2}
    NULL = NULL
    INTQ_BUFSIZE = 3
    MaxByte = 4
    DiskThread = {d1, d2}
    None = None
    Sector = {s1, s2}
    Data = {b1, b2}
    Faults = TRUE
    MaxOps = 3
    Printer = {c1, c2}
    NoHolder = NoHolder
    Messages <- MCMessages
    COL_CNT = 4
    ROW_CNT = 2
    Tab = 2
    MaxOut = 5
    MaxNesting = 2
    Keys = {30, 3, 42, 54, 58, 57373, 57400}
    MaxKeyEvents = 4
    Freqs = {19, 100, 1000}
    Rates = {1, 16, 37, 64, 96, 127, 500, 2047, 2048}
    Width = 12
    StartBit = 4
    EndBit = 4
    Sleepers = {p1, p2}
    Requests <- MCRequests
    MaxLate = 1
    MaxDelays = 1
INVARIANTS BytesInOrder SleepersKnown DataIntact ChannelQuiet ConsoleExact KeysExact DelaysKept
PROPERTIES CallersServed CallsReturn
CHECK_DEADLOCK FALSE
