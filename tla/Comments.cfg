SPECIFICATION CommentsSpec
CONSTANTS
    PGSIZE = 32
    MinBlock = 4
    ArenaSize = 20
    SIZE_MAX = 127
    KernelPages = 3
    Size = {120}
    Factor = {12}
    Byte = {0, 1}
    Separator = {0}
    MaxMem = 2
    PerLine = 2
    ELEM_BITS = 2
    W = 2
    Bits <- MCBits
    Value = {9}
    BUFSIZE = 8
    FlagSets = {{}}
    Widths <- MCWidths
    Precisions <- MCPrecisions
    PageSize = 32
    BASE_MEM_THRESHOLD = 256
    KernelEnd = 300
    BitmapHeader = 16
    WordBits = 2
    WordSize = 4
    Entry <- MCEntry
    MaxEntries = 3
    PageLimit = {1000}
    Freqs = {100}
    Rates = {96}
    Width = 12
    StartBit = 4
    EndBit = 4
    Sleepers = {}
    Requests = {}
    MaxLate = 0
    MaxDelays = 0
INVARIANT SomeSentenceHolds
CHECK_DEADLOCK FALSE
