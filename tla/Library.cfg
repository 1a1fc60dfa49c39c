SPECIFICATION LibrarySpec
CONSTANTS
    PGSIZE = 32
    MinBlock = 4
    ArenaSize = 20
    SIZE_MAX = 127
    KernelPages = 3
    Size = {0, 4, 7, 20}
    Factor = {0, 2, 64}
    e1 = e1
    e2 = e2
    e3 = e3
    e4 = e4
    e5 = e5
    Elem = {e1, e2, e3, e4, e5}
    NULL = NULL
    KeyOf <- MCKeyOf
    HashOf <- MCHashOf
    MIN_BUCKET_CNT = 1
    BEST_ELEMS_PER_BUCKET = 1
    Byte = {0, 1, 2, 3}
    Separator = {0, 1}
    MaxMem = 5
    PerLine = 2
    ELEM_BITS = 2
    W = 4
    Bits <- MCBits
    Value = {0, 9, 128, 2048, 65535}
    BUFSIZE = 8
    FlagSets <- MCFlagSets
    Widths <- MCWidths
    Precisions <- MCPrecisions
    BASE_MEM_THRESHOLD = 256
    KernelEnd = 300
    BitmapHeader = 16
    PageSize = 32
    WordBits = 2
    WordSize = 4
    Entry <- MCEntry
    MaxEntries = 5
    PageLimit = {0, 1, 3, 1000}
    OldFiles <- MCOld
    Archive <- MCArchive
    DISK_SECTOR_SIZE = 2
    DiskSize = 7
    FsRoom = 6
    LOADER_ARGS_LEN = 36
    WordLen = 3
    SBox = 5
    SectorBytes = 3
    FileLength = 5
    Sizes = {0, 1, 2, 4, 6}
    Offsets = {0, 2, 3, 7}
    EntryBytes = 2
    Task = {k1, k2}
    Lines = {0, 5, 14}
    Traps = {14}
    MaxFrames = 2
INVARIANTS MallocExact ContainersExact StringsExact ArraysExact FormatExact PoolsExact FilesExact CommandsExact InterruptsAcknowledged
CHECK_DEADLOCK FALSE
