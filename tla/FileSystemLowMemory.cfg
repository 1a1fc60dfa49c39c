SPECIFICATION FileSystemSpec
CONSTANTS
    DiskSize = 8
    DISK_SECTOR_SIZE = 2
    EntryCnt = 2
    Name = {a, b, long}
    LongName = long
    Length = {0, 3}
    File = {f1, f2}
    NULL = NULL
    Oom = {"dir_read"}
PROPERTY EntriesKept
