----------------------------- MODULE FileSystem -----------------------------
(***************************************************************************)
(* The base file system: free map, inodes, the root directory and open     *)
(* files (filesys/free-map.c, inode.c, directory.c, file.c, filesys.c).    *)
(*                                                                         *)
(* Calls are made one at a time, as the code requires of its callers: it   *)
(* takes no lock.  An action is the part of a call up to and including one *)
(* write to the disk, so that power_failure can come between any two       *)
(* writes.  Memory may run out in a call; a call that fails before its     *)
(* first write undoes what it did, and is a stuttering step.               *)
(***************************************************************************)
EXTENDS Integers, FiniteSets

CONSTANTS
    DiskSize,          \* sectors of the disk
    DISK_SECTOR_SIZE,  \* bytes of a sector
    EntryCnt,          \* entries of the root directory
    Name, LongName,    \* file names, and one that dir_add() refuses
    Length,            \* lengths that filesys_create() is called with
    File, NULL,        \* struct file objects
    Oom                \* allocations of memory that may fail

Site == {"disk_inode", "map_write", "dir_read", "dir_write"}

ASSUME FileSystemAssumption ==
    /\ DiskSize \in Nat /\ DiskSize > 3
    /\ DISK_SECTOR_SIZE \in Nat \ {0}
    /\ EntryCnt \in Nat \ {0}
    /\ Length \subseteq Nat
    /\ LongName \in Name
    /\ IsFiniteSet(File)
    /\ Oom \subseteq Site

FREE_MAP_SECTOR == 0
ROOT_DIR_SECTOR == 1
Sector == 0 .. DiskSize - 1
Slot == 1 .. EntryCnt

DirEntry == [inode_sector : Sector, name : Name]
OpenFile == [inode : Sector, deny_write : BOOLEAN]

\* NULL is no struct file and no directory entry.
ASSUME NullAssumption == NULL \notin File \cup OpenFile \cup DirEntry

VARIABLES
    free_map,     \* sectors marked in the bitmap in memory
    open_inodes,  \* open inodes, by sector
    files,        \* open files, NULL for an object that is not allocated
    map_file,     \* contents of the free map file on disk
    entries,      \* entries of the root directory on disk, NULL where not in_use
    disk,         \* contents of the sectors: an inode, zeros or other bytes
    pc, call,     \* the call that is executing
    leaked        \* history: sectors that were marked and lost track of

vars == <<free_map, open_inodes, files, map_file, entries, disk, pc, call, leaked>>
memory == <<free_map, open_inodes, files>>

Zeros == [kind |-> "zeros"]
Bytes == [kind |-> "bytes"]
InodeDisk(start, length) == [kind |-> "inode", start |-> start, length |-> length]

NoCall == [name |-> LongName, length |-> 0, sector |-> 0, start |-> 0, dir |-> FALSE]

\* The outcomes of an allocation at site.
Fails(site) == {FALSE} \cup {b \in {TRUE} : site \in Oom}

----------------------------------------------------------------------------
(* Free map. *)

bytes_to_sectors_Floor(size) == size \div DISK_SECTOR_SIZE

bytes_to_sectors(size) == (size + DISK_SECTOR_SIZE - 1) \div DISK_SECTOR_SIZE

Run(sector, cnt) == sector .. sector + cnt - 1

\* bitmap_scan(): the places where cnt consecutive sectors are free.
Fits(cnt) ==
    {s \in Sector : s + cnt =< DiskSize /\ Run(s, cnt) \cap free_map = {}}

First(S) == CHOOSE s \in S : \A t \in S : s =< t

free_map_allocate_NotSaved(cnt, sector) ==
    /\ Fits(cnt) # {}
    /\ sector = First(Fits(cnt))
    /\ free_map' = free_map \cup Run(sector, cnt)
    /\ UNCHANGED map_file

\* bitmap_scan_and_flip() and the bitmap_write() that may fail: the sector
\* found, -1 for BITMAP_ERROR, with free_map and its file left accordingly.
free_map_allocate(cnt, sector) ==
    \E lost \in Fails("map_write") :
        IF Fits(cnt) = {} \/ lost
        THEN sector = -1 /\ UNCHANGED <<free_map, map_file>>
        ELSE /\ sector = First(Fits(cnt))
             /\ free_map' = free_map \cup Run(sector, cnt)
             /\ map_file' = free_map'

free_map_release(sector, cnt) ==
    /\ free_map' = free_map \ Run(sector, cnt)
    /\ \E lost \in Fails("map_write") :
           map_file' = IF lost THEN map_file ELSE free_map'

----------------------------------------------------------------------------
(* Inodes, on a table of open inodes. *)

byte_to_sector(inode, pos) == inode.start + pos \div DISK_SECTOR_SIZE

\* A struct inode that is opened for the first time.
NewInode(data) ==
    [open_cnt |-> 1, removed |-> FALSE, deny_write_cnt |-> 0, data |-> data]

inode_reopen(tab, sector) == [tab EXCEPT ![sector].open_cnt = @ + 1]

inode_open(tab, sector) ==
    IF sector \in DOMAIN tab
    THEN inode_reopen(tab, sector)
    ELSE [s \in DOMAIN tab \cup {sector} |->
             IF s = sector THEN NewInode(disk[sector]) ELSE tab[s]]

\* The table after inode_close(), the release of the sectors aside.
inode_close(tab, sector) ==
    IF tab[sector].open_cnt = 1
    THEN [s \in DOMAIN tab \ {sector} |-> tab[s]]
    ELSE [tab EXCEPT ![sector].open_cnt = @ - 1]

LastClose(tab, sector) == tab[sector].open_cnt = 1 /\ tab[sector].removed

inode_remove(tab, sector) == [tab EXCEPT ![sector].removed = TRUE]

inode_deny_write(tab, sector) == [tab EXCEPT ![sector].deny_write_cnt = @ + 1]

inode_allow_write(tab, sector) == [tab EXCEPT ![sector].deny_write_cnt = @ - 1]

dir_open_root(tab) == inode_open(tab, ROOT_DIR_SECTOR)

dir_close(tab) == inode_close(tab, ROOT_DIR_SECTOR)

----------------------------------------------------------------------------
(* The root directory.  inode_read_at() returns a short read at slot end:  *)
(* the end of the file, or any slot where malloc() of the bounce buffer    *)
(* fails.                                                                  *)

ReadEnds == {EntryCnt + 1} \cup {k \in Slot : "dir_read" \in Oom}

\* The slots at which lookup() can find name, EntryCnt + 1 when it does not.
lookup(name, end) ==
    LET found == {k \in 1 .. end - 1 : entries[k] # NULL /\ entries[k].name = name}
    IN  IF found = {} THEN EntryCnt + 1 ELSE First(found)

\* The slot where dir_add() stops searching for a free one.
FreeSlot(end) == First({k \in 1 .. end - 1 : entries[k] = NULL} \cup {end})

----------------------------------------------------------------------------
(* filesys_create(). *)

Idle == pc = "idle" /\ call = NoCall

Return == pc' = "idle" /\ call' = NoCall

\* dir_open_root() and the sector of the inode.
filesys_create(name, length) ==
    /\ Idle
    /\ \E sector \in Sector :
          /\ free_map_allocate(1, sector)
          /\ call' = [NoCall EXCEPT !.name = name, !.length = length,
                                    !.sector = sector, !.dir = TRUE]
    /\ open_inodes' = dir_open_root(open_inodes)
    /\ pc' = "inode_create"
    /\ UNCHANGED <<files, entries, disk, leaked>>

\* inode_create(): calloc() and the data sectors.
inode_create ==
    /\ pc = "inode_create"
    /\ \/ /\ "disk_inode" \in Oom
          /\ pc' = "undo"
          /\ UNCHANGED <<free_map, map_file, call>>
       \/ \E start \in Sector \cup {-1} :
             /\ free_map_allocate(bytes_to_sectors(call.length), start)
             /\ IF start = -1
                THEN pc' = "undo" /\ UNCHANGED call
                ELSE pc' = "inode_write" /\ call' = [call EXCEPT !.start = start]
    /\ UNCHANGED <<open_inodes, files, entries, disk, leaked>>

\* inode_create(): the inode.
inode_write ==
    /\ pc = "inode_write"
    /\ disk' = [disk EXCEPT ![call.sector] = InodeDisk(call.start, call.length)]
    /\ pc' = "zero"
    /\ UNCHANGED <<memory, map_file, entries, call, leaked>>

\* inode_create(): zeros into the next data sector that has other contents.
ToZero == {s \in Run(call.start, bytes_to_sectors(call.length)) : disk[s] # Zeros}

inode_zero_Skip ==
    /\ pc = "zero"
    /\ pc' = "dir_add"
    /\ UNCHANGED <<memory, map_file, entries, disk, call, leaked>>

inode_zero ==
    /\ pc = "zero"
    /\ IF ToZero = {}
       THEN pc' = "dir_add" /\ UNCHANGED disk
       ELSE disk' = [disk EXCEPT ![First(ToZero)] = Zeros] /\ UNCHANGED pc
    /\ UNCHANGED <<memory, map_file, entries, call, leaked>>

\* dir_add() and, when it succeeds, dir_close().
dir_add ==
    /\ pc = "dir_add"
    /\ \E end1 \in ReadEnds, end2 \in ReadEnds, lost \in Fails("dir_write") :
          LET slot == FreeSlot(end2)
          IN  IF call.name = LongName \/ lookup(call.name, end1) =< EntryCnt
                 \/ slot > EntryCnt \/ lost
              THEN /\ pc' = "undo"
                   /\ UNCHANGED <<open_inodes, entries, call>>
              ELSE /\ entries' = [entries EXCEPT ![slot] =
                          [inode_sector |-> call.sector, name |-> call.name]]
                   /\ open_inodes' = dir_close(open_inodes)
                   /\ Return
    /\ UNCHANGED <<free_map, files, map_file, disk, leaked>>

create_failed_NoRelease ==
    /\ pc = "undo"
    /\ open_inodes' = dir_close(open_inodes)
    /\ leaked' = leaked \cup
          (IF call.start = 0 THEN {} ELSE Run(call.start, bytes_to_sectors(call.length)))
    /\ Return
    /\ UNCHANGED <<free_map, files, map_file, entries, disk>>

\* The failure path: the inode's sector is released, its data sectors are not.
create_failed ==
    /\ pc = "undo"
    /\ free_map_release(call.sector, 1)
    /\ open_inodes' = dir_close(open_inodes)
    /\ leaked' = leaked \cup
          (IF call.start = 0 THEN {} ELSE Run(call.start, bytes_to_sectors(call.length)))
    /\ Return
    /\ UNCHANGED <<files, entries, disk>>

----------------------------------------------------------------------------
(* filesys_open(), filesys_remove() and the calls on an open file. *)

Allocate(f, sector, deny) ==
    files' = [files EXCEPT ![f] = [inode |-> sector, deny_write |-> deny]]

filesys_open(name, f) ==
    /\ Idle
    /\ files[f] = NULL
    /\ \E end \in ReadEnds :
          /\ lookup(name, end) =< EntryCnt
          /\ LET sector == entries[lookup(name, end)].inode_sector
             IN  /\ open_inodes' = inode_open(open_inodes, sector)
                 /\ Allocate(f, sector, FALSE)
    /\ UNCHANGED <<free_map, map_file, entries, disk, pc, call, leaked>>

\* dir_remove() up to the entry on disk.
filesys_remove(name) ==
    /\ Idle
    /\ \E end \in ReadEnds :
          LET slot == lookup(name, end)
              sector == entries[slot].inode_sector
          IN  /\ slot =< EntryCnt
              /\ entries' = [entries EXCEPT ![slot] = NULL]
              /\ open_inodes' = inode_open(dir_open_root(open_inodes), sector)
              /\ call' = [NoCall EXCEPT !.sector = sector, !.dir = TRUE]
    /\ pc' = "inode_remove"
    /\ UNCHANGED <<free_map, files, map_file, disk, leaked>>

\* inode_close() on an inode whose last opener leaves; a removed one gives up
\* its own sector here and its data sectors in close_data.
CloseInode(sector, tab, dir) ==
    IF LastClose(tab, sector)
    THEN /\ free_map_release(sector, 1)
         /\ open_inodes' = inode_close(tab, sector)
         /\ pc' = "close_data"
         /\ call' = [NoCall EXCEPT !.sector = sector, !.dir = dir,
                                   !.start = tab[sector].data.start,
                                   !.length = tab[sector].data.length]
    ELSE /\ open_inodes' = IF dir THEN dir_close(inode_close(tab, sector))
                                  ELSE inode_close(tab, sector)
         /\ Return
         /\ UNCHANGED <<free_map, map_file>>

\* dir_remove(): inode_remove() and inode_close().
dir_remove_close ==
    /\ pc = "inode_remove"
    /\ CloseInode(call.sector, inode_remove(open_inodes, call.sector), TRUE)
    /\ UNCHANGED <<files, entries, disk, leaked>>

close_data ==
    /\ pc = "close_data"
    /\ free_map_release(call.start, bytes_to_sectors(call.length))
    /\ open_inodes' = IF call.dir THEN dir_close(open_inodes) ELSE open_inodes
    /\ Return
    /\ UNCHANGED <<files, entries, disk, leaked>>

file_reopen(f, nfile) ==
    /\ Idle
    /\ files[f] # NULL /\ files[nfile] = NULL
    /\ open_inodes' = inode_reopen(open_inodes, files[f].inode)
    /\ Allocate(nfile, files[f].inode, FALSE)
    /\ UNCHANGED <<free_map, map_file, entries, disk, pc, call, leaked>>

file_duplicate(f, nfile) ==
    /\ Idle
    /\ files[f] # NULL /\ files[nfile] = NULL
    /\ LET tab == inode_reopen(open_inodes, files[f].inode)
       IN  open_inodes' = IF files[f].deny_write
                          THEN inode_deny_write(tab, files[f].inode)
                          ELSE tab
    /\ Allocate(nfile, files[f].inode, files[f].deny_write)
    /\ UNCHANGED <<free_map, map_file, entries, disk, pc, call, leaked>>

file_deny_write(f) ==
    /\ Idle
    /\ files[f] # NULL /\ ~files[f].deny_write
    /\ open_inodes' = inode_deny_write(open_inodes, files[f].inode)
    /\ Allocate(f, files[f].inode, TRUE)
    /\ UNCHANGED <<free_map, map_file, entries, disk, pc, call, leaked>>

file_allow_write(f) ==
    /\ Idle
    /\ files[f] # NULL /\ files[f].deny_write
    /\ open_inodes' = inode_allow_write(open_inodes, files[f].inode)
    /\ Allocate(f, files[f].inode, FALSE)
    /\ UNCHANGED <<free_map, map_file, entries, disk, pc, call, leaked>>

\* A write of the byte at pos: inode_write_at() rewrites the sector around it.
inode_write_at_Unchecked(f, pos) ==
    /\ Idle
    /\ files[f] # NULL
    /\ LET inode == open_inodes[files[f].inode]
       IN  /\ pos < inode.data.length
           /\ disk' = [disk EXCEPT ![byte_to_sector(inode.data, pos)] = Bytes]
    /\ UNCHANGED <<memory, map_file, entries, pc, call, leaked>>

inode_write_at(f, pos) ==
    /\ Idle
    /\ files[f] # NULL
    /\ LET inode == open_inodes[files[f].inode]
       IN  /\ inode.deny_write_cnt = 0
           /\ pos < inode.data.length
           /\ disk' = [disk EXCEPT ![byte_to_sector(inode.data, pos)] = Bytes]
    /\ UNCHANGED <<memory, map_file, entries, pc, call, leaked>>

\* file_allow_write() and inode_close().
file_close(f) ==
    /\ Idle
    /\ files[f] # NULL
    /\ LET sector == files[f].inode
       IN  CloseInode(sector,
                      IF files[f].deny_write THEN inode_allow_write(open_inodes, sector)
                                             ELSE open_inodes,
                      FALSE)
    /\ files' = [files EXCEPT ![f] = NULL]
    /\ UNCHANGED <<entries, disk, leaked>>

----------------------------------------------------------------------------
(* Mounting, unmounting and losing power. *)

\* The sectors an inode describes: its own and those of its bytes.
DataSectors(inode) == {byte_to_sector(inode, pos) : pos \in 0 .. inode.length - 1}

Footprint(sector) == {sector} \cup DataSectors(disk[sector])

Linked == {entries[k].inode_sector : k \in {j \in Slot : entries[j] # NULL}}
System == {FREE_MAP_SECTOR, ROOT_DIR_SECTOR}

FreeMapInode == InodeDisk(2, DISK_SECTOR_SIZE)
RootDirInode == InodeDisk(3, DISK_SECTOR_SIZE)

\* The table with the free map file open.
free_map_open == [s \in {FREE_MAP_SECTOR} |-> NewInode(FreeMapInode)]

\* do_format() on a disk of zeros, then free_map_open().
FileSystemInit ==
    /\ free_map = 0 .. 3
    /\ open_inodes = free_map_open
    /\ files = [f \in File |-> NULL]
    /\ map_file = 0 .. 3
    /\ entries = [k \in Slot |-> NULL]
    /\ disk = [s \in Sector |-> CASE s = FREE_MAP_SECTOR -> FreeMapInode
                                  [] s = ROOT_DIR_SECTOR -> RootDirInode
                                  [] s = 2 -> Bytes
                                  [] OTHER -> Zeros]
    /\ pc = "idle"
    /\ call = NoCall
    /\ leaked = {}

\* filesys_done(): free_map_close() closes the file, and writes nothing.
filesys_done ==
    /\ Idle
    /\ open_inodes' = inode_close(open_inodes, FREE_MAP_SECTOR)
    /\ pc' = "done"
    /\ UNCHANGED <<free_map, files, map_file, entries, disk, call, leaked>>

\* The sectors that the call in progress has allocated or has still to release,
\* and that no inode in use describes.
Creating == pc \in {"inode_create", "inode_write", "zero", "dir_add", "undo"}

CallData == IF call.start = 0 THEN {} ELSE Run(call.start, bytes_to_sectors(call.length))

Claimed == CallData \cup (IF Creating THEN {call.sector} ELSE {})

\* Sectors marked on disk that were released in memory, by a free_map_release()
\* whose bitmap_write() failed.
Unsaved == map_file \ free_map

\* Sectors of files that were removed and that are still open.
RemovedOpen == UNION {Footprint(s) : s \in DOMAIN open_inodes \ (Linked \cup System)}

\* filesys_init(false) mounts the disk; lost are sectors that nobody knows of then.
mount(lost) ==
    /\ free_map' = map_file
    /\ open_inodes' = free_map_open
    /\ files' = [f \in File |-> NULL]
    /\ Return
    /\ leaked' = leaked \cup lost
    /\ UNCHANGED <<map_file, entries, disk>>

\* The next boot after a clean shutdown.
filesys_init == pc = "done" /\ mount(Unsaved \cup RemovedOpen)

\* The machine stops, in a call or not, and boots again.
power_failure == pc # "done" /\ mount(Unsaved \cup RemovedOpen \cup Claimed)

FileSystemNext ==
    \/ \E name \in Name, length \in Length : filesys_create(name, length)
    \/ inode_create
    \/ inode_write
    \/ inode_zero
    \/ dir_add
    \/ create_failed
    \/ \E name \in Name, f \in File : filesys_open(name, f)
    \/ \E name \in Name : filesys_remove(name)
    \/ dir_remove_close
    \/ close_data
    \/ \E f, nfile \in File : file_reopen(f, nfile) \/ file_duplicate(f, nfile)
    \/ \E f \in File : file_deny_write(f) \/ file_allow_write(f) \/ file_close(f)
    \/ \E f \in File : \E pos \in 0 .. DiskSize * DISK_SECTOR_SIZE : inode_write_at(f, pos)
    \/ filesys_done
    \/ filesys_init
    \/ power_failure

FileSystemSpec == FileSystemInit /\ [][FileSystemNext]_vars

----------------------------------------------------------------------------
(* Properties. *)

\* Inodes in use: linked in the root directory, open (perhaps removed), or the
\* file system's own.
Live == Linked \cup DOMAIN open_inodes \cup System

\* Two inodes in use never share a sector, and all their sectors are marked in
\* the free map: what free_map_allocate() hands out belongs to no file, not
\* even to a removed one that somebody still has open.
SectorsExclusive ==
    /\ \A s \in Live : disk[s].kind = "inode" /\ Footprint(s) \subseteq free_map
    /\ \A s, t \in Live : s # t => Footprint(s) \cap Footprint(t) = {}

\* The disk alone is consistent at every moment, so that a power failure
\* between any two writes of a create, a remove or a close loses at most
\* space: linked inodes are complete, disjoint and marked in the free map file,
\* and no two entries of the directory have the same name or the same inode.
DiskConsistent ==
    /\ \A s \in Linked \cup System :
          disk[s].kind = "inode" /\ Footprint(s) \subseteq map_file
    /\ \A s, t \in Linked \cup System : s # t => Footprint(s) \cap Footprint(t) = {}
    /\ \A j, k \in Slot : entries[j] # NULL /\ entries[k] # NULL /\ j # k =>
          /\ entries[j].inode_sector # entries[k].inode_sector
          /\ entries[j].name # entries[k].name

\* Between calls every marked sector is in use or was lost in one of four ways:
\* the data of a filesys_create() that fails after inode_create(), which its
\* failure path leaves marked, and at the next mount the sectors of a call that
\* a power failure cut short, those of a file that was removed but open, and those
\* of which free_map_release() could not save the release.  And the counts of
\* struct inode are exact: as many openers as open files, as many denials as
\* files that deny, never a removed inode that a name leads to.
SpaceAccounted ==
    pc = "idle" =>
        /\ free_map = (UNION {Footprint(s) : s \in Live}) \cup leaked
        /\ DOMAIN open_inodes =
              {FREE_MAP_SECTOR} \cup {files[f].inode : f \in {g \in File : files[g] # NULL}}
        /\ \A s \in DOMAIN open_inodes \ {FREE_MAP_SECTOR} :
              LET openers == {f \in File : files[f] # NULL /\ files[f].inode = s}
              IN  /\ open_inodes[s].open_cnt = Cardinality(openers)
                  /\ open_inodes[s].deny_write_cnt =
                        Cardinality({f \in openers : files[f].deny_write})
                  /\ open_inodes[s].removed <=> s \notin Linked

\* As long as a file denies writes, no step changes a sector of its inode,
\* whoever makes it and even if the file was removed meanwhile.
DeniedUnchanged ==
    [][\A f \in File : files[f] # NULL /\ files'[f] # NULL =>
          (files[f].deny_write =>
              \A s \in Footprint(files[f].inode) : disk'[s] = disk[s])]_vars

\* A file is all zeros when its name appears: nothing of a file that had its
\* sectors before shows through.
NewFilesZero ==
    [][\A k \in Slot : entries'[k] # NULL /\ entries[k] = NULL =>
          \A s \in DataSectors(disk'[entries'[k].inode_sector]) : disk'[s] = Zeros]_vars

\* dir_add() writes its entry only over a slot that is free.
EntriesKept ==
    [][\A k \in Slot : entries[k] # NULL /\ entries'[k] # NULL =>
          entries'[k] = entries[k]]_vars

\* free_map_close() "Writes the free map to disk and closes the free map file"
\* (free-map.c:57): after filesys_done() the file holds the map.
FreeMapSaved == pc = "done" => map_file = free_map

----------------------------------------------------------------------------
(* The inductive invariant. *)

Inode == [kind : {"inode"}, start : Sector, length : Nat]
OpenInode == [open_cnt : Nat \ {0}, removed : BOOLEAN, deny_write_cnt : Nat, data : Inode]
Call == [name : Name, length : Nat, sector : Sector, start : Sector, dir : BOOLEAN]

FileSystemTypeOK ==
    /\ free_map \subseteq Sector /\ map_file \subseteq Sector /\ leaked \subseteq Sector
    /\ DOMAIN open_inodes \subseteq Sector
    /\ open_inodes \in [DOMAIN open_inodes -> OpenInode]
    /\ files \in [File -> OpenFile \cup {NULL}]
    /\ entries \in [Slot -> DirEntry \cup {NULL}]
    /\ disk \in [Sector -> Inode \cup {Zeros, Bytes}]
    /\ pc \in {"idle", "inode_create", "inode_write", "zero", "dir_add", "undo", "inode_remove",
               "close_data", "done"}
    /\ call \in Call

\* What the call in progress has done so far.
CallOK ==
    /\ pc \in {"idle", "done"} => call = NoCall
    /\ pc \in {"inode_create", "inode_remove"} => call.start = 0
    /\ Creating \/ pc = "inode_remove" => call.dir
    /\ pc \in {"inode_write", "zero", "dir_add", "close_data"} /\ call.start = 0 =>
          bytes_to_sectors(call.length) = 0
    /\ Creating => call.sector \notin CallData
    /\ pc \in {"zero", "dir_add"} => disk[call.sector] = InodeDisk(call.start, call.length)
    /\ pc = "dir_add" => \A s \in CallData : disk[s] = Zeros

\* Every sector marked in the free map has one owner, an inode in use or the
\* call in progress, or was leaked.
OneOwner ==
    /\ \A s \in Live : disk[s] \in Inode /\ s \notin DataSectors(disk[s])
    /\ \A s, t \in Live : s # t => Footprint(s) \cap Footprint(t) = {}
    /\ \A s \in Live : Footprint(s) \subseteq free_map \ (Claimed \cup leaked)
    /\ Claimed \subseteq free_map \ leaked
    /\ leaked \subseteq free_map
    /\ \A x \in free_map \ (Claimed \cup leaked) : \E s \in Live : x \in Footprint(s)
    /\ free_map \subseteq map_file
    /\ disk[FREE_MAP_SECTOR] = FreeMapInode /\ disk[ROOT_DIR_SECTOR] = RootDirInode

\* The root directory names every inode at most once, and none of the system's.
EntriesOK ==
    /\ Linked \cap System = {}
    /\ \A j, k \in Slot : entries[j] # NULL /\ entries[k] # NULL /\ j # k =>
          /\ entries[j].inode_sector # entries[k].inode_sector
          /\ entries[j].name # entries[k].name

Openers(s) == {f \in File : files[f] # NULL /\ files[f].inode = s}
Deniers(s) == {f \in Openers(s) : files[f].deny_write}

\* dir_remove() between its write and inode_close().
Removing(s) == pc = "inode_remove" /\ s = call.sector

\* What the file system itself has open.
Internal(s) ==
    (IF s = FREE_MAP_SECTOR /\ pc # "done" THEN 1 ELSE 0)
    + (IF s = ROOT_DIR_SECTOR /\ call.dir THEN 1 ELSE 0)
    + (IF Removing(s) THEN 1 ELSE 0)

OpenCnt(tab, s) == IF s \in DOMAIN tab THEN tab[s].open_cnt ELSE 0
DenyCnt(tab, s) == IF s \in DOMAIN tab THEN tab[s].deny_write_cnt ELSE 0

\* The counts of struct inode are exact at every moment.
CountsExact ==
    \A s \in Sector :
        /\ OpenCnt(open_inodes, s) = Cardinality(Openers(s)) + Internal(s)
        /\ DenyCnt(open_inodes, s) = Cardinality(Deniers(s))

\* A struct inode mirrors its sector, and is marked as removed from the moment
\* dir_remove() has erased its name.
InodesExact ==
    /\ \A s \in DOMAIN open_inodes :
          /\ open_inodes[s].data = disk[s]
          /\ open_inodes[s].removed <=> s \notin Linked \cup System /\ ~Removing(s)
    /\ pc = "inode_remove" => call.sector \notin Linked \cup System
    /\ \A f \in File : files[f] # NULL => files[f].inode \notin System

FileSystemInv ==
    FileSystemTypeOK /\ CallOK /\ OneOwner /\ EntriesOK /\ CountsExact /\ InodesExact
=============================================================================
