----------------------------- MODULE FileBytes ------------------------------
(***************************************************************************)
(* The bytes of one open file (filesys/inode.c, filesys/file.c): reads and *)
(* writes at any offset, cut into sectors that go to the disk whole or     *)
(* through a bounce buffer, whose allocation may fail.  Module FileSystem  *)
(* has the sectors and the openers; here a file has its sectors, numbered  *)
(* from 0, and the length with which it was created.                       *)
(***************************************************************************)
EXTENDS Integers, Sequences, SequencesExt, FiniteSetsExt

CONSTANTS
    SectorBytes,       \* DISK_SECTOR_SIZE
    FileLength,
    Sizes, Offsets,    \* arguments of the calls
    EntryBytes         \* sizeof (struct dir_entry)

VARIABLES
    sectors,           \* on the disk
    file,              \* struct file: pos, deny_write; NotOpen before file_open()
    wanted             \* the bytes and the position that the file should have

fileVars == <<sectors, file, wanted>>

ZeroSector == [i \in 1 .. SectorBytes |-> 0]
Buffer(size) == [i \in 1 .. size |-> i]      \* what a write is given

----------------------------------------------------------------------------
(* inode.c; no_memory: the malloc() of the bounce buffer fails.            *)

ChunkSize(size, offset) ==
    Min({size, FileLength - offset, SectorBytes - (offset % SectorBytes)})

\* A whole sector is moved without the bounce buffer.
Stops(chunk, no_memory) == chunk <= 0 \/ (chunk < SectorBytes /\ no_memory)

RECURSIVE inode_read_at(_, _, _, _)
inode_read_at(disk, size, offset, no_memory) ==
    LET chunk == ChunkSize(size, offset)
        ofs == offset % SectorBytes
    IN  IF Stops(chunk, no_memory) THEN <<>>
        ELSE SubSeq(disk[offset \div SectorBytes], ofs + 1, ofs + chunk)
             \o inode_read_at(disk, size - chunk, offset + chunk, no_memory)

bounce_NotRead(sector, ofs, chunk) == ZeroSector

\* What is in the sector before and after the chunk.
bounce(sector, ofs, chunk) == IF ofs > 0 \/ chunk < SectorBytes - ofs THEN sector ELSE ZeroSector

RECURSIVE WriteFrom(_, _, _, _, _)
WriteFrom(disk, buffer, offset, bytes_written, no_memory) ==
    LET chunk == ChunkSize(Len(buffer) - bytes_written, offset)
        ofs == offset % SectorBytes
        old == bounce(disk[offset \div SectorBytes], ofs, chunk)
        new == [i \in 1 .. SectorBytes |->
                   IF i \in ofs + 1 .. ofs + chunk THEN buffer[bytes_written + i - ofs] ELSE old[i]]
    IN  IF Stops(chunk, no_memory) THEN [disk |-> disk, size |-> bytes_written]
        ELSE WriteFrom([disk EXCEPT ![offset \div SectorBytes] = new],
                       buffer, offset + chunk, bytes_written + chunk, no_memory)

inode_write_at(disk, buffer, offset, no_memory) ==
    IF file.deny_write THEN [disk |-> disk, size |-> 0]
    ELSE WriteFrom(disk, buffer, offset, 0, no_memory)

\* The names that calls of dir_readdir() from pos on return; an entry is its flag
\* in_use, its name and the rest.
RECURSIVE dir_readdir(_)
dir_readdir(pos) ==
    LET e == inode_read_at(sectors, EntryBytes, pos, FALSE)
    IN  IF Len(e) # EntryBytes THEN <<>>
        ELSE (IF e[1] # 0 THEN <<e[2]>> ELSE <<>>) \o dir_readdir(pos + EntryBytes)

----------------------------------------------------------------------------
(* file.c *)

NotOpen == [pos |-> -1, deny_write |-> FALSE]

\* A file that inode_create() has made.
FilesInit ==
    /\ sectors = [i \in 0 .. (FileLength - 1) \div SectorBytes |-> ZeroSector]
    /\ file = NotOpen
    /\ wanted = [bytes |-> [i \in 1 .. FileLength |-> 0], pos |-> 0]

file_open ==
    /\ file = NotOpen
    /\ file' = [pos |-> 0, deny_write |-> FALSE]
    /\ UNCHANGED <<sectors, wanted>>

\* Bytes of the file that a call for size bytes at offset can move.
Room(size, offset) == Max({0, Min({size, FileLength - offset})})

Overwrite(bytes, offset, n) ==
    [i \in 1 .. FileLength |-> IF i \in offset + 1 .. offset + n THEN i - offset ELSE bytes[i]]

file_read(size, no_memory) ==
    LET n == Len(inode_read_at(sectors, size, file.pos, no_memory))
    IN  /\ file' = [file EXCEPT !.pos = @ + n]
        /\ wanted' = [wanted EXCEPT !.pos = @ + IF no_memory THEN n ELSE Room(size, @)]
        /\ UNCHANGED sectors

\* A write at offset; file_write() passes the position and moves it.
Write(size, offset, no_memory, moves) ==
    LET r == inode_write_at(sectors, Buffer(size), offset, no_memory)
        n == IF no_memory THEN r.size ELSE IF file.deny_write THEN 0 ELSE Room(size, offset)
    IN  /\ sectors' = r.disk
        /\ file' = [file EXCEPT !.pos = IF moves THEN @ + r.size ELSE @]
        /\ wanted' = [bytes |-> Overwrite(wanted.bytes, offset, n),
                      pos |-> IF moves THEN wanted.pos + n ELSE wanted.pos]

file_write(size, no_memory) == Write(size, file.pos, no_memory, TRUE)

file_write_at(size, offset, no_memory) == Write(size, offset, no_memory, FALSE)

file_seek(offset) ==
    /\ file' = [file EXCEPT !.pos = offset]
    /\ wanted' = [wanted EXCEPT !.pos = offset]
    /\ UNCHANGED sectors

file_deny_write == file' = [file EXCEPT !.deny_write = TRUE] /\ UNCHANGED <<sectors, wanted>>
file_allow_write == file' = [file EXCEPT !.deny_write = FALSE] /\ UNCHANGED <<sectors, wanted>>

FilesNext ==
    \/ file_open
    \/ /\ file # NotOpen
       /\ \/ \E size \in Sizes, no_memory \in BOOLEAN :
                \/ file_read(size, no_memory) \/ file_write(size, no_memory)
                \/ \E offset \in Offsets : file_write_at(size, offset, no_memory)
          \/ \E offset \in Offsets : file_seek(offset)
          \/ file_deny_write \/ file_allow_write

----------------------------------------------------------------------------

\* However a file is read and written, through its position or at offsets, over
\* sector boundaries, beyond its end, with or without memory for the bounce buffer,
\* it holds the bytes of the writes in their order and has the position of its own
\* calls; a read returns those bytes up to the end, a part of them from the start
\* if memory runs out; bytes behind the end stay zero; and dir_readdir() returns
\* every entry in use once (inode.c:178-288, file.c:67-161, directory.c:201-216).
FilesExact ==
    LET stored == FlattenSeq([i \in 1 .. Cardinality(DOMAIN sectors) |-> sectors[i - 1]])
        Start(k) == (k - 1) * EntryBytes
        entries == [k \in 1 .. FileLength \div EntryBytes |-> k]
    IN  file # NotOpen =>
        /\ wanted.bytes = SubSeq(stored, 1, FileLength) /\ wanted.pos = file.pos
        /\ \A i \in FileLength + 1 .. Len(stored) : stored[i] = 0
        /\ \A size \in Sizes, offset \in Offsets :
              LET expected == SubSeq(wanted.bytes, offset + 1, offset + Room(size, offset))
              IN  /\ inode_read_at(sectors, size, offset, FALSE) = expected
                  /\ IsPrefix(inode_read_at(sectors, size, offset, TRUE), expected)
        /\ dir_readdir(0) = LET used == SelectSeq(entries, LAMBDA k : wanted.bytes[Start(k) + 1] # 0)
                            IN  [k \in DOMAIN used |-> wanted.bytes[Start(used[k]) + 2]]

=============================================================================
