-------------------------------- MODULE Boot ---------------------------------
(***************************************************************************)
(* The kernel command line (threads/init.c), its actions on files          *)
(* (filesys/fsutil.c) and the generator that -rs seeds (lib/random.c).  The*)
(* file system is what module FileSystem promises: files with contents; the*)
(* scratch disk is a sequence of sectors, of which one with a signature    *)
(* holds the size of the file behind it.  A word of the command line is an *)
(* option with its value, or plain; all have the same length.              *)
(***************************************************************************)
EXTENDS Integers, Sequences, SequencesExt, FiniteSetsExt, TLC

CONSTANTS
    OldFiles,          \* contents of the file system before the boot
    Archive,           \* files that the host has put on the scratch disk
    DISK_SECTOR_SIZE,
    DiskSize,          \* sectors of the scratch disk
    FsRoom,            \* bytes that the file system has room for
    LOADER_ARGS_LEN, WordLen,
    SBox               \* 256: entries of the generator's table, and values of a byte

VARIABLES
    boot_line,         \* the command line
    argv,              \* words of it that are not done
    boot,              \* "start", "options", "actions", "off", "exit", "panic"
    option,            \* the variables that options set
    fs,                \* files and their contents
    scratch,           \* the scratch disk
    put_sector, get_sector,
    console            \* what actions have printed or run

bootVars == <<boot_line, argv, boot, option, fs, scratch, put_sector, get_sector, console>>

Word(name, value) == [name |-> name, value |-> value]
NoValue == -1
IsOption(w) == w.name \in {"-h", "-q", "-f", "-rs", "-mlfqs", "-ul", "-threads-tests", "-x"}

----------------------------------------------------------------------------
(* random.c *)

swap_byte(s, a, b) == [s EXCEPT ![a] = s[b], ![b] = s[a]]

\* An unsigned has the bytes of a little-endian number with digits 0 .. SBox - 1.
seedp(seed, i) == (seed \div SBox^(i % 4)) % SBox

random_init(seed) ==
    LET step(r, i) == LET j == (r.j + r.s[i] + seedp(seed, i)) % SBox
                      IN  [s |-> swap_byte(r.s, i, j), j |-> j]
        mixed == FoldLeft(step, [s |-> [i \in 0 .. SBox - 1 |-> i], j |-> 0], [i \in 1 .. SBox |-> i - 1])
    IN  [s |-> mixed.s, i |-> 0, j |-> 0, bytes |-> <<>>]

random_byte(r) ==
    LET i == (r.i + 1) % SBox
        j == (r.j + r.s[i]) % SBox
        s == swap_byte(r.s, i, j)
    IN  [s |-> s, i |-> i, j |-> j, bytes |-> Append(r.bytes, s[(s[i] + s[j]) % SBox])]

random_bytes(r, size) == FoldLeft(LAMBDA q, k : random_byte(q), r, [k \in 1 .. size |-> k])

----------------------------------------------------------------------------
(* fsutil.c: functions of the state that an action of the command line has *)
(* in its hands; a failure panics.                                         *)

Panic(u) == [u EXCEPT !.boot = "panic"]

chunks_Whole(size) == size \div DISK_SECTOR_SIZE

\* Rounds of the copying loop.
chunks(size) == (size + DISK_SECTOR_SIZE - 1) \div DISK_SECTOR_SIZE

chunk_size(size, k) == Min({size - (k - 1) * DISK_SECTOR_SIZE, DISK_SECTOR_SIZE})

fsutil_ls(u) == [u EXCEPT !.console = Append(@, <<"ls", DOMAIN u.fs>>)]

fsutil_cat(u, name) ==
    IF name \notin DOMAIN u.fs THEN Panic(u) ELSE [u EXCEPT !.console = Append(@, <<"cat", u.fs[name]>>)]

fsutil_rm(u, name) ==
    IF name \notin DOMAIN u.fs THEN Panic(u)
    ELSE [u EXCEPT !.fs = [n \in DOMAIN u.fs \ {name} |-> u.fs[n]]]

\* filesys_create() fails if the name is taken or the disk is full.
filesys_create(u, name, size) ==
    name \notin DOMAIN u.fs /\ MapThenSumSet(LAMBDA n : Len(u.fs[n]), DOMAIN u.fs) + size <= FsRoom

Zeros(n) == [i \in 1 .. n |-> 0]

\* disk_read() and disk_write() have an ASSERT that the sector exists; what was
\* copied before it fails stays.
fsutil_put(u, name) ==
    LET head == u.put_sector + 1
        size == u.scratch[head].size
        n == Min({chunks(size), DiskSize - head})
        Copy(data, k) == data \o SubSeq(u.scratch[head + k].data, 1, chunk_size(size, k))
        copied == FoldLeft(Copy, <<>>, [k \in 1 .. n |-> k])
        v == [u EXCEPT !.fs = (name :> copied \o Zeros(size - Len(copied))) @@ u.fs, !.put_sector = head + n]
    IN  IF u.put_sector >= DiskSize THEN Panic(u)
        ELSE IF u.scratch[head].sig # "PUT" \/ ~filesys_create(u, name, size) THEN Panic(u)
        ELSE IF n < chunks(size) THEN Panic(v)
        ELSE v

Header(sig, size) == [sig |-> sig, size |-> size, data |-> Zeros(DISK_SECTOR_SIZE)]
DataSector(data) == [sig |-> "none", size |-> 0, data |-> data \o Zeros(DISK_SECTOR_SIZE - Len(data))]

fsutil_get(u, name) ==
    LET size == Len(u.fs[name])
        head == u.get_sector + 1
        n == Min({chunks(size), DiskSize - head})
        Chunk(k) == SubSeq(u.fs[name], (k - 1) * DISK_SECTOR_SIZE + 1, (k - 1) * DISK_SECTOR_SIZE + chunk_size(size, k))
        Copy(disk, k) == [disk EXCEPT ![head + k] = DataSector(Chunk(k))]
        v == [u EXCEPT !.scratch = FoldLeft(Copy, [@ EXCEPT ![head] = Header("GET", size)], [k \in 1 .. n |-> k]),
                       !.get_sector = head + n]
    IN  IF name \notin DOMAIN u.fs \/ u.get_sector >= DiskSize THEN Panic(u)
        ELSE IF n < chunks(size) THEN Panic(v)                      \* out of space on scratch disk
        ELSE v

run_task(u, task) ==
    [u EXCEPT !.console = Append(@, <<IF option.thread_tests THEN "test" ELSE "process", task>>)]

----------------------------------------------------------------------------
(* init.c *)

Encode(files) ==
    FlattenSeq([f \in 1 .. Len(files) |->
        <<Header("PUT", Len(files[f]))>> \o
        [k \in 1 .. (Len(files[f]) + DISK_SECTOR_SIZE - 1) \div DISK_SECTOR_SIZE |->
            DataSector(SubSeq(files[f], (k - 1) * DISK_SECTOR_SIZE + 1, Min({k * DISK_SECTOR_SIZE, Len(files[f])})))]])

\* A boot with one of the command lines in lines, which are sequences of words.
BootInit(lines) ==
    /\ argv = <<>> /\ boot = "start"
    /\ option = [power_off |-> FALSE, format |-> FALSE, mlfqs |-> FALSE, thread_tests |-> FALSE,
                 random |-> random_init(0), user_page_limit |-> NoValue]
    /\ fs = OldFiles
    /\ scratch = Encode(Archive) \o [k \in 1 .. DiskSize - Len(Encode(Archive)) |-> DataSector(<<>>)]
    /\ put_sector = 0 /\ get_sector = 0 /\ console = <<>>
    /\ boot_line \in lines

\* The i-th word starts behind i words and their terminators.
read_command_line ==
    /\ boot = "start"
    /\ IF \E i \in 0 .. Len(boot_line) - 1 : i * (WordLen + 1) >= LOADER_ARGS_LEN
       THEN boot' = "panic" /\ UNCHANGED argv
       ELSE boot' = "options" /\ argv' = boot_line
    /\ UNCHANGED <<boot_line, option, fs, scratch, put_sector, get_sector, console>>

\* One round of parse_options(); atoi (NULL) faults in the kernel, which panics.
parse_options ==
    /\ boot = "options" /\ argv # <<>> /\ IsOption(Head(argv))
    /\ LET w == Head(argv)
           Set(o) == option' = o /\ UNCHANGED boot
           Stop(b) == boot' = b /\ UNCHANGED option
       IN  CASE w.name = "-h" -> Stop("off")
             [] w.name = "-q" -> Set([option EXCEPT !.power_off = TRUE])
             [] w.name = "-f" -> Set([option EXCEPT !.format = TRUE])
             [] w.name = "-mlfqs" -> Set([option EXCEPT !.mlfqs = TRUE])
             [] w.name = "-threads-tests" -> Set([option EXCEPT !.thread_tests = TRUE])
             [] w.name \in {"-rs", "-ul"} /\ w.value = NoValue -> Stop("panic")
             [] w.name = "-rs" /\ w.value # NoValue -> Set([option EXCEPT !.random = random_init(w.value)])
             [] w.name = "-ul" /\ w.value # NoValue -> Set([option EXCEPT !.user_page_limit = w.value])
             [] OTHER -> Stop("panic")
    /\ argv' = Tail(argv)
    /\ UNCHANGED <<boot_line, fs, scratch, put_sector, get_sector, console>>

\* The rest of main() up to "Boot complete."; filesys_init() may format.
main_boot ==
    /\ boot = "options" /\ (argv # <<>> => ~IsOption(Head(argv)))
    /\ boot' = "actions"
    /\ fs' = IF option.format THEN <<>> ELSE fs
    /\ UNCHANGED <<boot_line, argv, option, scratch, put_sector, get_sector, console>>

\* The table of actions: words that each takes.
actions == [run |-> 2, ls |-> 1, cat |-> 2, rm |-> 2, put |-> 2, get |-> 2]

\* One round of run_actions().
run_actions ==
    /\ boot = "actions" /\ argv # <<>>
    /\ LET name == Head(argv).name
           arg == argv[2].name
           u == [boot |-> boot, fs |-> fs, scratch |-> scratch, put_sector |-> put_sector,
                 get_sector |-> get_sector, console |-> console]
           v == CASE name = "run" -> run_task(u, arg)
                  [] name = "ls" -> fsutil_ls(u)
                  [] name = "cat" -> fsutil_cat(u, arg)
                  [] name = "rm" -> fsutil_rm(u, arg)
                  [] name = "put" -> fsutil_put(u, arg)
                  [] name = "get" -> fsutil_get(u, arg)
       IN  IF name \notin DOMAIN actions
           THEN boot' = "panic" /\ UNCHANGED <<argv, fs, scratch, put_sector, get_sector, console>>
           ELSE IF Len(argv) < actions[name]
           THEN boot' = "panic" /\ UNCHANGED <<argv, fs, scratch, put_sector, get_sector, console>>
           ELSE /\ boot' = v.boot /\ fs' = v.fs /\ scratch' = v.scratch /\ console' = v.console
                /\ put_sector' = v.put_sector /\ get_sector' = v.get_sector
                /\ argv' = SubSeq(argv, actions[name] + 1, Len(argv))
    /\ UNCHANGED <<boot_line, option>>

\* The end of main(): power_off() or thread_exit().
main_end ==
    /\ boot = "actions" /\ argv = <<>>
    /\ boot' = IF option.power_off THEN "off" ELSE "exit"
    /\ UNCHANGED <<boot_line, argv, option, fs, scratch, put_sector, get_sector, console>>

BootNext == read_command_line \/ parse_options \/ main_boot \/ run_actions \/ main_end

----------------------------------------------------------------------------
(* What the words mean.                                                    *)

FirstAction == Min({i \in 1 .. Len(boot_line) : ~IsOption(boot_line[i])} \cup {Len(boot_line) + 1})

\* The actions among the first n words, as <<name, argument>>.
RECURSIVE Commands(_)
Commands(words) ==
    IF words = <<>> THEN <<>>
    ELSE LET n == actions[words[1].name]
         IN  <<<<words[1].name, IF n = 2 THEN words[2].name ELSE "">>>> \o Commands(SubSeq(words, n + 1, Len(words)))

\* Files, copies made and things seen, when whole files are moved.
Do(m, c) ==
    CASE c[1] = "put" -> [m EXCEPT !.files = (c[2] :> Archive[m.puts + 1]) @@ m.files, !.puts = @ + 1]
      [] c[1] = "get" -> [m EXCEPT !.copies = Append(@, m.files[c[2]])]
      [] c[1] = "rm"  -> [m EXCEPT !.files = [n \in DOMAIN m.files \ {c[2]} |-> m.files[n]]]
      [] c[1] = "cat" -> [m EXCEPT !.seen = Append(@, <<"cat", m.files[c[2]]>>)]
      [] c[1] = "ls"  -> [m EXCEPT !.seen = Append(@, <<"ls", DOMAIN m.files>>)]
      [] c[1] = "run" -> [m EXCEPT !.seen = Append(@, <<IF option.thread_tests THEN "test" ELSE "process", c[2]>>)]

Has(name) == \E i \in 1 .. FirstAction - 1 : boot_line[i].name = name

\* The options were read, nothing has panicked, and the machine is not off for -h.
Booted == boot \in {"actions", "exit"} \/ (boot = "off" /\ ~Has("-h"))

\* What the host reads off the scratch disk from sector i on.
RECURSIVE Decode(_)
Decode(i) ==
    IF i > get_sector THEN <<>>
    ELSE LET n == (scratch[i].size + DISK_SECTOR_SIZE - 1) \div DISK_SECTOR_SIZE
             bytes == FlattenSeq([k \in 1 .. n |-> scratch[i + k].data])
         IN  <<SubSeq(bytes, 1, scratch[i].size)>> \o Decode(i + 1 + n)

\* Until something panics, the actions done so far have the effect that moving whole
\* files has, in the order of the command line: the k-th put makes the k-th file of
\* the host's archive, whatever the sizes and however often, and the host finds on
\* the scratch disk the files as they were when they were got (fsutil.c:65-189).
\* Options hold wherever they stand among the options, none after the first action
\* is taken for one, and without -f the files of the last boot are there
\* (init.c:203-300).  The generator's table stays a permutation, and the bytes it
\* gives do not depend on how many are asked for at a time (random.c:34-66).
CommandsExact ==
    /\ Booted =>
          LET m == FoldLeft(Do, [files |-> IF Has("-f") THEN <<>> ELSE OldFiles, puts |-> 0, copies |-> <<>>, seen |-> <<>>],
                            Commands(SubSeq(boot_line, FirstAction, Len(boot_line) - Len(argv))))
          IN  fs = m.files /\ Decode(1) = m.copies /\ console = m.seen
    /\ Booted => (option.power_off <=> Has("-q")) /\ (option.mlfqs <=> Has("-mlfqs"))
    /\ boot = "exit" => ~Has("-q")
    /\ {option.random.s[i] : i \in 0 .. SBox - 1} = 0 .. SBox - 1
    /\ boot = "options" => \A n \in 0 .. 4 :
          random_bytes(random_bytes(option.random, n), 4 - n) = random_bytes(option.random, 4)

=============================================================================
