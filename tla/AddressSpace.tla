---------------------------- MODULE AddressSpace -----------------------------
(***************************************************************************)
(* User processes (userprog/process.c, syscall.c, exception.c, tss.c) on   *)
(* the page tables of module Mmu: the main thread starts processes, each   *)
(* loads its program, runs in user mode and exits.  process_wait() returns *)
(* at once, so that processes live side by side.  The kernel is preemptible*)
(* here: a thread switch may happen between any two steps.  A step calls   *)
(* the page allocator at most once, but for a walk that makes tables.      *)
(*                                                                         *)
(* A page has PageSize bytes; a byte of a page is the offset in the        *)
(* program's file that it was read from, 0 for a zero.                     *)
(***************************************************************************)
EXTENDS Mmu, Sequences

CONSTANTS
    Process, main,  \* threads
    UserFrames,     \* size of the user pool
    PageSize,
    KERN_BASE,      \* end of the user addresses
    AddressLimit,   \* addresses are unsigned numbers below it
    StackPage,      \* the page below USER_STACK
    Boots           \* sizes of the kernel pool with the files to run

ASSUME AddressSpaceAssumption ==
    /\ main \notin Process /\ NULL \notin Process \cup {main}
    /\ {UserFrames, PageSize} \subseteq Nat \ {0}

VARIABLES
    m,        \* memory: free pages and contents
    current,  \* running thread
    cr3,      \* active page table: a PML4, or NULL for base_pml4
    rsp0,     \* thread whose kernel stack the TSS names
    stage,    \* where each process is
    pml4,     \* member of struct thread
    page,     \* pages that a process has: its struct thread, fn_copy, the
              \* PML4 that process_cleanup() is destroying, kpage of load()
    prog,     \* the file that a process loads
    at,       \* position of load(): segment and page in it
    destruction_req  \* dead threads whose page is still to be freed

spaceVars == <<m, current, cr3, rsp0, stage, pml4, page, prog, at, destruction_req>>
cpu == <<current, cr3, rsp0, destruction_req>>

Panicked == \E p \in Process : stage[p] = "panic"
Proceed(p, label) == stage' = [stage EXCEPT ![p] = label]
Runs(p, label) == current = p /\ stage[p] = label
Keep(p, field, value) == page' = [page EXCEPT ![p][field] = value]

Garbage == [i \in 0 .. PageSize - 1 |-> -1]

AddressSpaceInit ==
    /\ \E boot \in Boots :
          /\ m = [kfree |-> 1 .. boot.kpages, ufree |-> 101 .. 100 + UserFrames, mem |-> <<>>]
          /\ prog = boot.prog
    /\ current = main /\ cr3 = NULL /\ rsp0 = main
    /\ stage = [p \in Process |-> "none"]
    /\ pml4 = [p \in Process |-> NULL]
    /\ page = [p \in Process |-> [thread |-> NULL, fn_copy |-> NULL, old |-> NULL, kpage |-> NULL]]
    /\ at = [p \in Process |-> <<1, 0>>]
    /\ destruction_req = {}

----------------------------------------------------------------------------
(* The main thread: run_task(). *)

\* process_create_initd(): the copy of the file name.
process_create_initd(p) ==
    /\ current = main /\ stage[p] = "none"
    /\ \A q \in Process : stage[q] # "create"
    /\ IF m.kfree = {} THEN Proceed(p, "failed") /\ UNCHANGED <<m, page>>
       ELSE Proceed(p, "create") /\ m' = Get(m, "fn_copy") /\ Keep(p, "fn_copy", Got(m))
    /\ UNCHANGED <<cpu, pml4, prog, at>>

\* thread_create(), whose failure frees the copy.
thread_create(p) ==
    /\ current = main /\ stage[p] = "create"
    /\ IF m.kfree = {}
       THEN Proceed(p, "failed") /\ m' = Free(m, {page[p].fn_copy}) /\ Keep(p, "fn_copy", NULL)
       ELSE Proceed(p, "cleanup") /\ m' = Get(m, "thread") /\ Keep(p, "thread", Got(m))
    /\ UNCHANGED <<cpu, pml4, prog, at>>

----------------------------------------------------------------------------
(* Thread switches. *)

Runnable == {main} \cup {q \in Process : stage[q] \notin {"none", "create", "failed", "dead"}}
Dying == {p \in Process : current = p /\ stage[p] = "dying"}

\* A switch to NEXT, by thread_block() or else by do_schedule(), which first
\* frees the pages of the threads that died before.  process_activate (next)
\* loads the CPU; thread_launch() switches stacks.
schedule(next, blocks) ==
    /\ next \in Runnable \ {current}
    /\ blocks => Dying = {} /\ (current \in Process => stage[current] # "user")
    /\ current' = next
    /\ cr3' = IF next = main THEN NULL ELSE pml4[next]
    /\ rsp0' = next
    /\ LET reaped == IF blocks THEN {} ELSE destruction_req
       IN  /\ m' = Free(m, {page[d].thread : d \in reaped})
           /\ page' = [p \in Process |-> IF p \in reaped THEN [page[p] EXCEPT !.thread = NULL] ELSE page[p]]
           /\ destruction_req' = (destruction_req \ reaped) \cup Dying
    /\ stage' = [p \in Process |-> IF p \in Dying THEN "dead" ELSE stage[p]]
    /\ UNCHANGED <<pml4, prog, at>>

----------------------------------------------------------------------------
(* process_cleanup(), called by process_exec() and by process_exit().  The *)
(* former still has the copy of the file name.                             *)

Back(p) == IF page[p].fn_copy # NULL THEN "pml4_create" ELSE "dying"

\* pml4 = curr->pml4; if it is not NULL, curr->pml4 = NULL.
process_cleanup(p) ==
    /\ Runs(p, "cleanup")
    /\ Proceed(p, IF pml4[p] = NULL THEN Back(p) ELSE "deactivate")
    /\ Keep(p, "old", pml4[p])
    /\ pml4' = [pml4 EXCEPT ![p] = NULL]
    /\ UNCHANGED <<m, cpu, prog, at>>

cleanup_activate_Skip(p) ==
    /\ Runs(p, "deactivate")
    /\ Proceed(p, "destroy")
    /\ UNCHANGED <<m, cpu, pml4, page, prog, at>>

\* pml4_activate (NULL)
cleanup_activate(p) ==
    /\ Runs(p, "deactivate")
    /\ cr3' = NULL
    /\ Proceed(p, "destroy")
    /\ UNCHANGED <<m, current, rsp0, destruction_req, pml4, page, prog, at>>

\* pml4_destroy (pml4)
cleanup_destroy(p) ==
    /\ Runs(p, "destroy")
    /\ m' = pml4_destroy(m, page[p].old)
    /\ Keep(p, "old", NULL)
    /\ Proceed(p, Back(p))
    /\ UNCHANGED <<cpu, pml4, prog, at>>

----------------------------------------------------------------------------
(* load() *)

load_create(p) ==
    /\ Runs(p, "pml4_create")
    /\ IF m.kfree = {} THEN Proceed(p, "load_failed") /\ UNCHANGED <<m, pml4>>
       ELSE /\ Proceed(p, "activate")
            /\ m' = Get(m, EmptyTable)
            /\ pml4' = [pml4 EXCEPT ![p] = Got(m)]
    /\ UNCHANGED <<cpu, page, prog, at>>

\* process_activate (thread_current ())
load_activate(p) ==
    /\ Runs(p, "activate")
    /\ cr3' = pml4[p] /\ rsp0' = p
    /\ Proceed(p, "open")
    /\ UNCHANGED <<m, current, destruction_req, pml4, page, prog, at>>

\* Opens the file and verifies its header; either may fail.
load_open(p) ==
    /\ Runs(p, "open")
    /\ \/ prog[p].elf /\ Proceed(p, "headers")
       \/ Proceed(p, "load_failed")
    /\ UNCHANGED <<m, cpu, pml4, page, prog, at>>

PageFloor(n) == n - (n % PageSize)
PageCount(n) == (n + PageSize - 1) \div PageSize
is_user_vaddr(va) == va < KERN_BASE

validate_segment(h, f) ==
    /\ h.offset % PageSize = h.vaddr % PageSize
    /\ h.offset <= f.length
    /\ h.memsz >= h.filesz
    /\ h.memsz > 0
    /\ is_user_vaddr(h.vaddr)
    /\ is_user_vaddr((h.vaddr + h.memsz) % AddressLimit)
    /\ (h.vaddr + h.memsz) % AddressLimit >= h.vaddr
    /\ h.vaddr >= PageSize

\* One turn of the loop over the program headers, up to load_segment().
load_header(p) ==
    LET i == at[p][1]
        f == prog[p]
    IN  /\ Runs(p, "headers")
        /\ \/ i > Len(f.phdrs) /\ Proceed(p, "stack") /\ UNCHANGED at
           \/ i <= Len(f.phdrs) /\ Proceed(p, "load_failed") /\ UNCHANGED at
           \/ /\ i <= Len(f.phdrs) /\ f.phdrs[i].type \notin {"dynamic", "load"}
              /\ at' = [at EXCEPT ![p] = <<i + 1, 0>>] /\ UNCHANGED stage
           \/ /\ i <= Len(f.phdrs) /\ f.phdrs[i].type = "load" /\ validate_segment(f.phdrs[i], f)
              /\ Proceed(p, "get_page") /\ UNCHANGED at
        /\ UNCHANGED <<m, cpu, pml4, page, prog>>


\* What load() passes to load_segment().
read_bytes(h) == IF h.filesz > 0 THEN (h.vaddr % PageSize) + h.filesz ELSE 0
pages(h) == PageCount((h.vaddr % PageSize) + h.memsz)

\* palloc_get_page (PAL_USER), of load_segment() and of setup_stack().
GetUser(p, content, then) ==
    /\ IF m.ufree = {} THEN Proceed(p, "load_failed") /\ UNCHANGED <<m, page>>
       ELSE LET kpage == Min(m.ufree)
            IN  /\ m' = [m EXCEPT !.ufree = @ \ {kpage}, !.mem = (kpage :> content) @@ @]
                /\ Keep(p, "kpage", kpage)
                /\ Proceed(p, then)
    /\ UNCHANGED <<cpu, pml4, prog, at>>

Drop(p) ==
    /\ m' = FreeUser(m, {page[p].kpage})
    /\ Keep(p, "kpage", NULL)
    /\ Proceed(p, "load_failed")
    /\ UNCHANGED at

segment_get_page(p) == Runs(p, "get_page") /\ GetUser(p, Garbage, "read_page")

Header(p) == prog[p].phdrs[at[p][1]]

\* file_read() into the page, which may fall short, and memset() of the rest.
segment_read(p) ==
    LET h == Header(p)
        done == at[p][2] * PageSize
        ofs == PageFloor(h.offset) + done
        page_read_bytes == Max({0, Min({read_bytes(h) - done, PageSize})})
        content == [b \in 0 .. PageSize - 1 |-> IF b < page_read_bytes THEN ofs + b + 1 ELSE 0]
    IN  /\ Runs(p, "read_page")
        /\ \/ Drop(p)
           \/ /\ page_read_bytes = 0 \/ ofs + page_read_bytes <= prog[p].length
              /\ m' = [m EXCEPT !.mem[page[p].kpage] = content]
              /\ Proceed(p, "install") /\ UNCHANGED <<page, at>>
        /\ UNCHANGED <<cpu, pml4, prog>>

\* install_page(): the page is given up if the walk fails or UPAGE is mapped.
install_page(p, upage, rw, then) ==
    LET r == pml4_set_page(m, pml4[p], upage, page[p].kpage, rw)
    IN  \/ /\ pml4_get_page(m, pml4[p], upage) # NULL \/ r.pt = NULL
           /\ IF pml4_get_page(m, pml4[p], upage) # NULL THEN Drop(p)
              ELSE /\ m' = FreeUser(r.s, {page[p].kpage})
                   /\ Keep(p, "kpage", NULL) /\ Proceed(p, "load_failed") /\ UNCHANGED at
        \/ /\ pml4_get_page(m, pml4[p], upage) = NULL /\ r.pt # NULL
           /\ m' = r.s
           /\ Keep(p, "kpage", NULL)
           /\ then

segment_install(p) ==
    LET h == Header(p)
        i == at[p][1]
        j == at[p][2]
        advance == IF j + 1 < pages(h) THEN Proceed(p, "get_page") /\ at' = [at EXCEPT ![p] = <<i, j + 1>>]
                   ELSE Proceed(p, "headers") /\ at' = [at EXCEPT ![p] = <<i + 1, 0>>]
    IN  /\ Runs(p, "install")
        /\ install_page(p, (h.vaddr \div PageSize) + j, h.writable, advance)
        /\ UNCHANGED <<cpu, pml4, prog>>

Zeros == [b \in 0 .. PageSize - 1 |-> 0]

stack_get_page(p) == Runs(p, "stack") /\ GetUser(p, Zeros, "install_stack")

stack_install(p) ==
    /\ Runs(p, "install_stack")
    /\ install_page(p, StackPage, TRUE, Proceed(p, "loaded") /\ UNCHANGED at)
    /\ UNCHANGED <<cpu, pml4, prog>>

\* Back in process_exec(): frees the copy of the name and starts the program;
\* initd() panics if it was not loaded.
exec_end(p) ==
    /\ current = p /\ stage[p] \in {"loaded", "load_failed"}
    /\ m' = Free(m, {page[p].fn_copy})
    /\ Keep(p, "fn_copy", NULL)
    /\ Proceed(p, IF stage[p] = "loaded" THEN "user" ELSE "panic")
    /\ UNCHANGED <<cpu, pml4, prog, at>>

\* Every system call ends in thread_exit(), and so does every exception that
\* user code raises.
user_trap(p) ==
    /\ Runs(p, "user")
    /\ Proceed(p, "cleanup")
    /\ UNCHANGED <<m, cpu, pml4, page, prog, at>>

----------------------------------------------------------------------------
ProcessStep(p) ==
    \/ process_cleanup(p) \/ cleanup_activate(p) \/ cleanup_destroy(p)
    \/ load_create(p) \/ load_activate(p) \/ load_open(p) \/ load_header(p)
    \/ segment_get_page(p) \/ segment_read(p) \/ segment_install(p)
    \/ stack_get_page(p) \/ stack_install(p) \/ exec_end(p) \/ user_trap(p)

AddressSpaceNext ==
    /\ ~Panicked
    /\ \/ \E p \in Process : process_create_initd(p) \/ thread_create(p) \/ ProcessStep(p)
       \/ \E next \in Process \cup {main}, blocks \in BOOLEAN : schedule(next, blocks)

AddressSpaceSpec == AddressSpaceInit /\ [][AddressSpaceNext]_spaceVars

----------------------------------------------------------------------------
OwnedPages(p) == {page[p].thread, page[p].fn_copy, page[p].kpage} \ {NULL}
Root(p) == {pml4[p], page[p].old} \ {NULL}
Trees(p) == UNION {Tables(m, r) \cup Mapped(m, r) : r \in Root(p)}

\* Every allocated page belongs to one process, as its struct thread, its copy
\* of the file name, the page that load() is filling, or a page of its page
\* tables or mapped by them; no page is both free and in use, and none is
\* forgotten, whichever allocation of process creation or load() fails.
PagesOwned ==
    LET held == [p \in Process |-> OwnedPages(p) \cup Trees(p)]
    IN  /\ \A p, q \in Process : p # q => held[p] \cap held[q] = {}
        /\ \A p \in Process : OwnedPages(p) \cap Trees(p) = {} /\ Cardinality(Root(p)) <= 1
        /\ UNION {held[p] : p \in Process} = DOMAIN m.mem
        /\ DOMAIN m.mem \cap (m.kfree \cup m.ufree) = {}

\* The active page table is base_pml4 or the table of the running thread, and
\* is never one that pml4_destroy() freed or that is being destroyed; user code
\* runs with its own page table, and the TSS names its kernel stack.
CpuContext ==
    /\ cr3 # NULL => /\ current \in Process
                     /\ cr3 \in DOMAIN m.mem
                     /\ cr3 \in Root(current)
                     /\ stage[current] = "destroy" => cr3 # page[current].old
    /\ \A p \in Process : Runs(p, "user") => cr3 = pml4[p] /\ rsp0 = p

Byte(p, va) ==
    LET e == pml4_get_page(m, pml4[p], va \div PageSize)
    IN  IF e = NULL THEN [rw |-> FALSE, byte |-> -2] ELSE [rw |-> e.rw, byte |-> m.mem[e.kpage][va % PageSize]]


=============================================================================
