------------------------------- MODULE Kernel -------------------------------
(***************************************************************************)
(* The parts of the kernel together (src/kernel.cpp): the scheduler of     *)
(* module ProcessManager, the descriptors that every process has of its    *)
(* own (PCB::fd_map), the table of open files of the file system, and the  *)
(* page tables of the memory manager.  A process holds entries of both     *)
(* tables, and its end, by its last instruction or by kill, must take them *)
(* away.                                                                   *)
(*                                                                         *)
(* Of a file only its length matters here, since every program writes the  *)
(* same filling; blocks and directories are in module FileSystem, pages    *)
(* and frames in MemoryManager.                                            *)
(***************************************************************************)
EXTENDS ProcessManager

CONSTANTS
    Files,           \* files that exist
    Capacity,        \* cells that a file can have
    Sizes,           \* sizes of reads and writes
    Operands,        \* descriptors that programs name
    IntMax           \* the greatest int

ASSUME KernelAssumption ==
    /\ Capacity \in Nat
    /\ Sizes \subseteq Nat
    /\ Operands \subseteq Nat
    /\ IntMax \in Nat /\ IntMax >= 3

Ints == -IntMax - 1..IntMax

VARIABLES
    fd_map,          \* PCB::fd_map of the live processes
    next_script_fd,  \* PCB::next_script_fd
    page_tables,     \* pids that page_tables_ has an entry for
    open_files,      \* FileDescriptorTable::open_files_
    next_fd,         \* FileDescriptorTable::next_fd_
    sizes            \* lengths of the files

held == <<fd_map, next_script_fd, page_tables, open_files, next_fd, sizes>>
kernelVars == <<vars, held>>

Unbound(f, x) == Restrict(f, DOMAIN f \ {x})
Bound(f, x, y) == [z \in DOMAIN f \cup {x} |-> IF z = x THEN y ELSE f[z]]

-----------------------------------------------------------------------------
(* The file instructions.  They work on a record of what the running        *)
(* process and the file system hold, and return the set of results; that a  *)
(* file does not exist, or the disk is full, is a choice.                   *)

Held(p) ==
    [map |-> fd_map[p], next |-> next_script_fd[p],
     open |-> open_files, next_fd |-> next_fd, sizes |-> sizes]

\* open_file() and close_file() of the file system.
Opened(w, file) ==
    [w EXCEPT !.open = Bound(@, w.next_fd, [file |-> file, offset |-> 0]),
              !.next_fd = @ + 1]

Closed(w, fs_fd) == [w EXCEPT !.open = Unbound(@, fs_fd)]

\* The sum of a signed addition, as the processor stores it.
Wrapped(n) == IF n > IntMax THEN n - 2 * (IntMax + 1) ELSE n

\* Faulty variant: a descriptor in use is opened again.
RefusedButInUse(w, fd) == fd > IntMax \/ fd < 3

\* FO with a descriptor: what is refused before the file is looked for.
Refused(w, fd) == fd > IntMax \/ fd < 3 \/ fd \in DOMAIN w.map

\* The descriptor counts as handed out even if the file cannot be opened.
OpenAs(w, fd) ==
    IF Refused(w, fd) THEN {w}
    ELSE LET r == [w EXCEPT !.next = IF fd >= @ THEN Wrapped(fd + 1) ELSE @]
         IN  {r} \cup {[Opened(r, file) EXCEPT !.map = Bound(@, fd, w.next_fd)] :
                         file \in Files}

\* allocate_script_fd(): the value it returns, the greatest int standing for
\* "none" (the code returns -1).
Allocated(w) ==
    Firsts({fd \in w.next..IntMax : fd = IntMax \/ fd \notin DOMAIN w.map})

\* Faulty variant: negative descriptors are not refused.
UsableIfAny(fd) == fd # IntMax

Usable(fd) == fd >= 0 /\ fd # IntMax

\* Faulty variant: the file stays open.
GivenUpOpen(w, fs_fd) == w

GivenUp(w, fs_fd) == Closed(w, fs_fd)

\* FO without a descriptor: the file is opened first, and closed again if
\* there is no descriptor for it.
OpenAuto(w) ==
    {w} \cup
    {LET r == [Opened(w, at[1]) EXCEPT !.next = IF at[2] = IntMax THEN IntMax ELSE at[2] + 1]
     IN  IF Usable(at[2])
         THEN [r EXCEPT !.map = Bound(@, at[2], w.next_fd)]
         ELSE GivenUp(r, w.next_fd) : at \in Files \X Allocated(w)}

\* FC
Close(w, fd) ==
    IF fd \in DOMAIN w.map
    THEN {[Closed(w, w.map[fd]) EXCEPT !.map = Unbound(@, fd)]}
    ELSE {w}

\* Faulty variant: the descriptor of the program is taken for the one of the
\* file system.
FsFdUnmapped(w, fd) == fd

FsFd(w, fd) == w.map[fd]

\* Faulty variant: a read goes past the end of the file.
ReachBeyond(size, rest) == size

Reach(size, rest) == IF size < rest THEN size ELSE rest

\* FR: as far as the file goes.
Read(w, fd, size) ==
    IF fd \notin DOMAIN w.map \/ FsFd(w, fd) \notin DOMAIN w.open THEN {w}
    ELSE LET file == w.open[FsFd(w, fd)]
             rest == w.sizes[file.file] - file.offset
         IN  {[w EXCEPT !.open[FsFd(w, fd)].offset = @ + Reach(size, rest)]}

\* FW: as far as there is room.
Write(w, fd, size) ==
    IF fd \notin DOMAIN w.map \/ FsFd(w, fd) \notin DOMAIN w.open THEN {w}
    ELSE LET file == w.open[FsFd(w, fd)]
         IN  {[w EXCEPT !.open[FsFd(w, fd)].offset = @ + count,
                        !.sizes[file.file] = IF file.offset + count > @
                                             THEN file.offset + count ELSE @] :
                count \in {n \in 0..size : file.offset + n <= Capacity}}

FileInstruction(w) ==
    OpenAuto(w) \cup
    UNION {OpenAs(w, fd) \cup Close(w, fd) \cup
           UNION {Read(w, fd, size) \cup Write(w, fd, size) : size \in Sizes} :
             fd \in Operands}

-----------------------------------------------------------------------------
(* The kernel.                                                              *)

\* What p holds is w from now on.
Keep(p, w) ==
    /\ fd_map' = [fd_map EXCEPT ![p] = w.map]
    /\ next_script_fd' = [next_script_fd EXCEPT ![p] = w.next]
    /\ open_files' = w.open
    /\ next_fd' = w.next_fd
    /\ sizes' = w.sizes
    /\ UNCHANGED page_tables

\* Faulty variant: the memory is not freed.
GiveBackFiles(p, w) ==
    /\ fd_map' = Unbound(fd_map, p)
    /\ next_script_fd' = Unbound(next_script_fd, p)
    /\ open_files' = Restrict(w.open, DOMAIN w.open \ Range(w.map))
    /\ next_fd' = w.next_fd
    /\ sizes' = w.sizes
    /\ UNCHANGED page_tables

\* p ends: close_all_process_files(), free_process_memory().
GiveBack(p, w) ==
    /\ fd_map' = Unbound(fd_map, p)
    /\ next_script_fd' = Unbound(next_script_fd, p)
    /\ open_files' = Restrict(w.open, DOMAIN w.open \ Range(w.map))
    /\ next_fd' = w.next_fd
    /\ sizes' = w.sizes
    /\ page_tables' = page_tables \ {p}

\* The instruction of the tick, then the end of the process if it was the
\* last.
Settle(d, w) ==
    IF d.procs[d.pid].left <= 1 THEN GiveBack(d.pid, w) ELSE Keep(d.pid, w)

FileTick ==
    /\ ComputeTick
    /\ \E d \in Dispatched :
         /\ d.procs[d.pid].left > 0
         /\ \E w \in FileInstruction(Held(d.pid)) : Settle(d, w)

OtherTick ==
    /\ ComputeTick \/ SleepTick \/ DevRequestTick \/ DevReleaseTick
    /\ \E d \in Dispatched : Settle(d, Held(d.pid))

KernelTick == (IdleTick /\ UNCHANGED held) \/ FileTick \/ OtherTick

KernelCreate(size) ==
    /\ Create(size)
    /\ fd_map' = Bound(fd_map, next_pid, <<>>)
    /\ next_script_fd' = Bound(next_script_fd, next_pid, 3)
    /\ page_tables' = page_tables \cup {next_pid}
    /\ UNCHANGED <<open_files, next_fd, sizes>>

KernelKill(p) == Kill(p) /\ GiveBack(p, Held(p))

\* cat and echo open a file, read it or write it from its start, and close
\* it again.
ShellOpens(file) ==
    /\ next_fd' = next_fd + 1
    /\ \E count \in 0..Capacity :
         sizes' = [sizes EXCEPT ![file] = IF count > @ THEN count ELSE @]
    /\ UNCHANGED <<vars, fd_map, next_script_fd, page_tables, open_files>>

\* rm, and touch to have the file again; what rm does to an open file is in
\* module FileSystem.
ShellRenews(file) ==
    /\ \A other \in Range(open_files) : other.file # file
    /\ sizes' = [sizes EXCEPT ![file] = 0]
    /\ UNCHANGED <<vars, fd_map, next_script_fd, page_tables, open_files, next_fd>>

Command ==
    \/ Steer /\ UNCHANGED held
    \/ \E file \in Files : ShellOpens(file) \/ ShellRenews(file)

KernelInit ==
    /\ Init
    /\ fd_map = <<>>
    /\ next_script_fd = <<>>
    /\ page_tables = {}
    /\ open_files = <<>>
    /\ next_fd = 3
    /\ sizes = [file \in Files |-> 0]

KernelNext ==
    \/ KernelTick
    \/ \E size \in Lengths : KernelCreate(size)
    \/ \E p \in Pids : KernelKill(p)
    \/ Command

KernelSpec == KernelInit /\ [][KernelNext]_kernelVars

-----------------------------------------------------------------------------
(* Properties.                                                              *)

KernelTypeOK ==
    /\ DOMAIN fd_map = Live /\ DOMAIN next_script_fd = Live
    /\ \A p \in Live :
         /\ DOMAIN fd_map[p] \subseteq Ints
         /\ Range(fd_map[p]) \subseteq 3..next_fd - 1
         /\ next_script_fd[p] \in Ints
    /\ page_tables \subseteq Pids
    /\ next_fd \in Nat \ 0..2
    /\ DOMAIN open_files \subseteq 3..next_fd - 1
    /\ sizes \in [Files -> 0..Capacity]
    /\ \A file \in Range(open_files) :
         file.file \in Files /\ file.offset \in 0..sizes[file.file]

\* The files that are open are those that live processes hold, each under
\* one descriptor of one process: none leaks when an open fails half-way or
\* a process ends, none is closed under its holder.
DescriptorsAreHeld ==
    /\ DOMAIN open_files = UNION {Range(fd_map[p]) : p \in Live}
    /\ \A p, q \in Live : \A s \in DOMAIN fd_map[p], t \in DOMAIN fd_map[q] :
         fd_map[p][s] = fd_map[q][t] => p = q /\ s = t

\* Exactly the live processes have memory: access_memory() and
\* free_process_memory() throw for any other.
MemoryIsOfTheLiving == page_tables = Live

\* FC, FR and FW can name every descriptor that a program gets: none is
\* negative, also after the counter overflowed.
ScriptFdsAreNamable ==
    \A p \in Live : DOMAIN fd_map[p] \subseteq 0..IntMax

\* A descriptor goes on naming the file it was opened for until it is
\* closed.
DescriptorsStay ==
    [][\A p \in Live \cap DOMAIN processes' :
         \A s \in DOMAIN fd_map[p] \cap DOMAIN fd_map'[p] :
           fd_map'[p][s] = fd_map[p][s]]_kernelVars

\* "Script fds are each process's own" (README.md:117): descriptors and
\* offsets of a process change only when it runs.
DescriptorsAreOwn ==
    [][\A p \in Live \cap DOMAIN processes' :
         (\A d \in Dispatched : d.pid # p) =>
           /\ fd_map'[p] = fd_map[p]
           /\ \A s \in DOMAIN fd_map[p] :
                open_files'[fd_map[p][s]] = open_files[fd_map[p][s]]]_kernelVars
=============================================================================
