# A verification project for Tinix

Tinix is a single-threaded simulator of an operating system: a shell drives a
kernel with processes, demand-paged memory, an inode file system on a disk image
and a device that processes request and release. These modules specify it in
TLA+, TLC checks them on small instances, and TLAPS proves theorems about them
for every value of their constants. Paths below are those of the repository.

Nothing in Tinix runs in parallel: each shell command, and each `tick`, is a
call that runs to its end, and is one action here. What makes the system hard is
the order of commands and ticks (the user may kill, block, wake or run any
process between any two instructions), the two or three records that different
objects keep of the same fact, and resources that run out half-way through an
operation.

## 1. Inventory

| Part | State | Operations | Correct when |
|---|---|---|---|
| Process manager (`src/proc/process_manager.cpp`) | `processes_`, `ready_queue_`, `cur_pid_`, `next_pid_`; in a PCB the state, the slice, the reason and time of blocking, the device waited for, descriptors | `tick`, create, `kill`, `run`, `block`, `wakeup` | one process runs and `cur_pid_` names it; a Ready process is queued and gets its turn; a sleep or wait ends; a finished process leaves nothing behind |
| Device manager (`src/dev/device_manager.cpp`) | owner and wait queue of each device (one, the disk) | `request`, `release`, `cancel_wait`, `release_all` | claims are those of live processes; service in order; no wake-up is lost |
| Memory manager (`src/mem/`) | page tables, frames, Clock hand, free swap blocks | create and free the memory of a process, `access_memory` with fault, eviction, swap | frames and tables agree; swap blocks are conserved; a page keeps its contents |
| File system (`src/fs/file_system.cpp`) | superblock, mounted flag, current directory | `format`, `mount`, `touch`, `mkdir`, `rm`, open, close, read, write, `cd` | below |
| Block, inode, directory managers, descriptor table (`src/fs/`) | bitmaps in memory and on disk, dirty flag; inode table; directory blocks; open files | allocate and free bits, read and write inodes, look up, add and remove entries | a bit is set iff one inode uses the block; directories are a tree; descriptors name live files; files read as written; a restart restores everything |
| Disk (`src/dev/disk.cpp`) | the image, the stream with its error state | read and write a block | blocks read as written; a crash or an error between two writes breaks nothing but the operation it hits |
| Kernel (`src/kernel.cpp`) | owns the parts | mounts or formats at the start | open files and page tables are those of live processes |
| Shell (`src/shell/shell.cpp`) | | parses a command, calls a manager | |
| Program loader (`src/proc/program.cpp`) | instructions | parses `.pc` files | |

Interactions. The shell calls the managers. `tick` executes an instruction,
which may call the memory manager, the file system or the device manager; the
device manager answers with the pid that inherits a device, and
`wakeup_device_waiter()` writes into that process. `kill` and completion
release the devices, files and memory of a process. The memory manager and the
file system use disjoint parts of one disk (`fs_defs.h:8`).

The hazards of this code, each at its line with the properties that watch it,
are listed in `PROJECT.json`. The main ones: stale entries in the ready queue;
the slice ending in the tick that blocks; hand-overs to processes that were
killed or woken by hand; frames whose owner has gone; swap blocks lost or given
back twice; descriptors that outlive their process; creates that fail half-way; writes across and within blocks;
descriptors of removed files; crashes between the writes of an operation.

## 2. Modules

| Module | Models |
|---|---|
| `Enumeration` | first and ascending choices: how the loops visit positions, pids, pages |
| `DeviceManager` | operators: what each call leaves in a device record |
| `ProcessManager` | the scheduler, composed with the disk's record |
| `MCProcessManager` | bounds the number of `run`, `block`, `wakeup`; fairness of ticks |
| `MCRoundRobin` | a history variable that counts turns |
| `VirtualMemory` | abstract: address spaces that only their process changes |
| `MemoryManager` | paging, implements `VirtualMemory` |
| `ClockSweep` | the Clock loop step by step |
| `FileStore` | abstract: a tree of names, files, descriptors |
| `FileSystem` | bitmaps, inodes, directory and data blocks, implements `FileStore` |
| `WorkingDirectory` | `FileSystem` with the current directory, `cd` and `normalize_path()` |
| `CrashingFileSystem` | `WorkingDirectory` with crashes between the writes of an operation |
| `Kernel` | `ProcessManager` with the descriptors of processes, the open files and the page tables |
| `MCKernel` | bounds the number of commands other than create and kill |
| `EnumerationTheorems`, `ProcessManagerProofs`, `RoundRobinProofs`, `KernelProofs`, `MemoryManagerProofs`, `FileSystemProofs`, `FileStoreProofs`, `CrashingFileSystemProofs` | theorems |

Two conventions. An operator that searches returns the set of its possible
results, which has one member, and its caller binds it with `\E`; this replaces
`CHOOSE` and is easy to prove about. A definition introduced as a faulty variant
is used by nothing: it is the definition below it with a plausible mistake, and
put in its place it breaks the property it was written for (`PROJECT.json`,
"mutants"). The modules build on each other:

    DeviceManager <- ProcessManager <- Kernel <- MCKernel
                     ProcessManager <- MCProcessManager <- MCRoundRobin
    FileSystem <- WorkingDirectory <- CrashingFileSystem
    FileSystem implements FileStore, MemoryManager implements VirtualMemory

### ProcessManager and DeviceManager

The variables are the fields of the class; `processes` maps live pids to PCBs.
`left` is `program->size() - pc`: which instruction comes next is data, so every
tick picks one, and a run covers all programs of the given lengths. `C`, the
memory and the file instructions leave the scheduler alone and are
`ComputeTick`; `SleepTick`, `DevRequestTick` and `DevReleaseTick` are `S`, `DR`,
`DD`. A tick is: `Dispatched` (the call of `schedule()` at the start), the
instruction, `Account` (the slice, completion, requeueing, in the order of the
code) and `CheckBlocked` (the sleepers). `Create`, `Kill`, `Run`, `Block`,
`Wakeup` are the shell commands; a command that is refused changes nothing and
is no action. `Reaped` is the common part of completion and `kill`. `HandedOver`
is `release()` together with the loop around it that passes those who no longer
wait. `PCB::cpu_time` and the tick counter are output only. Pids, ticks and
durations do not overflow in the runs; durations are taken as the `int` they
become.

### MemoryManager and ClockSweep

The variables are the fields; what frames and swap blocks hold is not in the
code, which moves dummy bytes, and is kept in two history variables that follow
its reads and writes. An access is a `Hit`, a fault served from a free frame, a
fault that evicts, or a fault that is denied for lack of swap. The loop of the
Clock is one step: the number of frames the hand passes is `Passed`.
`ClockSweep` takes the loop's iterations one by one and shows that it ends as
`Passed`, `Hand` and `Swept` say. Disk failures are not modelled.

### FileSystem

A path is the sequence of names that `normalize_path()` returns. A block is
both cells and entries, one of which is junk. Bitmaps are sets; `saved` is what
the disk holds of them. What an operation on the disk leaves is an `Outcome`:
bitmaps, inodes, blocks, the order in which it wrote inodes and blocks, and
whether it ends with saving counters and bitmaps; a create whose entry cannot be
added clears its bits again and saves nothing (`Finished`). `Created`,
`MadeDirectory`, `Removed` and `WrittenFile` compute the outcomes, and
`Complete` makes an outcome the next state. `WrittenFile` runs the loop of
`write_file()` block by block (`Written`), with early ends for lack of blocks or
of pointers. `Restart` is the destructor, then `Kernel()` mounting. The constant
`RemovesOpenFiles` says whether the environment removes open files, or formats
while files are open or the current directory is not the root; the code permits
all of that. With FALSE the invariants hold; with TRUE see `fs_stale_fd`.

### WorkingDirectory

`Normalize` is `normalize_path()` on a typed path, taken as its names, `.` and
`..` included, and whether it starts at the root; empty parts and the final
joining are text. `ChangeDirectory` is `cd`. The operations of `FileSystem` then
range over all paths, which every relative path becomes. The interesting
question is whether working on names alone is right: the directories on the disk
have entries `.` and `..` of their own, which `lookup_path()` never sees.
`NormalizedPathsAgree` follows those entries (`Followed`) and compares.

### CrashingFileSystem

The simulator may die between any two writes to the disk. `BrokenOff(o, k)`
makes the first `k` writes of outcome `o`, in its order followed by
`SaveOrder`; `CrashInFormat(k)` does the same for the longer list of `format()`.
Memory is lost and the next start mounts (`Remounted`). A disk that fails comes
to the same: the stream keeps its error state, so that no later write succeeds,
callers that ignore results change memory only, and a command then needs a read,
which fails too, until a restart opens the image again. The superblock's space
counters, saved before the bitmaps, are corrected by `mount()` and need no write
of their own here; a block of the inode table counts as one inode.

`crashed` and `doubtful` are history: what kind of operation was broken off
since the last format, and which inodes and blocks it was about to allocate or
free. The code has no repair, and an operation on a disk whose bitmaps do not
fit may allocate an inode twice; after a crash the module therefore goes on with
mount, restart, further broken-off formats and `format`, and leaves open what
other operations do.

### Kernel

A process holds entries of two tables that other objects keep: open files in the
descriptor table, reached through `fd_map`, and its page table.
`FileInstruction` is `FO` (with and without a descriptor), `FC`, `FR` and `FW`
on a record of what the running process and the file system hold; a tick is a
`ComputeTick` of `ProcessManager` together with one of them, or any other tick,
and `Settle` gives everything back if it was the last instruction. `KernelKill`
gives back as well. Every step is a step of `ProcessManager` or, for `cat`,
`echo`, `rm` and `touch`, leaves the scheduler alone. Whether a file exists and
whether there is space is a choice; of a file only the length is kept. `int`
wraps at `IntMax` (`Wrapped`): `script_fd + 1` for the greatest `int` is
undefined in C++, and the model takes what the processor stores. Should programs
run for another 2^31 instructions after that, the counter comes back to 0 and
hands out 0, 1 and 2, so `ScriptFdsAreNamable` asks only that no descriptor is
negative, which the theorem has for programs of any length. A write of the
other instructions (`R`, `W`) to memory does not change which page tables exist.

## 3. Runs

| Run | Question | Bounds |
|---|---|---|
| `pm_safety` | Do the records of who runs, who is queued, who waits and who owns stay consistent? Is the disk passed on in order and never taken away? | 3 processes, slice 2, programs of 0 and 3 instructions, sleeps of 0 and 2, a registered and an unregistered device, 2 interventions |
| `pm_live` | Do sleeps and waits end and programs finish? Does every process the user leaves alone keep to one turn per round? | 3 processes of 3 instructions, slice 2, sleeps of 2, 1 intervention |
| `mem_paging` | Is paging consistent and invisible? | 2 processes of 2 pages, 2 frames, 2 swap blocks, 2 values |
| `clock_sweep` | Does the loop end as computed? | 4 frames, all assignments, bits and hand positions |
| `fs_files` | Do bitmaps, directories, descriptors and contents agree? | 3 inodes, 3 blocks, 2 blocks a file, 2 cells a block, 3 entries a directory block, 2 names, depth 2, 2 descriptors |
| `fs_crash` | Is a crash between two writes atomic to the user? Are the bitmaps wrong about the broken-off operation only, and does format repair them? Is the current directory one, and are normalized paths right? | as `fs_files` with 1 descriptor, writes of 3 cells, every crash point, typed paths of up to 2 names |
| `kernel` | Do open files and page tables belong to live processes, each descriptor to one? Do descriptors keep their files, and can programs name them? | 2 processes of 0 and 4 instructions, slice 2, 1 file of 2 cells, reads and writes of 1, descriptors 2, 3, 5 and 6 with 5 the greatest `int`, 1 other command |

Why the bounds suffice. Three processes are the least at which one owns the disk
and two queue for it, so that order and skipping matter; the slice of 2 ends
both with and without a block in the same tick; two interventions allow a `run`
followed by a `block` of the stale entry, or a `wakeup` out of the device queue.
Two frames for four pages make every fault evict, with both second chances used;
two swap blocks for four pages run out. In the file system the first directory
block fills up with one entry, so that a second name needs a block, and three
blocks run out under two files; writes of one and three cells cover parts of a
block, its boundary and two blocks. A write of three cells into a file makes up
to five writes to the disk, and a create of a directory that has to grow six,
each a place to crash. Four instructions are an open, two uses and a close, or
two opens that collide; 2 is refused as too small, 6 as too large, 5 makes the
counter wrap, and 3 is what automatic numbering starts with. `MaxPid`, `MaxFd`, `MaxDepth`, `ArgLength` and
`MaxSteers` are the bounds that are not in the code.

Five runs are expected to end in a violation, and each shows a disagreement
between the code and what its documents say:

- `pm_waiting_blocked`: `tick()` tests for the end of the slice before it tests
  for Blocked, so a process that sleeps or waits in its last tick is made Ready
  and runs on (`docs/项目要求.md:73` and `:164`).
- `pm_sleep_forever`: a sleep of 0 never ends (`docs/项目要求.md:75`).
- `pm_invalid_device`: a request for an unknown device blocks for good
  (`docs/项目要求.md:165`).
- `fs_stale_fd`: `rm` ignores open descriptors; a write through one allocates a
  block to a freed inode (`docs/项目要求.md:147`). Descriptors are numbered in
  one sequence and never twice, so the harm is to the freed inode or its heir.
- `fs_half_format`: `format()` writes the magic number first. Broken off before
  the root directory is written, it leaves a disk that the next start mounts and
  does not format (`README.md:47`).

Some of what the passing runs do not claim follows from these: `NoLostWakeup`
speaks of processes that are Blocked, `pm_live` uses positive sleeps and the
registered device only, and `OneTurnUnlessSteered` excepts
processes that the user ran, blocked or woke by hand: `run` leaves the entry of
the process in the ready queue, which gives it a second turn in a round.
`DirectoryUnlessFormatting` excepts disks whose format was broken off.

Fairness. The liveness properties assume weak fairness of ticks and of nothing
else: the command loop accepts `tick` in every state, and the simulation
advances in no other way. They also assume that the user stops steering, because
a user who blocks a process for ever keeps it from finishing; `MaxSteers` says
so. The fair specification of `pm_live` is `RRFairSpec`, whose `RRTick` is
`MCTick` with the history of turns. `SweepEnds` assumes that the loop goes on.

`clock_sweep` switches the deadlock check off because the loop ends. All other
runs check it.

## 4. Theorems

`ProcessManagerProofs` proves, for any number of processes, slice, program
lengths, durations and device ids, that `Spec` implies `[]TypeOK`,
`[]RunningIsCurrent`, `[]ReadyIsQueued`, `[]NoLostWakeup` and
`[]ClaimsAreSound`. The only assumption is `ProcessManagerAssumption`: the
slice is positive, lengths and device ids are natural numbers, durations are
integers.

None of the invariants is inductive on its own: `NoLostWakeup`, for instance, needs that a
free device has no queue, which needs that queues hold live processes, each
once. The inductive invariant `IInv` is the conjunction of

- `Consistent(processes, ready_queue, disk)`: types; every Ready process is
  queued; the device is `Sound` (its owner and waiters are live, different, and
  a free one has no queue); every process that waits for it is in its queue;
- `OnlyRuns(processes, cur_pid)`: exactly the current process is Running;
- pids that are live have been handed out.

A tick applies several operations in a row to a table, a queue and a device that
are no longer the variables, so `Consistent` and `OnlyRuns` take them as
arguments, and there is one lemma per operation (`ScheduledConsistent`,
`ReapedConsistent`, `AccountConsistent`, `CheckBlockedConsistent`, ...) saying
what it does to them. The first part of the module has the same for the device: a
hand-over finds its heir among those who still wait, drops nobody who does, and
leaves a free device without a queue. `EnumerationTheorems` shows that the loops
modelled by enumeration visit everyone once.

The end of `ProcessManagerProofs` proves the two action properties,
`FifoService` and `OwnerKeepsDisk`, from the same invariant. `Service` says of
one step what both need: the owner stays, or there was none, or the owner ran or
is gone and the first waiter inherits. The step that needs care is the tick in
which a process does something to the device and then finishes: its instruction
may put it on the queue, or pass the device on, before its completion releases
what it still holds (`AccountService`, `TickService`).

`RoundRobinProofs` proves `RRSpec => []OneTurnUnlessSteered`. The property
counts turns, and its invariant `RRInv` says why they cannot add up: a process
that was not steered stands in the ready queue at most once, and not at all
unless it is Ready (`InLine`), so that after its turn it comes back behind all
who are Ready (`Before`); whoever has seen it begin a turn stands before it.
New pids are not in the queue (`HandedOut`), or a created process could find a
stale entry of its own. A tick changes the table and the queue up to four times;
a lemma for each change says that it only appends (`Extended`) and leaves the
process in line, and `Orderly` says it of the dispatch, the one change that
removes entries.

`KernelProofs` proves of `KernelSpec`, for any number of processes and files, any
operands and any range of `int`, `[]MemoryIsOfTheLiving`,
`[]DescriptorsAreHeld`, `[]ScriptFdsAreNamable`, `DescriptorsStay` and
`DescriptorsAreOwn`, assuming `KernelAssumption` as well: sizes, operands and the
capacity are natural numbers, and the greatest `int` is at least 3. Every step of
the kernel is a step of `ProcessManager` or a stutter of it, so `IInv` holds here
too; it says that a tick works for one live process. The invariant `KInv` adds

- that the processes with descriptors, and those with page tables, are the live
  ones;
- `Owned`: the open files are what the descriptors lead to, each from one, and
  the next number is greater than all of them. `DescriptorsAreHeld` needs that
  last part, or a new file could take the place of an old one;
- `Numbered`: descriptors and their counters are integers, no descriptor is
  negative.

`Effect` says of one instruction that it adds one descriptor with one open file,
removes one with its file, or changes neither, and leaves the files of others
alone (`InstructionEffect`, one lemma for each kind). `TickDomain` says who lives
after a tick, whatever its instruction did to the scheduler. The two meet in
`SettleInvariant`, for the invariants, and in `StepKeeps`, for the action
properties.

`KernelTypeOK` is inductive only with what it says of lengths: an offset is at
most the length of its file, whoever else writes the file, because files only
grow and only `rm` and `touch`, which the model bars from open files, replace
them (`FilesFit`). `Fits` carries this through the instruction, `KernelFits`
through the step.

`MemoryManagerProofs` proves, for any pids, pages, frames, values and any finite
set of swap blocks, the four invariants of `MemoryManager` and the refinement of
`VirtualMemory`. The assumption is `MemoryManagerAssumption`; there is a frame,
since the code takes the hand modulo their number. `Inv` is the conjunction of
the four, because an eviction needs all of them: the Clock finds the victim's
entry through `FramesMatchTables`; writing it out takes a block that is nobody
else's by `SwapIsConserved`; dropping it without writing is harmless by
`CleanPagesAreBacked`, which is also what the refinement
(`PagingIsInvisible`) needs. The frames the Clock passes are computed by a
search (`HandStopsOnce`: it ends, at one frame), and the end of the module proves
of `ClockSweep` that the loop, one iteration at a time, ends as computed:
`SweepInv` says that it has passed some number of referenced frames, no more than one round of them
(at the end of which their bits are clear), and has changed nothing else.

`FileSystemProofs` proves the five invariants of `FileSystem`, for any numbers
and sizes of inodes, blocks, pointers, slots, names, descriptors and depths
(`FileSystemAssumption`: a directory block has room for `.` and `..`, no name
is one of those, and there are numbers for descriptors).

- `NothingIsUnsaved` holds of `Spec` unconditionally (`BitmapsAreAlwaysSaved`):
  every operation, failing ones included, ends with what it changed saved or
  taken back.
- The others are proved under `~RemovesOpenFiles`, that is, of the sessions in
  which no file is removed or formatted away while it is open. The run
  `fs_stale_fd` shows that they are false otherwise.

The inductive invariant `Inv` is `Sound` of the bitmaps, the inode table and the
blocks, with the descriptors. `Sound` has four parts: `Typed`; `Accounted` (a
block is allocated iff one allocated inode names it, at one index); `Tree`
(every directory starts with `.` and `..` and counts its entries; every
allocated inode but the root has one entry, in the directory that its `..`
names, under a name that is unique there; and every set of inodes without the
root is entered from outside it, which is `Grounded`: without it a cycle of
directories cut off from the root would satisfy the rest);
`Covered` (the blocks of a file reach to its size). It takes bitmaps, table and
blocks as arguments, and a set of inodes that are excepted from being in a
directory, so that one can follow an operation write by write: `mkdir`
allocates an inode that is excepted, a directory that grows for the new entry is
still sound, and `SoundLinked` ends the exception; `rm` goes the other way. The
loop of `write_file()` is a recursive function over its turns, and each turn keeps
`Going` (`EnsuredKeeps`, `FilledKeeps`). The invariants that the runs check
speak of paths and of sets computed from the table; the theorems at the end
derive them from `Sound`.

`FileStoreProofs` proves what a user sees of the disk, again under
`~RemovesOpenFiles`: that `FileSystem` implements `FileStore`, and of
`SessionSpec` that the current directory always exists
(`CurrentDirectoryIsLive`) and that `normalize_path()` may work on names
(`NormalizedPathsAgree`). All three need to know where paths lead after an
operation, that is, what writing an entry into one block does to every path on
the disk. The argument:

- `Reach` maps every sequence of names to where it leads. It depends on the
  listings of the directories only (`Leads`), and these are a `Forest`: an inode
  has one entry, a directory one entry of each name (`PathsFollowListings`).
  Hence two paths never lead to one inode (`PathsAreUnique`), an entry added
  for a new inode without entries of its own adds one path (`PathAdded`), and an
  entry dropped takes one path away (`PathDropped`). These three are inductions
  over paths (`AppendInduction`).
- `FileSystemProofs` says of each operation which listing it changes, and that
  all other inodes and their blocks are untouched. `StepIs` sums up: a step
  leaves everything as it is (`Undisturbed`), or `Gained` or `Lost` one path, or
  `Wrote` to one file, or `Formatted` the disk.
- For contents, `Writing` is the invariant of the loop of `write_file()`, cell by
  cell: what lies between the first offset and the present one has the new
  value, the rest of the file what it had, also in blocks that were read,
  written in part and written back (`FilledWrites`).
- `SessionInv` says that the current directory leads to a directory: `rm` removes
  no directories, and `format` is typed at the root here. That `..` in a
  directory names the one whose listing has it (`DotsAre`) makes a walk along
  the entries and the stack of names agree after every part of what was typed
  (`FollowedAgrees`).
- For the refinement, the names, data and descriptors of `FileStore` are
  computed from the disk, and its actions are read as statements about them
  (`MakeReads`, `RemoveReads`, ...), one lemma for each operation
  (`GainedStore`, `LostStore`, `WriteStore`, `ReadStore`, ...). A read stops at
  the end of the last block, and it takes `Covered` to know that this is not
  before the end of the file. `Kinds`, that an allocated inode is a file or a
  directory, is an invariant of its own.

`NormalizedPathsAlwaysAgree` is about sessions without crashes; that it also
holds after them takes the invariants of the next module.

`CrashingFileSystemProofs` proves of `CrashSpec`, under `~RemovesOpenFiles`, for
a crash between any two writes of any operation, any number of crashes and any
sizes, all properties of `fs_crash`: `OnlyInterruptedIsInDoubt`, `FormatRepairs`,
`DirectoryUnlessFormatting`, `NormalizedPathsAgree` and `CrashesAreAtomic`. The
argument:

- Between two writes a disk need not be `Sound`: a directory block is written
  before the inode that counts its entries. It still is `Shaped`, which is
  `Sound` but for the sizes of directories, and the lemmas about lookups and
  paths (`LookupIsIn`, `PathsFollowListingsIn`, `DotsAre`) ask for no more. They are
  stated for any bitmaps `ib`, `db` that fit the disk (`Shape`), since those in memory
  and those saved may be wrong after a crash.
- `Commits` says of the operations on names that one write, that of the entry's
  block, decides: all writes before it go to inodes and blocks that are free, and
  after it only the inode of the directory is left. So a crash leaves a disk that is
  `Alike` the one before the operation, or the one after it (`NamesBroken`), and
  paths lead where they led before it or where they lead after it (`NamesCrash`).
  A write to a file changes no path at all (`WriteCrash`); the blocks it
  has allocated belong to the file if its inode was written, and to none if not.
- Hence `Recoverable`, the part of `CrashInv` about crashes in operations: some
  bitmaps fit the disk, paths in use lead to every inode they call allocated
  (`AllReached`), and the saved bitmaps differ from them at most where the
  operation was about to change them. The two bitmaps are written one after the
  other, so that each may be old or new (`BrokenOffIs`).
- A crash in `format()` leaves anything in the bitmaps. What paths lead to is
  still a set of inodes and blocks, which takes `HalfFormatted`: the disk is as
  before, or the root's inode is cleared, or it is the only inode. An inode table
  of the right type is not enough, as pointers to blocks may be unset.
- A new format makes the invariant of `FileSystem` true on any disk
  (`FormatRestores`), and a session that has started on a formatted disk keeps it
  until the next crash (`SessionStep`).
- `CrashesAreAtomic` speaks of the files that paths lead to, the refinement of
  `FileStoreProofs` of those the bitmap in memory calls allocated. In a session
  they are the same (`SessionIsSeen`), so that a step of the one is a step of the
  other. A crash in an operation on names leaves paths as they were, or with the one
  that was made or without the one that was removed (`NamesCrashIsSeen`). A crash
  in a write leaves part of its data: every block is written once (`WritesOnce`),
  so what the disk holds after the first `k` writes is, block by block, what some
  turn of the loop has left (`Staged`, by induction over the turns), and the part of
  it below the size that the inode records is a prefix of the write (`WriteCrashIsSeen`).
- `NormalizedPathsAgree` holds wherever lookups are `Navigable`, which does not
  ask for bitmaps that fit. After an operation is broken off the disk is `Shaped`, and
  while the inode of the root is cleared nothing leads anywhere. When `format()` has
  written that inode but not its block, lookups read the block as it was:
  `RootStays`, an invariant of its own, says that it was the first block of the old root
  directory, so that its entries for itself are right, and no name in it leads back.

Some of these need recursive functions over the numbers up to `n` (the walk along
a path, the stack of names, the turns of the write loop). `EnumerationTheorems` proves what the
proofs use of them without an induction rule that takes a predicate: a set of
numbers up to `n` that holds 0, and `i + 1` with `i`, holds all
(`InductionUpTo`), a set of sequences that holds the empty one, and with each
its extensions, holds all (`AppendInduction`), and a step that stays in a set
can be iterated (`IterationExists`).

Only model-checked: liveness (`SleepEnds`, `DeviceWaitEnds`, `ProgramsFinish`,
`SweepEnds`), because `ENABLED` and fairness are out of the prover's reach.

## 5. Not modelled, and the plan

Modelled: the scheduler with the device, paging, the file system with its
current directory and its crashes, and the kernel that composes processes, files
and memory. Every invariant and every action property that a passing run checks
is also a theorem; liveness is not.

Not modelled:

- Program loader: it parses text into a constant list and keeps no state. The
  ticks of the model pick any instruction with any operand, which covers every
  program.
- Names longer than the 27 characters of a directory entry: names have no
  length here. They are cut when stored and compared in full, so such a name is
  never found again.
- Operands cut from 64 bits to `int` or `uint32_t` (`S`, `DR`).
- Reads that fail, with what they leave in the buffer, and swapping to a disk
  that fails: the results are ignored, and nothing in the code says what holds
  afterwards.
- Use of the file system after a crash without a format (above).
- Text (argument parsing, dumps, logs, help), fault counters, and the layout of
  structures in a block.
