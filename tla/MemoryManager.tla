--------------------------- MODULE MemoryManager ---------------------------
(***************************************************************************)
(* Demand paging (src/mem/memory_manager.cpp, physical_memory.cpp): page   *)
(* tables, page frames, the Clock replacement with second chance, and the  *)
(* swap blocks that back evicted dirty pages.                              *)
(*                                                                         *)
(* The code moves dummy bytes.  The contents of frames and swap blocks are *)
(* kept here as two history variables that follow each transfer the code   *)
(* makes, so that losing or mixing up a page would be seen.                *)
(***************************************************************************)
EXTENDS Enumeration

CONSTANTS
    Pids,            \* processes that may hold memory
    NumPages,        \* config::DEFAULT_VIRTUAL_PAGES
    NumFrames,       \* config::PAGE_FRAMES
    SwapBlocks,      \* SWAP_START_BLOCK .. DISK_NUM_BLOCKS - 1
    Values,          \* page contents
    Zero             \* what a page holds before its first write

Pages == 0..NumPages - 1
Frames == 0..NumFrames - 1
NoBlock == 0         \* swap_block of a page that was never swapped out
NoPid == -1

ASSUME MemoryManagerAssumption ==
    /\ Pids \subseteq Nat
    /\ NumPages \in Nat
    /\ NumFrames \in Nat \ {0}
    /\ SwapBlocks \subseteq Nat \ {NoBlock}
    /\ IsFiniteSet(SwapBlocks)
    /\ Zero \in Values

VARIABLES
    page_tables,         \* page_tables_: live pids to their page tables
    frames,              \* physical_memory_.frames_
    free_swap_blocks,    \* free_swap_blocks_
    clock_ptr,           \* clock_ptr_
    frame_data,          \* history: what each frame holds
    swap_data            \* history: what each swap block holds

vars == <<page_tables, frames, free_swap_blocks, clock_ptr, frame_data, swap_data>>

Live == DOMAIN page_tables

PageTableEntry ==
    [present : BOOLEAN, frame_number : Frames, dirty : BOOLEAN,
     referenced : BOOLEAN, on_disk : BOOLEAN,
     swap_block : SwapBlocks \cup {NoBlock}]

NewEntry ==
    [present |-> FALSE, frame_number |-> 0, dirty |-> FALSE,
     referenced |-> FALSE, on_disk |-> FALSE, swap_block |-> NoBlock]

FrameInfo ==
    [allocated : BOOLEAN, owner_pid : Pids \cup {NoPid},
     page_number : Pages \cup {0}]

FreeFrame == [allocated |-> FALSE, owner_pid |-> NoPid, page_number |-> 0]

Assigned(pid, page) ==
    [allocated |-> TRUE, owner_pid |-> pid, page_number |-> page]

\* The contents of a page that is not in a frame: its swap block, if it has
\* one, else the zeroes it started with.
Backing(entry) == IF entry.on_disk THEN swap_data[entry.swap_block] ELSE Zero

-----------------------------------------------------------------------------
(* create_process_memory() and free_process_memory()                        *)

CreateProcessMemory(pid) ==
    /\ pid \notin Live
    /\ page_tables' = [p \in Live \cup {pid} |->
                         IF p = pid THEN [g \in Pages |-> NewEntry]
                         ELSE page_tables[p]]
    /\ UNCHANGED <<frames, free_swap_blocks, clock_ptr, frame_data, swap_data>>

\* Faulty variant: the swap blocks of resident pages are forgotten.
ReclaimedAbsent(table) == {g \in Pages : table[g].on_disk /\ ~table[g].present}

\* The pages whose swap block the loop returns: `reclaimed_swap_blocks'
\* lets a block go back once even if several entries named it.
Reclaimed(table) ==
    {g \in Pages :
        /\ table[g].on_disk
        /\ \A h \in Pages : h < g /\ table[h].on_disk =>
             table[h].swap_block # table[g].swap_block}

FreeProcessMemory(pid) ==
    /\ pid \in Live
    /\ LET table == page_tables[pid]
           held  == {table[g].frame_number : g \in {h \in Pages : table[h].present}}
       IN  /\ frames' = [f \in Frames |->
                           IF f \in held THEN FreeFrame ELSE frames[f]]
           /\ \E order \in Ascending(Reclaimed(table)) :
                free_swap_blocks' =
                    free_swap_blocks \o
                    [i \in DOMAIN order |-> table[order[i]].swap_block]
    /\ page_tables' = [p \in Live \ {pid} |-> page_tables[p]]
    /\ UNCHANGED <<clock_ptr, frame_data, swap_data>>

-----------------------------------------------------------------------------
(* access_memory() of a page inside the address space; any other address is *)
(* refused without a trace.  A write stores `value', a read ignores it.     *)

Hit(pid, page, write, value) ==
    /\ pid \in Live
    /\ page_tables[pid][page].present
    /\ page_tables' =
         [page_tables EXCEPT ![pid][page].referenced = TRUE,
                             ![pid][page].dirty = @ \/ write]
    /\ frame_data' = IF write
                     THEN [frame_data EXCEPT
                             ![page_tables[pid][page].frame_number] = value]
                     ELSE frame_data
    /\ UNCHANGED <<frames, free_swap_blocks, clock_ptr, swap_data>>

\* Faulty variants: the frame is not recorded; a written page is not dirty.
LoadedNowhere(entry, f, write) ==
    [entry EXCEPT !.present = TRUE, !.referenced = TRUE, !.dirty = write]
LoadedClean(entry, f, write) ==
    [entry EXCEPT !.present = TRUE, !.frame_number = f, !.referenced = TRUE,
                  !.dirty = FALSE]

\* The entry of a page once handle_page_fault() put it into frame f.
Loaded(entry, f, write) ==
    [entry EXCEPT !.present = TRUE, !.frame_number = f,
                  !.referenced = TRUE, !.dirty = write]

\* What that frame then holds: the page as it was read in, or as written.
LoadedData(entry, write, value) == IF write THEN value ELSE Backing(entry)

FreeFrames == {f \in Frames : ~frames[f].allocated}

FaultToFreeFrame(pid, page, write, value) ==
    /\ pid \in Live
    /\ ~page_tables[pid][page].present
    /\ \E f \in Firsts(FreeFrames) :
         /\ frames' = [frames EXCEPT ![f] = Assigned(pid, page)]
         /\ page_tables' = [page_tables EXCEPT ![pid][page] = Loaded(@, f, write)]
         /\ frame_data' =
              [frame_data EXCEPT ![f] = LoadedData(page_tables[pid][page], write, value)]
    /\ UNCHANGED <<free_swap_blocks, clock_ptr, swap_data>>

(***************************************************************************)
(* The Clock loop.  The hand passes over every referenced page, clearing   *)
(* its bit, and stops at the first page whose bit is clear; when all bits  *)
(* were set it comes round to where it started.  Module ClockSweep shows   *)
(* that the loop of the code does this.                                    *)
(***************************************************************************)
\* Faulty variant: the hand does not wrap around.
AdvancedUnwrapped(f) == f + 1

Advanced(f) == (f + 1) % NumFrames

Hand(k) == (clock_ptr + k) % NumFrames

Referenced(f) ==
    page_tables[frames[f].owner_pid][frames[f].page_number].referenced

\* How many frames the hand passes before it stops.
Passed ==
    {k \in 0..NumFrames :
        /\ \A j \in 0..k - 1 : Referenced(Hand(j))
        /\ k = NumFrames \/ ~Referenced(Hand(k))}

\* The page tables once the hand has passed k frames.
Swept(k) ==
    [p \in Live |-> [g \in Pages |->
        IF \E j \in 0..k - 1 : frames[Hand(j)].owner_pid = p
                              /\ frames[Hand(j)].page_number = g
        THEN [page_tables[p][g] EXCEPT !.referenced = FALSE]
        ELSE page_tables[p][g]]]

NeedsBlock(entry) == entry.dirty /\ ~entry.on_disk

\* Faulty variant: a clean page evicted again loses its swap block.
EvictedForgetting(entry) ==
    [NewEntry EXCEPT
       !.on_disk = entry.dirty,
       !.swap_block = IF NeedsBlock(entry) THEN Head(free_swap_blocks)
                      ELSE entry.swap_block]

\* The victim's entry once it is out: a dirty page has a swap block from
\* now on, and PageTableEntry::clear() keeps the block of a swapped page.
Evicted(entry) ==
    [NewEntry EXCEPT
       !.on_disk = entry.on_disk \/ entry.dirty,
       !.swap_block = IF NeedsBlock(entry) THEN Head(free_swap_blocks)
                      ELSE entry.swap_block]

FaultWithEviction(pid, page, write, value) ==
    /\ pid \in Live
    /\ ~page_tables[pid][page].present
    /\ FreeFrames = {}
    /\ \E k \in Passed :
         LET f       == Hand(k)
             vpid    == frames[f].owner_pid
             vpage   == frames[f].page_number
             victim  == page_tables[vpid][vpage]
             entry   == page_tables[pid][page]
         IN  /\ NeedsBlock(victim) => free_swap_blocks # <<>>
             /\ page_tables' =
                  [Swept(k) EXCEPT ![vpid][vpage] = Evicted(victim),
                                   ![pid][page] = Loaded(entry, f, write)]
             /\ frames' = [frames EXCEPT ![f] = Assigned(pid, page)]
             /\ free_swap_blocks' = IF NeedsBlock(victim) THEN Tail(free_swap_blocks)
                                    ELSE free_swap_blocks
             /\ swap_data' = IF victim.dirty
                             THEN [swap_data EXCEPT
                                     ![Evicted(victim).swap_block] = frame_data[f]]
                             ELSE swap_data
             /\ frame_data' = [frame_data EXCEPT ![f] = LoadedData(entry, write, value)]
             /\ clock_ptr' = Advanced(f)

\* The victim must be swapped out and no block is left: the access fails,
\* with the hand on the victim and the second chances used up.
FaultDenied(pid, page) ==
    /\ pid \in Live
    /\ ~page_tables[pid][page].present
    /\ FreeFrames = {}
    /\ \E k \in Passed :
         LET f == Hand(k)
         IN  /\ NeedsBlock(page_tables[frames[f].owner_pid][frames[f].page_number])
             /\ free_swap_blocks = <<>>
             /\ page_tables' = Swept(k)
             /\ clock_ptr' = f
    /\ UNCHANGED <<frames, free_swap_blocks, frame_data, swap_data>>

AccessMemory(pid, page, write, value) ==
    \/ Hit(pid, page, write, value)
    \/ FaultToFreeFrame(pid, page, write, value)
    \/ FaultWithEviction(pid, page, write, value)
    \/ FaultDenied(pid, page)

-----------------------------------------------------------------------------
Init ==
    /\ page_tables = [p \in {} |-> <<>>]
    /\ frames = [f \in Frames |-> FreeFrame]
    /\ free_swap_blocks \in Ascending(SwapBlocks)
    /\ clock_ptr = 0
    /\ frame_data = [f \in Frames |-> Zero]
    /\ swap_data = [b \in SwapBlocks |-> Zero]

Next ==
    \E pid \in Pids :
        \/ CreateProcessMemory(pid)
        \/ FreeProcessMemory(pid)
        \/ \E page \in Pages, write \in BOOLEAN, value \in Values :
             AccessMemory(pid, page, write, value)

Spec == Init /\ [][Next]_vars

-----------------------------------------------------------------------------
(* Properties.                                                              *)

TypeOK ==
    /\ Live \subseteq Pids
    /\ page_tables \in [Live -> [Pages -> PageTableEntry]]
    /\ frames \in [Frames -> FrameInfo]
    /\ free_swap_blocks \in Seq(SwapBlocks)
    /\ clock_ptr \in Frames
    /\ frame_data \in [Frames -> Values]
    /\ swap_data \in [SwapBlocks -> Values]

\* Frames and page tables agree: an allocated frame is held by exactly the
\* live page it names, and a present page's frame names that page.  The
\* Clock loop throws, or evicts a stranger's page, when they do not.
FramesMatchTables ==
    /\ \A f \in Frames : frames[f].allocated =>
         /\ frames[f].owner_pid \in Live
         /\ frames[f].page_number \in Pages
         /\ page_tables[frames[f].owner_pid][frames[f].page_number].present
         /\ page_tables[frames[f].owner_pid][frames[f].page_number].frame_number = f
    /\ \A p \in Live, g \in Pages : page_tables[p][g].present =>
         frames[page_tables[p][g].frame_number] = Assigned(p, g)

\* A swap block is free exactly once or backs exactly one page; none is
\* lost when processes come and go.
SwapIsConserved ==
    /\ \A i, j \in DOMAIN free_swap_blocks :
         free_swap_blocks[i] = free_swap_blocks[j] => i = j
    /\ \A p \in Live, g \in Pages : page_tables[p][g].on_disk =>
         /\ page_tables[p][g].swap_block \in SwapBlocks
         /\ \A i \in DOMAIN free_swap_blocks :
              free_swap_blocks[i] # page_tables[p][g].swap_block
         /\ \A q \in Live, h \in Pages :
              page_tables[q][h].on_disk
              /\ page_tables[q][h].swap_block = page_tables[p][g].swap_block
                => q = p /\ h = g
    /\ \A b \in SwapBlocks :
         \/ \E i \in DOMAIN free_swap_blocks : free_swap_blocks[i] = b
         \/ \E p \in Live, g \in Pages : /\ page_tables[p][g].on_disk
                                         /\ page_tables[p][g].swap_block = b

\* A page that is not dirty may be dropped from its frame: its backing
\* holds the same contents.
CleanPagesAreBacked ==
    \A p \in Live, g \in Pages :
        page_tables[p][g].present /\ ~page_tables[p][g].dirty =>
          frame_data[page_tables[p][g].frame_number] = Backing(page_tables[p][g])

\* The contents of a page, wherever it is.
Contents(entry) ==
    IF entry.present THEN frame_data[entry.frame_number] ELSE Backing(entry)

VM == INSTANCE VirtualMemory WITH
        memory <- [p \in Live |-> [g \in Pages |-> Contents(page_tables[p][g])]]

\* Paging is invisible: a page changes only when its process writes it, and
\* a process that ends leaves no trace in the memory of the others.
ImplementsVirtualMemory == VM!Spec
=============================================================================
