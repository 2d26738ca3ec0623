------------------------ MODULE MemoryManagerProofs -------------------------
(***************************************************************************)
(* Paging is sound and invisible, and the Clock loop does what the model   *)
(* takes in one step, for every number of processes, pages, frames and     *)
(* swap blocks.                                                            *)
(***************************************************************************)
EXTENDS ClockSweep, EnumerationTheorems, SequenceTheorems

Inv ==
    /\ TypeOK
    /\ FramesMatchTables
    /\ SwapIsConserved
    /\ CleanPagesAreBacked

USE MemoryManagerAssumption

-----------------------------------------------------------------------------
(* The parts of the model.                                                  *)

\* The page numbers and the frame numbers are numbers, and frame 0 exists.
LEMMA Numbers ==
    /\ Pages \subseteq Nat
    /\ Frames \subseteq Nat
    /\ 0 \in Frames
    /\ NoBlock \notin SwapBlocks
  BY DEF Pages, Frames, NoBlock

\* What the fields of a page table entry may hold.
LEMMA EntryFields ==
    ASSUME NEW e \in PageTableEntry
    PROVE  /\ e.present \in BOOLEAN
           /\ e.frame_number \in Frames
           /\ e.dirty \in BOOLEAN
           /\ e.referenced \in BOOLEAN
           /\ e.on_disk \in BOOLEAN
           /\ e.swap_block \in SwapBlocks \cup {NoBlock}
  BY DEF PageTableEntry

\* A new entry is neither in a frame nor in a swap block.
LEMMA NewEntryFields ==
    /\ NewEntry \in PageTableEntry
    /\ ~NewEntry.present
    /\ ~NewEntry.on_disk
    /\ ~NewEntry.dirty
  BY Numbers DEF NewEntry, PageTableEntry

\* An entry that is loaded is in the frame, and keeps its swap block.
LEMMA LoadedFields ==
    ASSUME NEW e \in PageTableEntry, NEW f \in Frames, NEW write \in BOOLEAN
    PROVE  /\ Loaded(e, f, write) \in PageTableEntry
           /\ Loaded(e, f, write).present
           /\ Loaded(e, f, write).frame_number = f
           /\ Loaded(e, f, write).dirty = write
           /\ Loaded(e, f, write).on_disk = e.on_disk
           /\ Loaded(e, f, write).swap_block = e.swap_block
  BY DEF Loaded, PageTableEntry

\* A frame that is assigned names its page.
LEMMA AssignedFields ==
    ASSUME NEW p \in Pids, NEW g \in Pages
    PROVE  /\ Assigned(p, g) \in FrameInfo
           /\ Assigned(p, g).allocated
           /\ Assigned(p, g).owner_pid = p
           /\ Assigned(p, g).page_number = g
  BY DEF Assigned, FrameInfo

\* A free frame is not allocated.
LEMMA FreeFrameFields == FreeFrame \in FrameInfo /\ ~FreeFrame.allocated
  BY DEF FreeFrame, FrameInfo

\* Page tables of the processes in L, and with one entry replaced.
Tables(L) == [L -> [Pages -> PageTableEntry]]
Replaced(tables, p, g, e) == [tables EXCEPT ![p][g] = e]

\* Replacing one entry of the page tables leaves the others alone.
LEMMA EntryReplaced ==
    ASSUME NEW L, NEW tables \in Tables(L),
           NEW p \in L, NEW g \in Pages, NEW e \in PageTableEntry
    PROVE  /\ Replaced(tables, p, g, e) \in Tables(L)
           /\ \A q \in L, h \in Pages :
                Replaced(tables, p, g, e)[q][h]
                  = IF q = p /\ h = g THEN e ELSE tables[q][h]
  BY DEF Replaced, Tables

\* The page tables are those of the live processes.
LEMMA TablesType ==
    ASSUME Inv
    PROVE  /\ page_tables \in Tables(Live)
           /\ \A p \in Live, g \in Pages : page_tables[p][g] \in PageTableEntry
  BY DEF Inv, TypeOK, Tables

\* The processes of the page tables.
LEMMA TablesDomain ==
    ASSUME NEW L, page_tables' \in Tables(L)
    PROVE  /\ Live' = L
           /\ page_tables' \in [L -> [Pages -> PageTableEntry]]
           /\ page_tables' \in [Live' -> [Pages -> PageTableEntry]]
  BY DEF Tables, Live

\* Two pages that are in the same frame are the same page.
LEMMA FrameHoldsOnePage ==
    ASSUME Inv,
           NEW p \in Live, NEW g \in Pages, NEW q \in Live, NEW h \in Pages,
           page_tables[p][g].present, page_tables[q][h].present,
           page_tables[p][g].frame_number = page_tables[q][h].frame_number
    PROVE  p = q /\ g = h
<1>1. Assigned(p, g) = Assigned(q, h)
  BY DEF Inv, FramesMatchTables
<1> QED BY <1>1 DEF Assigned

\* The frame of a page that is present is allocated.
LEMMA PresentIsAllocated ==
    ASSUME Inv, NEW p \in Live, NEW g \in Pages, page_tables[p][g].present
    PROVE  /\ page_tables[p][g].frame_number \in Frames
           /\ frames[page_tables[p][g].frame_number].allocated
<1>1. page_tables[p][g].frame_number \in Frames
  BY TablesType, EntryFields
<1>2. frames[page_tables[p][g].frame_number] = Assigned(p, g)
  BY DEF Inv, FramesMatchTables
<1> QED BY <1>1, <1>2 DEF Assigned

\* What backs a page is a page's contents.
LEMMA BackingType ==
    ASSUME Inv, NEW p \in Live, NEW g \in Pages
    PROVE  Backing(page_tables[p][g]) \in Values
<1>1. page_tables[p][g].on_disk => page_tables[p][g].swap_block \in SwapBlocks
  BY DEF Inv, SwapIsConserved
<1>2. swap_data \in [SwapBlocks -> Values]
  BY DEF Inv, TypeOK
<1> QED BY <1>1, <1>2 DEF Backing

-----------------------------------------------------------------------------
(* create_process_memory()                                                  *)

\* What a new process adds to the page tables.
LEMMA CreateEffect ==
    ASSUME Inv, NEW pid \in Pids, CreateProcessMemory(pid)
    PROVE  /\ Live' = Live \cup {pid}
           /\ pid \notin Live
           /\ \A g \in Pages : page_tables'[pid][g] = NewEntry
           /\ \A p \in Live : page_tables'[p] = page_tables[p]
           /\ page_tables' \in [Live' -> [Pages -> PageTableEntry]]
  BY NewEntryFields DEF CreateProcessMemory, Live, Inv, TypeOK

\* A new process keeps the invariant: its pages are in no frame and in no
\* swap block.
LEMMA CreateKeepsInv ==
    ASSUME Inv, NEW pid \in Pids, CreateProcessMemory(pid)
    PROVE  Inv'
<1> USE CreateEffect
<1>0. UNCHANGED <<frames, free_swap_blocks, clock_ptr, frame_data, swap_data>>
  BY DEF CreateProcessMemory
<1>1. TypeOK'
  BY <1>0 DEF Inv, TypeOK
<1>2. FramesMatchTables'
  BY <1>0, NewEntryFields, SMTT(30) DEF Inv, FramesMatchTables
<1>3. SwapIsConserved'
  BY <1>0, NewEntryFields DEF Inv, SwapIsConserved
<1>4. CleanPagesAreBacked'
  BY <1>0, NewEntryFields DEF Inv, CleanPagesAreBacked, Backing
<1> QED BY <1>1, <1>2, <1>3, <1>4 DEF Inv

-----------------------------------------------------------------------------
(* access_memory() of a page that is in a frame                             *)

\* No page changes its swap block.
SameBlocks ==
    /\ Live' = Live
    /\ \A p \in Live, g \in Pages :
         /\ page_tables'[p][g].on_disk = page_tables[p][g].on_disk
         /\ page_tables'[p][g].swap_block = page_tables[p][g].swap_block

\* No page moves at all.
SamePlaces ==
    /\ SameBlocks
    /\ page_tables' \in Tables(Live)
    /\ \A p \in Live, g \in Pages :
         /\ page_tables'[p][g].present = page_tables[p][g].present
         /\ page_tables'[p][g].frame_number = page_tables[p][g].frame_number

\* No page but the written one becomes dirty.
Dirtied(pid, page, write) ==
    \A p \in Live, g \in Pages :
        page_tables'[p][g].dirty <=>
          page_tables[p][g].dirty \/ (p = pid /\ g = page /\ write)

\* A hit moves no page, and dirties the page it writes.
LEMMA HitEffect ==
    ASSUME Inv, NEW pid \in Pids, NEW page \in Pages, NEW write \in BOOLEAN,
           NEW value \in Values, Hit(pid, page, write, value)
    PROVE  /\ SamePlaces
           /\ Dirtied(pid, page, write)
<1> DEFINE touched == [page_tables[pid][page] EXCEPT !.referenced = TRUE,
                                                     !.dirty = @ \/ write]
<1>1. /\ pid \in Live
      /\ page_tables' = [page_tables EXCEPT ![pid][page].referenced = TRUE,
                                            ![pid][page].dirty = @ \/ write]
  BY DEF Hit
<1>2. page_tables \in Tables(Live) /\ page_tables[pid][page] \in PageTableEntry
  BY <1>1, TablesType
<1>3. page_tables' = Replaced(page_tables, pid, page, touched)
  BY <1>1, <1>2 DEF Replaced, Tables
<1>4. /\ touched \in PageTableEntry
      /\ touched.present = page_tables[pid][page].present
      /\ touched.frame_number = page_tables[pid][page].frame_number
      /\ touched.on_disk = page_tables[pid][page].on_disk
      /\ touched.swap_block = page_tables[pid][page].swap_block
      /\ touched.dirty <=> (page_tables[pid][page].dirty \/ write)
  BY <1>2 DEF PageTableEntry
<1> HIDE DEF touched
<1>5. /\ page_tables' \in Tables(Live)
      /\ \A p \in Live, g \in Pages :
           page_tables'[p][g] = IF p = pid /\ g = page THEN touched
                                ELSE page_tables[p][g]
  <2>1. pid \in Live /\ touched \in PageTableEntry
    BY <1>1, <1>4
  <2> QED BY <1>2, <1>3, <2>1, EntryReplaced
<1>6. Live' = Live
  BY <1>5, TablesDomain
<1>7. SamePlaces
  BY <1>4, <1>5, <1>6 DEF SamePlaces, SameBlocks
<1>8. Dirtied(pid, page, write)
  BY <1>4, <1>5 DEF Dirtied
<1> QED BY <1>7, <1>8

\* When no page moves, frames and page tables go on agreeing.
LEMMA SamePlacesMatch ==
    ASSUME FramesMatchTables, SamePlaces, frames' = frames
    PROVE  FramesMatchTables'
<1>1. SUFFICES /\ \A f \in Frames : frames[f].allocated =>
                    /\ frames[f].owner_pid \in Live
                    /\ frames[f].page_number \in Pages
                    /\ page_tables'[frames[f].owner_pid][frames[f].page_number].present
                    /\ page_tables'[frames[f].owner_pid][frames[f].page_number].frame_number = f
               /\ \A p \in Live, g \in Pages : page_tables'[p][g].present =>
                    frames[page_tables'[p][g].frame_number] = Assigned(p, g)
  BY DEF FramesMatchTables, SamePlaces, SameBlocks
<1> QED BY DEF FramesMatchTables, SamePlaces, SameBlocks

\* When no page changes its swap block, the blocks stay conserved.
LEMMA SameBlocksConserved ==
    ASSUME SwapIsConserved, SameBlocks, free_swap_blocks' = free_swap_blocks
    PROVE  SwapIsConserved'
  BY DEF SwapIsConserved, SameBlocks

\* A hit keeps the invariant: only a write touches a frame, and it marks
\* the page dirty.
LEMMA HitKeepsInv ==
    ASSUME Inv, NEW pid \in Pids, NEW page \in Pages, NEW write \in BOOLEAN,
           NEW value \in Values, Hit(pid, page, write, value)
    PROVE  Inv'
<1>1. /\ UNCHANGED <<frames, free_swap_blocks, clock_ptr, swap_data>>
      /\ frame_data' = IF write
                       THEN [frame_data EXCEPT
                               ![page_tables[pid][page].frame_number] = value]
                       ELSE frame_data
      /\ pid \in Live
      /\ page_tables[pid][page].present
  BY DEF Hit
<1>2. SamePlaces /\ Dirtied(pid, page, write)
  BY HitEffect
<1>3. TypeOK'
  BY <1>1, <1>2, TablesDomain DEF Inv, TypeOK, SamePlaces, SameBlocks
<1>4. FramesMatchTables'
  BY <1>1, <1>2, SamePlacesMatch DEF Inv
<1>5. SwapIsConserved'
  BY <1>1, <1>2, SameBlocksConserved DEF Inv, SamePlaces
<1>6. CleanPagesAreBacked'
  <2> SUFFICES ASSUME NEW p \in Live, NEW g \in Pages,
                      page_tables'[p][g].present, ~page_tables'[p][g].dirty
               PROVE  frame_data'[page_tables'[p][g].frame_number]
                        = Backing(page_tables[p][g])'
    <3>1. Live' = Live
      BY <1>2 DEF SamePlaces, SameBlocks
    <3> QED BY <3>1 DEF CleanPagesAreBacked
  <2>1. page_tables[p][g].present /\ ~page_tables[p][g].dirty
    BY <1>2 DEF Dirtied, SamePlaces, SameBlocks
  <2>2. Backing(page_tables[p][g])' = Backing(page_tables[p][g])
    BY <1>1, <1>2 DEF Backing, SamePlaces, SameBlocks
  <2>3. frame_data'[page_tables[p][g].frame_number]
          = frame_data[page_tables[p][g].frame_number]
    <3>1. CASE ~write
      BY <1>1, <3>1
    <3>2. CASE write
      <4>1. ~(p = pid /\ g = page)
        BY <1>2, <3>2 DEF Dirtied
      <4>2. page_tables[p][g].frame_number # page_tables[pid][page].frame_number
        BY <1>1, <2>1, <4>1, FrameHoldsOnePage
      <4>3. page_tables[p][g].frame_number \in Frames
        BY EntryFields DEF Inv, TypeOK
      <4> QED BY <1>1, <3>2, <4>2, <4>3 DEF Inv, TypeOK
    <3> QED BY <3>1, <3>2
  <2>4. page_tables'[p][g].frame_number = page_tables[p][g].frame_number
    BY <1>2 DEF SamePlaces, SameBlocks
  <2> QED BY <2>1, <2>2, <2>3, <2>4 DEF Inv, CleanPagesAreBacked
<1> QED BY <1>3, <1>4, <1>5, <1>6 DEF Inv
-----------------------------------------------------------------------------
(* access_memory() of a page that is in no frame, while a frame is free     *)

\* Page `page' of pid is put into frame f: a page that was there is out of
\* it, and every other page stays where it is.
PlacedIn(f, pid, page) ==
    /\ Live' = Live
    /\ page_tables'[pid][page].present
    /\ page_tables'[pid][page].frame_number = f
    /\ \A p \in Live, g \in Pages : ~(p = pid /\ g = page) =>
         IF page_tables[p][g].present /\ page_tables[p][g].frame_number = f
         THEN ~page_tables'[p][g].present
         ELSE /\ page_tables'[p][g].present = page_tables[p][g].present
              /\ page_tables'[p][g].frame_number = page_tables[p][g].frame_number

\* Once a page is put into a frame that names it, frames and page tables
\* agree again.
LEMMA PlacedMatch ==
    ASSUME Inv, NEW pid \in Live, NEW page \in Pages, NEW f \in Frames,
           ~page_tables[pid][page].present,
           PlacedIn(f, pid, page),
           frames' = [frames EXCEPT ![f] = Assigned(pid, page)]
    PROVE  FramesMatchTables'
<1>1. pid \in Pids /\ frames \in [Frames -> FrameInfo]
  BY DEF Inv, TypeOK
<1>2. /\ frames'[f] = Assigned(pid, page)
      /\ \A h \in Frames \ {f} : frames'[h] = frames[h]
  BY <1>1
<1>3. ASSUME NEW h \in Frames, frames'[h].allocated
      PROVE  /\ frames'[h].owner_pid \in Live'
             /\ frames'[h].page_number \in Pages
             /\ page_tables'[frames'[h].owner_pid][frames'[h].page_number].present
             /\ page_tables'[frames'[h].owner_pid][frames'[h].page_number].frame_number
                  = h
  <2>1. CASE h = f
    BY <1>1, <1>2, <2>1, AssignedFields DEF PlacedIn
  <2>2. CASE h # f
    <3> DEFINE p == frames[h].owner_pid
               g == frames[h].page_number
    <3>1. frames'[h] = frames[h]
      BY <1>2, <2>2
    <3>2. /\ p \in Live /\ g \in Pages
          /\ page_tables[p][g].present
          /\ page_tables[p][g].frame_number = h
      BY <1>3, <3>1 DEF Inv, FramesMatchTables
    <3> HIDE DEF p, g
    <3>3. /\ page_tables'[p][g].present
          /\ page_tables'[p][g].frame_number = h
      BY <2>2, <3>2 DEF PlacedIn
    <3>4. Live' = Live
      BY DEF PlacedIn
    <3> QED BY <3>1, <3>2, <3>3, <3>4 DEF p, g
  <2> QED BY <2>1, <2>2
<1>4. ASSUME NEW p \in Live, NEW g \in Pages, page_tables'[p][g].present
      PROVE  frames'[page_tables'[p][g].frame_number] = Assigned(p, g)
  <2>1. CASE p = pid /\ g = page
    BY <1>2, <2>1 DEF PlacedIn
  <2>2. CASE ~(p = pid /\ g = page)
    <3>1. /\ page_tables[p][g].present
          /\ page_tables[p][g].frame_number # f
          /\ page_tables'[p][g].frame_number = page_tables[p][g].frame_number
      BY <1>4, <2>2 DEF PlacedIn
    <3>2. page_tables[p][g].frame_number \in Frames
      BY TablesType, EntryFields
    <3>3. frames[page_tables[p][g].frame_number] = Assigned(p, g)
      BY <3>1 DEF Inv, FramesMatchTables
    <3> QED BY <1>2, <3>1, <3>2, <3>3
  <2> QED BY <2>1, <2>2
<1>5. Live' = Live
  BY DEF PlacedIn
<1> QED BY <1>3, <1>4, <1>5 DEF FramesMatchTables

\* What the fault of `page' does when frame f is free.
LoadedInto(f, pid, page, write, value) ==
    /\ page_tables' \in Tables(Live)
    /\ page_tables'[pid][page] = Loaded(page_tables[pid][page], f, write)
    /\ \A p \in Live, g \in Pages : ~(p = pid /\ g = page) =>
         page_tables'[p][g] = page_tables[p][g]
    /\ frames' = [frames EXCEPT ![f] = Assigned(pid, page)]
    /\ frame_data' = [frame_data EXCEPT
                        ![f] = LoadedData(page_tables[pid][page], write, value)]
    /\ PlacedIn(f, pid, page)
    /\ SameBlocks
    /\ \A p \in Live, g \in Pages : page_tables[p][g].present =>
         page_tables[p][g].frame_number # f

\* A page is loaded into a frame that holds no page.
LEMMA LoadEffect ==
    ASSUME Inv, NEW pid \in Pids, NEW page \in Pages, NEW write \in BOOLEAN,
           NEW value \in Values, FaultToFreeFrame(pid, page, write, value)
    PROVE  \E f \in Frames : LoadedInto(f, pid, page, write, value)
<1> DEFINE entry  == page_tables[pid][page]
           loaded(f) == Loaded(entry, f, write)
<1>1. pid \in Live
  BY DEF FaultToFreeFrame
<1>2. PICK f \in Firsts(FreeFrames) :
        /\ frames' = [frames EXCEPT ![f] = Assigned(pid, page)]
        /\ page_tables' = [page_tables EXCEPT ![pid][page] = Loaded(@, f, write)]
        /\ frame_data' = [frame_data EXCEPT ![f] = LoadedData(entry, write, value)]
  BY DEF FaultToFreeFrame
<1>3. f \in Frames /\ ~frames[f].allocated
  BY DEF Firsts, FreeFrames
<1>4. page_tables \in Tables(Live) /\ entry \in PageTableEntry
  BY <1>1, TablesType
<1>5. /\ loaded(f) \in PageTableEntry
      /\ loaded(f).present
      /\ loaded(f).frame_number = f
      /\ loaded(f).on_disk = entry.on_disk
      /\ loaded(f).swap_block = entry.swap_block
  BY <1>3, <1>4, LoadedFields
<1>6. page_tables' = Replaced(page_tables, pid, page, loaded(f))
  BY <1>1, <1>2, <1>4 DEF Replaced, Tables
<1> HIDE DEF loaded
<1>7. /\ page_tables' \in Tables(Live)
      /\ \A p \in Live, g \in Pages :
           page_tables'[p][g] = IF p = pid /\ g = page THEN loaded(f)
                                ELSE page_tables[p][g]
  BY <1>1, <1>4, <1>5, <1>6, EntryReplaced
<1>8. Live' = Live
  BY <1>7, TablesDomain
<1>9. \A p \in Live, g \in Pages : page_tables[p][g].present =>
        page_tables[p][g].frame_number # f
  BY <1>3, PresentIsAllocated
<1>10. PlacedIn(f, pid, page)
  BY <1>1, <1>5, <1>7, <1>8, <1>9 DEF PlacedIn
<1>11. SameBlocks
  BY <1>5, <1>7, <1>8 DEF SameBlocks
<1>12. page_tables'[pid][page] = Loaded(entry, f, write)
  BY <1>1, <1>7 DEF loaded
<1>13. LoadedInto(f, pid, page, write, value)
  BY <1>2, <1>7, <1>9, <1>10, <1>11, <1>12 DEF LoadedInto
<1> QED BY <1>3, <1>13

\* A page loaded into a free frame keeps the invariant: no page was there.
LEMMA LoadKeepsInv ==
    ASSUME Inv, NEW pid \in Pids, NEW page \in Pages, NEW write \in BOOLEAN,
           NEW value \in Values, FaultToFreeFrame(pid, page, write, value)
    PROVE  Inv'
<1> DEFINE entry == page_tables[pid][page]
<1>1. /\ pid \in Live
      /\ ~entry.present
      /\ UNCHANGED <<free_swap_blocks, clock_ptr, swap_data>>
  BY DEF FaultToFreeFrame
<1>2. PICK f \in Frames : LoadedInto(f, pid, page, write, value)
  BY LoadEffect
<1>3. /\ page_tables' \in Tables(Live)
      /\ page_tables'[pid][page] = Loaded(entry, f, write)
      /\ \A p \in Live, g \in Pages : ~(p = pid /\ g = page) =>
           page_tables'[p][g] = page_tables[p][g]
      /\ frames' = [frames EXCEPT ![f] = Assigned(pid, page)]
      /\ frame_data' = [frame_data EXCEPT ![f] = LoadedData(entry, write, value)]
      /\ PlacedIn(f, pid, page)
      /\ SameBlocks
      /\ \A p \in Live, g \in Pages : page_tables[p][g].present =>
           page_tables[p][g].frame_number # f
  BY <1>2 DEF LoadedInto
<1>4. Live' = Live
  BY <1>3, TablesDomain
<1>5. TypeOK'
  <2>1. LoadedData(entry, write, value) \in Values
    BY <1>1, BackingType DEF LoadedData
  <2>2. Assigned(pid, page) \in FrameInfo
    BY AssignedFields
  <2>3. frames' \in [Frames -> FrameInfo] /\ frame_data' \in [Frames -> Values]
    BY <1>3, <2>1, <2>2 DEF Inv, TypeOK
  <2>4. page_tables' \in [Live' -> [Pages -> PageTableEntry]]
    BY <1>3, TablesDomain
  <2> QED BY <1>1, <1>4, <2>3, <2>4 DEF Inv, TypeOK
<1>6. FramesMatchTables'
  BY <1>1, <1>3, PlacedMatch
<1>7. SwapIsConserved'
  BY <1>1, <1>3, SameBlocksConserved DEF Inv
<1>8. CleanPagesAreBacked'
  <2> SUFFICES ASSUME NEW p \in Live, NEW g \in Pages,
                      page_tables'[p][g].present, ~page_tables'[p][g].dirty
               PROVE  frame_data'[page_tables'[p][g].frame_number]
                        = Backing(page_tables[p][g])'
    BY <1>4 DEF CleanPagesAreBacked
  <2>1. Backing(page_tables[p][g])' = Backing(page_tables[p][g])
    BY <1>1, <1>3 DEF Backing, SameBlocks
  <2>2. frame_data \in [Frames -> Values]
    BY DEF Inv, TypeOK
  <2>3. CASE p = pid /\ g = page
    <3>1. page_tables'[p][g].frame_number = f /\ ~write
      BY <1>1, <1>3, <2>3, TablesType, LoadedFields
    <3>2. frame_data'[f] = Backing(entry)
      BY <1>3, <2>2, <3>1 DEF LoadedData
    <3> QED BY <2>1, <2>3, <3>1, <3>2
  <2>4. CASE ~(p = pid /\ g = page)
    <3>1. page_tables'[p][g] = page_tables[p][g]
      BY <1>3, <2>4
    <3>2. /\ page_tables[p][g].frame_number \in Frames
          /\ page_tables[p][g].frame_number # f
      BY <1>3, <3>1, TablesType, EntryFields
    <3>3. frame_data'[page_tables[p][g].frame_number]
            = frame_data[page_tables[p][g].frame_number]
      BY <1>3, <2>2, <3>2
    <3> QED BY <2>1, <3>1, <3>3 DEF Inv, CleanPagesAreBacked
  <2> QED BY <2>3, <2>4
<1> QED BY <1>5, <1>6, <1>7, <1>8 DEF Inv

-----------------------------------------------------------------------------
(* access_memory() of a page that is in no frame, while all frames are in   *)
(* use: the Clock loop and the eviction                                     *)

\* The hand stays on the frames.
LEMMA HandInFrames ==
    ASSUME clock_ptr \in Frames, NEW k \in Nat
    PROVE  Hand(k) \in Frames
  BY Numbers DEF Hand, Frames

\* The hand advances to a frame.
LEMMA AdvancedInFrames ==
    ASSUME NEW f \in Frames
    PROVE  Advanced(f) \in Frames
  BY DEF Advanced, Frames

\* The hand stops, and at one frame only: no fault is stuck in the Clock
\* loop, and the bits alone decide which page goes (memory_manager.cpp:134-194).
THEOREM HandStopsOnce ==
    \E k \in Passed : \A j \in Passed : j = k
<1> DEFINE A == {k \in 0..NumFrames : k = NumFrames \/ ~Referenced(Hand(k))}
<1>1. PICK k \in A : \A j \in A : k <= j
  <2>1. NumFrames \in A /\ A \in SUBSET (0..NumFrames) /\ NumFrames \in Nat
    OBVIOUS
  <2> HIDE DEF A
  <2> QED BY <2>1, LeastExists
<1>2. k \in 0..NumFrames /\ (k = NumFrames \/ ~Referenced(Hand(k)))
  OBVIOUS
<1>3. \A j \in 0..k - 1 : Referenced(Hand(j))
  <2> SUFFICES ASSUME NEW j \in 0..k - 1 PROVE Referenced(Hand(j))
    OBVIOUS
  <2>1. j \in 0..NumFrames /\ ~(k <= j)
    BY <1>2
  <2> QED BY <1>1, <2>1
<1>4. k \in Passed
  BY <1>2, <1>3 DEF Passed
<1>5. ASSUME NEW j \in Passed
      PROVE  j = k
  <2>1. j \in A /\ \A i \in 0..j - 1 : Referenced(Hand(i))
    BY DEF Passed
  <2>2. k <= j
    BY <1>1, <2>1
  <2>3. CASE k < j
    <3>1. k \in 0..j - 1 /\ k # NumFrames
      BY <1>2, <2>1, <2>3
    <3> QED BY <1>2, <2>1, <3>1
  <2> QED BY <1>2, <2>1, <2>2, <2>3
<1> QED BY <1>4, <1>5

\* The frame on which the hand stops while no frame is free holds a page,
\* and that page is there.
LEMMA VictimIsPresent ==
    ASSUME Inv, FreeFrames = {}, NEW f \in Frames
    PROVE  /\ frames[f].owner_pid \in Live
           /\ frames[f].page_number \in Pages
           /\ page_tables[frames[f].owner_pid][frames[f].page_number].present
           /\ page_tables[frames[f].owner_pid][frames[f].page_number].frame_number
                = f
<1>1. frames[f].allocated
  BY DEF FreeFrames
<1> QED BY <1>1 DEF Inv, FramesMatchTables

\* Two entries differ at most in the reference bit.
SameButReferenced(e, d) ==
    /\ e.present = d.present
    /\ e.frame_number = d.frame_number
    /\ e.dirty = d.dirty
    /\ e.on_disk = d.on_disk
    /\ e.swap_block = d.swap_block

\* The sweep of the hand clears reference bits and nothing else.
LEMMA SweptEffect ==
    ASSUME Inv, NEW k
    PROVE  /\ Swept(k) \in Tables(Live)
           /\ \A p \in Live, g \in Pages :
                SameButReferenced(Swept(k)[p][g], page_tables[p][g])
<1> DEFINE passed(p, g) == \E j \in 0..k - 1 : /\ frames[Hand(j)].owner_pid = p
                                              /\ frames[Hand(j)].page_number = g
           cleared(e) == [e EXCEPT !.referenced = FALSE]
<1>1. \A e \in PageTableEntry :
        cleared(e) \in PageTableEntry /\ SameButReferenced(cleared(e), e)
  BY DEF PageTableEntry, SameButReferenced
<1>2. Swept(k) = [p \in Live |-> [g \in Pages |->
                   IF passed(p, g) THEN cleared(page_tables[p][g])
                   ELSE page_tables[p][g]]]
  BY DEF Swept
<1> HIDE DEF passed, cleared
<1>3. \A p \in Live, g \in Pages : page_tables[p][g] \in PageTableEntry
  BY TablesType
<1>4. Swept(k) \in Tables(Live)
  BY <1>1, <1>2, <1>3 DEF Tables
<1>5. ASSUME NEW p \in Live, NEW g \in Pages
      PROVE  SameButReferenced(Swept(k)[p][g], page_tables[p][g])
  <2>1. Swept(k)[p][g] = IF passed(p, g) THEN cleared(page_tables[p][g])
                         ELSE page_tables[p][g]
    BY <1>2
  <2>2. SameButReferenced(page_tables[p][g], page_tables[p][g])
    BY DEF SameButReferenced
  <2> QED BY <1>1, <1>3, <2>1, <2>2
<1> QED BY <1>4, <1>5

\* An access that fails for want of a swap block keeps the invariant: it
\* moved the hand and cleared reference bits.
LEMMA DeniedKeepsInv ==
    ASSUME Inv, NEW pid \in Pids, NEW page \in Pages, FaultDenied(pid, page)
    PROVE  Inv'
<1>1. UNCHANGED <<frames, free_swap_blocks, frame_data, swap_data>>
  BY DEF FaultDenied
<1>2. PICK k \in Passed : page_tables' = Swept(k) /\ clock_ptr' = Hand(k)
  BY DEF FaultDenied
<1>3. k \in Nat
  BY DEF Passed
<1>4. clock_ptr' \in Frames
  BY <1>2, <1>3, HandInFrames DEF Inv, TypeOK
<1>5. /\ page_tables' \in Tables(Live)
      /\ \A p \in Live, g \in Pages :
           SameButReferenced(page_tables'[p][g], page_tables[p][g])
  BY <1>2, SweptEffect
<1>6. Live' = Live /\ page_tables' \in [Live' -> [Pages -> PageTableEntry]]
  BY <1>5, TablesDomain
<1>7. SameBlocks
  BY <1>5, <1>6 DEF SameBlocks, SameButReferenced
<1>8. SamePlaces
  BY <1>5, <1>7 DEF SamePlaces, SameButReferenced
<1>9. TypeOK'
  BY <1>1, <1>4, <1>6 DEF Inv, TypeOK
<1>10. FramesMatchTables'
  BY <1>1, <1>8, SamePlacesMatch DEF Inv
<1>11. SwapIsConserved'
  BY <1>1, <1>7, SameBlocksConserved DEF Inv
<1>12. CleanPagesAreBacked'
  <2> SUFFICES ASSUME NEW p \in Live, NEW g \in Pages,
                      page_tables'[p][g].present, ~page_tables'[p][g].dirty
               PROVE  frame_data'[page_tables'[p][g].frame_number]
                        = Backing(page_tables[p][g])'
    BY <1>6 DEF CleanPagesAreBacked
  <2>1. Backing(page_tables[p][g])' = Backing(page_tables[p][g])
    BY <1>1, <1>7 DEF Backing, SameBlocks
  <2>2. /\ page_tables[p][g].present /\ ~page_tables[p][g].dirty
        /\ page_tables'[p][g].frame_number = page_tables[p][g].frame_number
    BY <1>5 DEF SameButReferenced
  <2> QED BY <1>1, <2>1, <2>2 DEF Inv, CleanPagesAreBacked
<1> QED BY <1>9, <1>10, <1>11, <1>12 DEF Inv

\* A victim leaves its frame, and is on disk if it was or if it was dirty.
LEMMA EvictedFields ==
    ASSUME Inv, NEW e \in PageTableEntry,
           NeedsBlock(e) => free_swap_blocks # <<>>
    PROVE  /\ Evicted(e) \in PageTableEntry
           /\ ~Evicted(e).present
           /\ Evicted(e).on_disk <=> e.on_disk \/ e.dirty
           /\ Evicted(e).swap_block = IF NeedsBlock(e) THEN Head(free_swap_blocks)
                                      ELSE e.swap_block
<1> DEFINE block == IF NeedsBlock(e) THEN Head(free_swap_blocks) ELSE e.swap_block
           onDisk == e.on_disk \/ e.dirty
<1>1. free_swap_blocks \in Seq(SwapBlocks)
  BY DEF Inv, TypeOK
<1>2. free_swap_blocks # <<>> => Head(free_swap_blocks) \in SwapBlocks
  BY <1>1
<1>3. block \in SwapBlocks \cup {NoBlock}
  BY <1>2, EntryFields
<1>4. onDisk \in BOOLEAN
  BY EntryFields
<1>5. Evicted(e) = [NewEntry EXCEPT !.on_disk = onDisk, !.swap_block = block]
  BY DEF Evicted
<1> HIDE DEF block, onDisk
<1>6. Evicted(e) = [present |-> FALSE, frame_number |-> 0, dirty |-> FALSE,
                    referenced |-> FALSE, on_disk |-> onDisk, swap_block |-> block]
  BY <1>5 DEF NewEntry
<1>7. /\ Evicted(e) \in PageTableEntry
      /\ ~Evicted(e).present
      /\ Evicted(e).on_disk = onDisk
      /\ Evicted(e).swap_block = block
  BY <1>3, <1>4, <1>6, Numbers DEF PageTableEntry
<1> QED BY <1>7 DEF block, onDisk

\* The page that is in frame f.
VictimPid(f) == frames[f].owner_pid
VictimPage(f) == frames[f].page_number
Victim(f) == page_tables[VictimPid(f)][VictimPage(f)]

\* What the fault of `page' does when it takes frame f from its victim.
TakenFrom(f, pid, page, write, value) ==
    /\ Live' = Live
    /\ page_tables' \in Tables(Live)
    /\ page_tables'[pid][page] = Loaded(page_tables[pid][page], f, write)
    /\ page_tables'[VictimPid(f)][VictimPage(f)] = Evicted(Victim(f))
    /\ \A p \in Live, g \in Pages :
         \/ p = pid /\ g = page
         \/ p = VictimPid(f) /\ g = VictimPage(f)
         \/ SameButReferenced(page_tables'[p][g], page_tables[p][g])
    /\ frames' = [frames EXCEPT ![f] = Assigned(pid, page)]
    /\ free_swap_blocks' = IF NeedsBlock(Victim(f)) THEN Tail(free_swap_blocks)
                           ELSE free_swap_blocks
    /\ swap_data' = IF Victim(f).dirty
                    THEN [swap_data EXCEPT
                            ![Evicted(Victim(f)).swap_block] = frame_data[f]]
                    ELSE swap_data
    /\ frame_data' = [frame_data EXCEPT
                        ![f] = LoadedData(page_tables[pid][page], write, value)]
    /\ clock_ptr' \in Frames

\* The page that is evicted is another one than the page that is loaded,
\* and every other page keeps its place.
LEMMA EvictionEffect ==
    ASSUME Inv, NEW pid \in Pids, NEW page \in Pages, NEW write \in BOOLEAN,
           NEW value \in Values, FaultWithEviction(pid, page, write, value)
    PROVE  /\ pid \in Live
           /\ ~page_tables[pid][page].present
           /\ FreeFrames = {}
           /\ \E f \in Frames :
                /\ NeedsBlock(Victim(f)) => free_swap_blocks # <<>>
                /\ TakenFrom(f, pid, page, write, value)
<1>1. /\ pid \in Live
      /\ ~page_tables[pid][page].present
      /\ FreeFrames = {}
  BY DEF FaultWithEviction
<1>2. PICK k \in Passed :
        LET f == Hand(k)
        IN  /\ NeedsBlock(Victim(f)) => free_swap_blocks # <<>>
            /\ page_tables' =
                 [Swept(k) EXCEPT
                    ![VictimPid(f)][VictimPage(f)] = Evicted(Victim(f)),
                    ![pid][page] = Loaded(page_tables[pid][page], f, write)]
            /\ frames' = [frames EXCEPT ![f] = Assigned(pid, page)]
            /\ free_swap_blocks' = IF NeedsBlock(Victim(f))
                                   THEN Tail(free_swap_blocks)
                                   ELSE free_swap_blocks
            /\ swap_data' = IF Victim(f).dirty
                            THEN [swap_data EXCEPT
                                    ![Evicted(Victim(f)).swap_block] = frame_data[f]]
                            ELSE swap_data
            /\ frame_data' =
                 [frame_data EXCEPT
                    ![f] = LoadedData(page_tables[pid][page], write, value)]
            /\ clock_ptr' = Advanced(f)
  BY DEF FaultWithEviction, Victim, VictimPid, VictimPage
<1> DEFINE f      == Hand(k)
           out    == Evicted(Victim(f))
           loaded == Loaded(page_tables[pid][page], f, write)
           half   == Replaced(Swept(k), VictimPid(f), VictimPage(f), out)
<1>3. f \in Frames
  BY HandInFrames DEF Passed, Inv, TypeOK
<1>4. clock_ptr' \in Frames
  BY <1>2, <1>3, AdvancedInFrames
<1>5. page_tables' = Replaced(half, pid, page, loaded)
  BY <1>2 DEF Replaced
<1>6. /\ VictimPid(f) \in Live /\ VictimPage(f) \in Pages
      /\ Victim(f).present
  BY <1>1, <1>3, VictimIsPresent DEF Victim, VictimPid, VictimPage
<1>7. /\ Swept(k) \in Tables(Live)
      /\ \A p \in Live, g \in Pages :
           SameButReferenced(Swept(k)[p][g], page_tables[p][g])
  BY SweptEffect
<1>8. NeedsBlock(Victim(f)) => free_swap_blocks # <<>>
  BY <1>2
<1>9. out \in PageTableEntry /\ loaded \in PageTableEntry
  BY <1>1, <1>3, <1>6, <1>8, TablesType, EvictedFields, LoadedFields DEF Victim
<1>10. ~(VictimPid(f) = pid /\ VictimPage(f) = page)
  BY <1>1, <1>6 DEF Victim
<1>11. TakenFrom(f, pid, page, write, value)
  <2> HIDE DEF out, loaded
  <2>1. /\ half \in Tables(Live)
        /\ \A p \in Live, g \in Pages :
             half[p][g] = IF p = VictimPid(f) /\ g = VictimPage(f) THEN out
                          ELSE Swept(k)[p][g]
    <3> HIDE DEF f
    <3> QED BY <1>6, <1>7, <1>9, EntryReplaced
  <2> HIDE DEF half
  <2>2. /\ page_tables' \in Tables(Live)
        /\ \A p \in Live, g \in Pages :
             page_tables'[p][g] = IF p = pid /\ g = page THEN loaded ELSE half[p][g]
    BY <1>1, <1>5, <1>9, <2>1, EntryReplaced
  <2>3. Live' = Live
    BY <2>2, TablesDomain
  <2>4. page_tables'[pid][page] = loaded
    BY <1>1, <2>2
  <2>5. page_tables'[VictimPid(f)][VictimPage(f)] = out
    BY <1>6, <1>10, <2>1, <2>2
  <2>6. \A p \in Live, g \in Pages :
          \/ p = pid /\ g = page
          \/ p = VictimPid(f) /\ g = VictimPage(f)
          \/ SameButReferenced(page_tables'[p][g], page_tables[p][g])
    BY <1>7, <2>1, <2>2
  <2> QED BY <1>2, <1>4, <2>2, <2>3, <2>4, <2>5, <2>6 DEF TakenFrom, out, loaded
<1> QED BY <1>1, <1>3, <1>8, <1>11

\* The block of a page that is on disk is no other page's and is not free.
LEMMA BlockIsOwn ==
    ASSUME Inv, NEW p \in Live, NEW g \in Pages, page_tables[p][g].on_disk
    PROVE  /\ page_tables[p][g].swap_block \in SwapBlocks
           /\ \A i \in DOMAIN free_swap_blocks :
                free_swap_blocks[i] # page_tables[p][g].swap_block
           /\ \A q \in Live, h \in Pages :
                page_tables[q][h].on_disk
                /\ page_tables[q][h].swap_block = page_tables[p][g].swap_block
                  => q = p /\ h = g
  BY DEF Inv, SwapIsConserved

\* Page g of p takes the first free block.
TakesBlock(p, g) ==
    /\ Live' = Live
    /\ free_swap_blocks # <<>>
    /\ free_swap_blocks' = Tail(free_swap_blocks)
    /\ ~page_tables[p][g].on_disk
    /\ page_tables'[p][g].on_disk
    /\ page_tables'[p][g].swap_block = Head(free_swap_blocks)
    /\ \A q \in Live, h \in Pages : ~(q = p /\ h = g) =>
         /\ page_tables'[q][h].on_disk = page_tables[q][h].on_disk
         /\ page_tables'[q][h].swap_block = page_tables[q][h].swap_block

\* Taking the first free block conserves the swap blocks.
LEMMA TakenConserved ==
    ASSUME Inv, NEW p \in Live, NEW g \in Pages, TakesBlock(p, g)
    PROVE  SwapIsConserved'
<1> DEFINE free == free_swap_blocks
           rest == free_swap_blocks'
           n == Len(free_swap_blocks)
<1>1. free \in Seq(SwapBlocks) /\ n \in Nat /\ n > 0 /\ DOMAIN free = 1..n
  BY LenProperties, EmptySeq DEF Inv, TypeOK, TakesBlock
<1>2. /\ DOMAIN rest = 1..n - 1
      /\ \A i \in 1..n - 1 : i + 1 \in 1..n /\ rest[i] = free[i + 1]
      /\ Head(free) = free[1] /\ 1 \in 1..n
      /\ \A i \in 2..n : i - 1 \in 1..n - 1 /\ rest[i - 1] = free[i]
      /\ Head(free) \in SwapBlocks
  BY <1>1 DEF TakesBlock
<1>3. \A i, j \in 1..n : free[i] = free[j] => i = j
  BY <1>1 DEF Inv, SwapIsConserved
<1>4. /\ Live' = Live
      /\ ~page_tables[p][g].on_disk
      /\ page_tables'[p][g].on_disk
      /\ page_tables'[p][g].swap_block = free[1]
      /\ \A q \in Live, h \in Pages : ~(q = p /\ h = g) =>
           /\ page_tables'[q][h].on_disk = page_tables[q][h].on_disk
           /\ page_tables'[q][h].swap_block = page_tables[q][h].swap_block
  BY <1>2 DEF TakesBlock
<1> HIDE DEF n, free, rest
<1>5. \A i, j \in DOMAIN rest : rest[i] = rest[j] => i = j
  <2> SUFFICES ASSUME NEW i \in 1..n - 1, NEW j \in 1..n - 1, rest[i] = rest[j]
               PROVE  i = j
    BY <1>2
  <2>1. i + 1 = j + 1
    BY <1>2, <1>3
  <2> QED BY <1>1, <2>1
<1>6. ASSUME NEW q \in Live, NEW h \in Pages, page_tables'[q][h].on_disk
      PROVE  /\ page_tables'[q][h].swap_block \in SwapBlocks
             /\ \A i \in DOMAIN rest : rest[i] # page_tables'[q][h].swap_block
             /\ \A r \in Live, m \in Pages :
                  page_tables'[r][m].on_disk
                  /\ page_tables'[r][m].swap_block = page_tables'[q][h].swap_block
                    => r = q /\ m = h
  <2>1. CASE q = p /\ h = g
    <3>1. page_tables'[q][h].swap_block = free[1] /\ free[1] \in SwapBlocks
      BY <1>2, <1>4, <2>1
    <3>2. \A i \in DOMAIN rest : rest[i] # free[1]
      <4> SUFFICES ASSUME NEW i \in 1..n - 1, rest[i] = free[1]
                   PROVE  FALSE
        BY <1>2
      <4>1. i + 1 = 1
        BY <1>2, <1>3
      <4> QED BY <4>1
    <3>3. \A r \in Live, m \in Pages :
            page_tables'[r][m].on_disk /\ page_tables'[r][m].swap_block = free[1]
              => r = p /\ m = g
      <4> SUFFICES ASSUME NEW r \in Live, NEW m \in Pages, ~(r = p /\ m = g),
                          page_tables'[r][m].on_disk,
                          page_tables'[r][m].swap_block = free[1]
                   PROVE  FALSE
        OBVIOUS
      <4>1. page_tables[r][m].on_disk /\ page_tables[r][m].swap_block = free[1]
        BY <1>4
      <4> QED BY <1>1, <1>2, <4>1, BlockIsOwn DEF free
    <3> QED BY <2>1, <3>1, <3>2, <3>3
  <2>2. CASE ~(q = p /\ h = g)
    <3>1. /\ page_tables[q][h].on_disk
          /\ page_tables'[q][h].swap_block = page_tables[q][h].swap_block
      BY <1>4, <1>6, <2>2
    <3>2. /\ page_tables[q][h].swap_block \in SwapBlocks
          /\ \A i \in 1..n : free[i] # page_tables[q][h].swap_block
          /\ \A r \in Live, m \in Pages :
               page_tables[r][m].on_disk
               /\ page_tables[r][m].swap_block = page_tables[q][h].swap_block
                 => r = q /\ m = h
      BY <1>1, <3>1, BlockIsOwn DEF free
    <3>3. \A i \in DOMAIN rest : rest[i] # page_tables[q][h].swap_block
      BY <1>2, <3>2
    <3>4. ASSUME NEW r \in Live, NEW m \in Pages, page_tables'[r][m].on_disk,
                 page_tables'[r][m].swap_block = page_tables[q][h].swap_block
          PROVE  r = q /\ m = h
      <4>1. CASE r = p /\ m = g
        BY <1>2, <1>4, <3>2, <3>4, <4>1
      <4>2. CASE ~(r = p /\ m = g)
        BY <1>4, <3>2, <3>4, <4>2
      <4> QED BY <4>1, <4>2
    <3> QED BY <3>1, <3>2, <3>3, <3>4
  <2> QED BY <2>1, <2>2
<1>7. ASSUME NEW b \in SwapBlocks
      PROVE  \/ \E i \in DOMAIN rest : rest[i] = b
             \/ \E q \in Live, h \in Pages : /\ page_tables'[q][h].on_disk
                                             /\ page_tables'[q][h].swap_block = b
  <2>1. \/ \E i \in 1..n : free[i] = b
        \/ \E q \in Live, h \in Pages : /\ page_tables[q][h].on_disk
                                        /\ page_tables[q][h].swap_block = b
    BY <1>1 DEF Inv, SwapIsConserved, free
  <2>2. CASE \E i \in 1..n : free[i] = b
    <3>1. PICK i \in 1..n : free[i] = b
      BY <2>2
    <3>2. i = 1 \/ i \in 2..n
      BY <1>1
    <3> QED BY <1>2, <1>4, <3>1, <3>2
  <2>3. CASE \E q \in Live, h \in Pages : /\ page_tables[q][h].on_disk
                                          /\ page_tables[q][h].swap_block = b
    BY <1>4, <2>3
  <2> QED BY <2>1, <2>2, <2>3
<1> QED BY <1>4, <1>5, <1>6, <1>7 DEF SwapIsConserved, rest

\* The fault of `page' evicts the page in frame f.
Evicts(f, pid, page, write, value) ==
    /\ ~page_tables[pid][page].present
    /\ FreeFrames = {}
    /\ NeedsBlock(Victim(f)) => free_swap_blocks # <<>>
    /\ TakenFrom(f, pid, page, write, value)

\* What is known of the victim.
LEMMA VictimFacts ==
    ASSUME Inv, NEW f \in Frames, FreeFrames = {}
    PROVE  /\ VictimPid(f) \in Live
           /\ VictimPage(f) \in Pages
           /\ Victim(f) \in PageTableEntry
           /\ Victim(f).present
           /\ Victim(f).frame_number = f
  BY VictimIsPresent, TablesType DEF Victim, VictimPid, VictimPage

\* Every page but the victim keeps its swap block.
LEMMA OthersKeepBlock ==
    ASSUME Inv, NEW pid \in Live, NEW page \in Pages, NEW write \in BOOLEAN,
           NEW value \in Values, NEW f \in Frames,
           Evicts(f, pid, page, write, value),
           NEW p \in Live, NEW g \in Pages,
           ~(p = VictimPid(f) /\ g = VictimPage(f))
    PROVE  /\ page_tables'[p][g].on_disk = page_tables[p][g].on_disk
           /\ page_tables'[p][g].swap_block = page_tables[p][g].swap_block
<1>1. CASE p = pid /\ g = page
  <2>1. page_tables'[p][g] = Loaded(page_tables[p][g], f, write)
    BY <1>1 DEF Evicts, TakenFrom
  <2> QED BY <2>1, TablesType, LoadedFields
<1>2. CASE ~(p = pid /\ g = page)
  BY <1>2 DEF Evicts, TakenFrom, SameButReferenced
<1> QED BY <1>1, <1>2

\* The block to which the victim is written is no other page's.
LEMMA VictimBlock ==
    ASSUME Inv, NEW f \in Frames, FreeFrames = {}, Victim(f).dirty,
           NeedsBlock(Victim(f)) => free_swap_blocks # <<>>
    PROVE  /\ Evicted(Victim(f)).swap_block \in SwapBlocks
           /\ \A p \in Live, g \in Pages :
                ~(p = VictimPid(f) /\ g = VictimPage(f)) /\ page_tables[p][g].on_disk
                  => page_tables[p][g].swap_block # Evicted(Victim(f)).swap_block
<1>1. /\ VictimPid(f) \in Live
      /\ VictimPage(f) \in Pages
      /\ Victim(f) \in PageTableEntry
  BY VictimFacts
<1>2. Evicted(Victim(f)).swap_block = IF NeedsBlock(Victim(f))
                                      THEN Head(free_swap_blocks)
                                      ELSE Victim(f).swap_block
  BY <1>1, EvictedFields
<1>3. CASE NeedsBlock(Victim(f))
  <2>1. free_swap_blocks \in Seq(SwapBlocks) /\ free_swap_blocks # <<>>
    BY <1>3 DEF Inv, TypeOK
  <2>2. /\ Head(free_swap_blocks) \in SwapBlocks
        /\ 1 \in DOMAIN free_swap_blocks
        /\ Head(free_swap_blocks) = free_swap_blocks[1]
    BY <2>1, EmptySeq
  <2> QED BY <1>2, <1>3, <2>2, BlockIsOwn
<1>4. CASE ~NeedsBlock(Victim(f))
  <2>1. Victim(f).on_disk
    BY <1>4 DEF NeedsBlock
  <2> QED BY <1>1, <1>2, <1>4, <2>1, BlockIsOwn DEF Victim
<1> QED BY <1>3, <1>4

\* What backs a page is left alone; what it held in frame f backs it now.
KeepsBacking(p, g) == Backing(page_tables[p][g])' = Backing(page_tables[p][g])
SavesFrame(f, p, g) == Backing(page_tables[p][g])' = frame_data[f]

\* What backs a page other than the victim is left alone.
LEMMA OthersKeepBacking ==
    ASSUME Inv, NEW pid \in Live, NEW page \in Pages, NEW write \in BOOLEAN,
           NEW value \in Values, NEW f \in Frames,
           Evicts(f, pid, page, write, value),
           NEW p \in Live, NEW g \in Pages,
           ~(p = VictimPid(f) /\ g = VictimPage(f))
    PROVE  KeepsBacking(p, g)
<1>1. /\ page_tables'[p][g].on_disk = page_tables[p][g].on_disk
      /\ page_tables'[p][g].swap_block = page_tables[p][g].swap_block
  BY OthersKeepBlock
<1>2. swap_data' = IF Victim(f).dirty
                   THEN [swap_data EXCEPT
                           ![Evicted(Victim(f)).swap_block] = frame_data[f]]
                   ELSE swap_data
  BY DEF Evicts, TakenFrom
<1>3. ASSUME page_tables[p][g].on_disk
      PROVE  swap_data'[page_tables[p][g].swap_block]
               = swap_data[page_tables[p][g].swap_block]
  <2>1. page_tables[p][g].swap_block \in SwapBlocks
    BY <1>3, BlockIsOwn
  <2>2. swap_data \in [SwapBlocks -> Values]
    BY DEF Inv, TypeOK
  <2>3. Victim(f).dirty =>
          page_tables[p][g].swap_block # Evicted(Victim(f)).swap_block
    BY <1>3, VictimBlock DEF Evicts
  <2> QED BY <1>2, <2>1, <2>2, <2>3
<1> QED BY <1>1, <1>3 DEF Backing, KeepsBacking

\* Once it is out, the victim is backed by what it held.
LEMMA VictimIsSaved ==
    ASSUME Inv, NEW pid \in Live, NEW page \in Pages, NEW write \in BOOLEAN,
           NEW value \in Values, NEW f \in Frames,
           Evicts(f, pid, page, write, value),
           NEW q \in Live, q = VictimPid(f), NEW h \in Pages, h = VictimPage(f)
    PROVE  SavesFrame(f, q, h)
<1>1. /\ Victim(f) \in PageTableEntry
      /\ Victim(f).present /\ Victim(f).frame_number = f
      /\ Victim(f) = page_tables[q][h]
  BY VictimFacts DEF Evicts, Victim
<1>2. /\ Evicted(Victim(f)).on_disk <=> Victim(f).on_disk \/ Victim(f).dirty
      /\ Evicted(Victim(f)).swap_block = IF NeedsBlock(Victim(f))
                                         THEN Head(free_swap_blocks)
                                         ELSE Victim(f).swap_block
  BY <1>1, EvictedFields DEF Evicts
<1>3. page_tables'[q][h] = Evicted(Victim(f))
  BY DEF Evicts, TakenFrom
<1>4. swap_data' = IF Victim(f).dirty
                   THEN [swap_data EXCEPT
                           ![Evicted(Victim(f)).swap_block] = frame_data[f]]
                   ELSE swap_data
  BY DEF Evicts, TakenFrom
<1>5. Backing(page_tables[q][h])' = IF Evicted(Victim(f)).on_disk
                                    THEN swap_data'[Evicted(Victim(f)).swap_block]
                                    ELSE Zero
  BY <1>3 DEF Backing
<1>6. CASE Victim(f).dirty
  <2>1. Evicted(Victim(f)).swap_block \in SwapBlocks
    BY <1>6, VictimBlock DEF Evicts
  <2>2. swap_data \in [SwapBlocks -> Values]
    BY DEF Inv, TypeOK
  <2> QED BY <1>2, <1>4, <1>5, <1>6, <2>1, <2>2 DEF SavesFrame
<1>7. CASE ~Victim(f).dirty
  <2>1. frame_data[f] = Backing(Victim(f))
    BY <1>1, <1>7 DEF Inv, CleanPagesAreBacked
  <2>2. ~NeedsBlock(Victim(f))
    BY <1>7 DEF NeedsBlock
  <2>3. Backing(Victim(f)) = IF Victim(f).on_disk
                             THEN swap_data[Victim(f).swap_block] ELSE Zero
    BY DEF Backing
  <2> QED BY <1>2, <1>4, <1>5, <1>7, <2>1, <2>2, <2>3 DEF SavesFrame
<1> QED BY <1>6, <1>7

\* An eviction puts the faulting page into the victim's frame.
LEMMA EvictionPlaces ==
    ASSUME Inv, NEW pid \in Live, NEW page \in Pages, NEW write \in BOOLEAN,
           NEW value \in Values, NEW f \in Frames,
           Evicts(f, pid, page, write, value)
    PROVE  PlacedIn(f, pid, page)
<1>1. /\ Live' = Live
      /\ page_tables'[pid][page] = Loaded(page_tables[pid][page], f, write)
      /\ page_tables'[VictimPid(f)][VictimPage(f)] = Evicted(Victim(f))
      /\ \A p \in Live, g \in Pages :
           \/ p = pid /\ g = page
           \/ p = VictimPid(f) /\ g = VictimPage(f)
           \/ SameButReferenced(page_tables'[p][g], page_tables[p][g])
  BY DEF Evicts, TakenFrom
<1>2. /\ page_tables'[pid][page].present
      /\ page_tables'[pid][page].frame_number = f
  BY <1>1, TablesType, LoadedFields
<1>3. /\ VictimPid(f) \in Live /\ VictimPage(f) \in Pages
      /\ Victim(f) \in PageTableEntry
      /\ Victim(f).present /\ Victim(f).frame_number = f
      /\ Victim(f) = page_tables[VictimPid(f)][VictimPage(f)]
  BY VictimFacts DEF Evicts, Victim
<1>4. ASSUME NEW p \in Live, NEW g \in Pages, ~(p = pid /\ g = page)
      PROVE  IF page_tables[p][g].present /\ page_tables[p][g].frame_number = f
             THEN ~page_tables'[p][g].present
             ELSE /\ page_tables'[p][g].present = page_tables[p][g].present
                  /\ page_tables'[p][g].frame_number = page_tables[p][g].frame_number
  <2>1. CASE p = VictimPid(f) /\ g = VictimPage(f)
    <3>1. ~Evicted(Victim(f)).present
      BY <1>3, EvictedFields DEF Evicts
    <3> QED BY <1>1, <1>3, <2>1, <3>1
  <2>2. CASE ~(p = VictimPid(f) /\ g = VictimPage(f))
    <3>1. ~(page_tables[p][g].present /\ page_tables[p][g].frame_number = f)
      BY <1>3, <2>2, FrameHoldsOnePage
    <3>2. SameButReferenced(page_tables'[p][g], page_tables[p][g])
      BY <1>1, <1>4, <2>2
    <3> QED BY <3>1, <3>2 DEF SameButReferenced
  <2> QED BY <2>1, <2>2
<1> QED BY <1>1, <1>2, <1>4 DEF PlacedIn

\* An eviction keeps the invariant: the victim's block is its own, and the
\* frame is written out before it is taken.
LEMMA EvictKeepsInv ==
    ASSUME Inv, NEW pid \in Pids, NEW page \in Pages, NEW write \in BOOLEAN,
           NEW value \in Values, FaultWithEviction(pid, page, write, value)
    PROVE  Inv'
<1>1. pid \in Live
  BY EvictionEffect
<1>2. PICK f \in Frames : Evicts(f, pid, page, write, value)
  BY EvictionEffect DEF Evicts
<1>3. /\ ~page_tables[pid][page].present
      /\ FreeFrames = {}
      /\ NeedsBlock(Victim(f)) => free_swap_blocks # <<>>
      /\ TakenFrom(f, pid, page, write, value)
  BY <1>2 DEF Evicts
<1>4. /\ VictimPid(f) \in Live /\ VictimPage(f) \in Pages
      /\ Victim(f) \in PageTableEntry
      /\ Victim(f) = page_tables[VictimPid(f)][VictimPage(f)]
  BY <1>3, VictimFacts DEF Victim
<1>5. Live' = Live /\ page_tables' \in Tables(Live) /\ clock_ptr' \in Frames
  BY <1>3 DEF TakenFrom
<1>6. frame_data' = [frame_data EXCEPT
                       ![f] = LoadedData(page_tables[pid][page], write, value)]
  BY <1>3 DEF TakenFrom
<1>7. frame_data \in [Frames -> Values]
  BY DEF Inv, TypeOK
<1>8. TypeOK'
  <2>1. LoadedData(page_tables[pid][page], write, value) \in Values
    BY <1>1, BackingType DEF LoadedData
  <2>2. frame_data' \in [Frames -> Values]
    BY <1>6, <1>7, <2>1
  <2>3. frames' \in [Frames -> FrameInfo]
    <3>1. frames' = [frames EXCEPT ![f] = Assigned(pid, page)]
      BY <1>3 DEF TakenFrom
    <3> QED BY <3>1, AssignedFields DEF Inv, TypeOK
  <2>4. free_swap_blocks' \in Seq(SwapBlocks)
    BY <1>3 DEF TakenFrom, Inv, TypeOK
  <2>5. swap_data' \in [SwapBlocks -> Values]
    <3>1. swap_data' = IF Victim(f).dirty
                       THEN [swap_data EXCEPT
                               ![Evicted(Victim(f)).swap_block] = frame_data[f]]
                       ELSE swap_data
      BY <1>3 DEF TakenFrom
    <3> QED BY <1>7, <3>1 DEF Inv, TypeOK
  <2>6. page_tables' \in [Live' -> [Pages -> PageTableEntry]] /\ Live' \subseteq Pids
    BY <1>5, TablesDomain DEF Inv, TypeOK
  <2> QED BY <1>5, <2>2, <2>3, <2>4, <2>5, <2>6 DEF TypeOK
<1>9. FramesMatchTables'
  <2>1. frames' = [frames EXCEPT ![f] = Assigned(pid, page)]
    BY <1>3 DEF TakenFrom
  <2> QED BY <1>1, <1>2, <1>3, <2>1, EvictionPlaces, PlacedMatch
<1>10. SwapIsConserved'
  <2>1. /\ Evicted(Victim(f)).on_disk <=> Victim(f).on_disk \/ Victim(f).dirty
        /\ Evicted(Victim(f)).swap_block = IF NeedsBlock(Victim(f))
                                           THEN Head(free_swap_blocks)
                                           ELSE Victim(f).swap_block
    BY <1>3, <1>4, EvictedFields
  <2>2. page_tables'[VictimPid(f)][VictimPage(f)] = Evicted(Victim(f))
    BY <1>3 DEF TakenFrom
  <2>3. \A p \in Live, g \in Pages : ~(p = VictimPid(f) /\ g = VictimPage(f)) =>
          /\ page_tables'[p][g].on_disk = page_tables[p][g].on_disk
          /\ page_tables'[p][g].swap_block = page_tables[p][g].swap_block
    BY <1>1, <1>2, OthersKeepBlock
  <2>4. CASE NeedsBlock(Victim(f))
    <3>1. free_swap_blocks' = Tail(free_swap_blocks) /\ free_swap_blocks # <<>>
      BY <1>3, <2>4 DEF TakenFrom
    <3>2. TakesBlock(VictimPid(f), VictimPage(f))
      BY <1>4, <1>5, <2>1, <2>2, <2>3, <2>4, <3>1 DEF TakesBlock, NeedsBlock
    <3> QED BY <1>4, <3>2, TakenConserved
  <2>5. CASE ~NeedsBlock(Victim(f))
    <3>1. free_swap_blocks' = free_swap_blocks
      BY <1>3, <2>5 DEF TakenFrom
    <3>2. /\ Evicted(Victim(f)).on_disk <=> Victim(f).on_disk
          /\ Evicted(Victim(f)).swap_block = Victim(f).swap_block
      BY <2>1, <2>5 DEF NeedsBlock
    <3>3. Evicted(Victim(f)).on_disk = Victim(f).on_disk
      BY <1>3, <1>4, <3>2, EvictedFields, EntryFields
    <3>4. SameBlocks
      BY <1>4, <1>5, <2>2, <2>3, <3>2, <3>3 DEF SameBlocks
    <3> QED BY <3>1, <3>4, SameBlocksConserved DEF Inv
  <2> QED BY <2>4, <2>5
<1>11. CleanPagesAreBacked'
  <2> SUFFICES ASSUME NEW p \in Live, NEW g \in Pages,
                      page_tables'[p][g].present, ~page_tables'[p][g].dirty
               PROVE  frame_data'[page_tables'[p][g].frame_number]
                        = Backing(page_tables[p][g])'
    BY <1>5 DEF CleanPagesAreBacked
  <2>1. ~(p = VictimPid(f) /\ g = VictimPage(f))
    BY <1>3, <1>4, EvictedFields DEF TakenFrom
  <2>2. KeepsBacking(p, g)
    BY <1>1, <1>2, <2>1, OthersKeepBacking
  <2>3. CASE p = pid /\ g = page
    <3>1. page_tables'[p][g] = Loaded(page_tables[pid][page], f, write)
      BY <1>3, <2>3 DEF TakenFrom
    <3>2. page_tables'[p][g].frame_number = f /\ ~write
      BY <1>1, <3>1, TablesType, LoadedFields
    <3> QED BY <1>6, <1>7, <2>2, <2>3, <3>2 DEF LoadedData, KeepsBacking
  <2>4. CASE ~(p = pid /\ g = page)
    <3>1. SameButReferenced(page_tables'[p][g], page_tables[p][g])
      BY <1>3, <2>1, <2>4 DEF TakenFrom
    <3>2. /\ page_tables[p][g].present /\ ~page_tables[p][g].dirty
          /\ page_tables'[p][g].frame_number = page_tables[p][g].frame_number
      BY <3>1 DEF SameButReferenced
    <3>3. page_tables[p][g].frame_number \in Frames \ {f}
      BY <1>4, <1>3, <2>1, <3>2, VictimFacts, FrameHoldsOnePage, PresentIsAllocated
    <3>4. frame_data'[page_tables[p][g].frame_number]
            = frame_data[page_tables[p][g].frame_number]
      BY <1>6, <1>7, <3>3
    <3> QED BY <2>2, <3>2, <3>4 DEF Inv, CleanPagesAreBacked, KeepsBacking
  <2> QED BY <2>3, <2>4
<1> QED BY <1>8, <1>9, <1>10, <1>11 DEF Inv

-----------------------------------------------------------------------------
(* free_process_memory()                                                    *)

\* No page of a process is skipped when its blocks are returned.
LEMMA AllAreReclaimed ==
    ASSUME Inv, NEW pid \in Live
    PROVE  Reclaimed(page_tables[pid]) = {g \in Pages : page_tables[pid][g].on_disk}
<1>1. \A g \in Pages : page_tables[pid][g].on_disk =>
        \A h \in Pages : h < g /\ page_tables[pid][h].on_disk =>
          page_tables[pid][h].swap_block # page_tables[pid][g].swap_block
  <2> SUFFICES ASSUME NEW g \in Pages, page_tables[pid][g].on_disk,
                      NEW h \in Pages, h < g, page_tables[pid][h].on_disk,
                      page_tables[pid][h].swap_block = page_tables[pid][g].swap_block
               PROVE  FALSE
    OBVIOUS
  <2>1. g = h
    BY BlockIsOwn
  <2> QED BY <2>1, Numbers
<1> QED BY <1>1 DEF Reclaimed

\* The blocks of a process are appended to the free ones, each once.
LEMMA FreedBlocks ==
    ASSUME Inv, NEW pid \in Pids, FreeProcessMemory(pid)
    PROVE  \E freed \in Seq(SwapBlocks) :
             /\ free_swap_blocks' = free_swap_blocks \o freed
             /\ \A i \in 1..Len(freed) : \E g \in Pages :
                  page_tables[pid][g].on_disk
                  /\ page_tables[pid][g].swap_block = freed[i]
             /\ \A i, j \in 1..Len(freed) : freed[i] = freed[j] => i = j
             /\ \A g \in Pages : page_tables[pid][g].on_disk =>
                  \E i \in 1..Len(freed) : freed[i] = page_tables[pid][g].swap_block
<1> DEFINE table == page_tables[pid]
           pages == {g \in Pages : table[g].on_disk}
           block(g) == table[g].swap_block
<1>1. pid \in Live
  BY DEF FreeProcessMemory
<1>2. PICK order \in Ascending(Reclaimed(table)) :
        free_swap_blocks' = free_swap_blocks \o
                              [i \in DOMAIN order |-> block(order[i])]
  BY DEF FreeProcessMemory
<1>3. Reclaimed(table) = pages
  BY <1>1, AllAreReclaimed
<1>4. pages \in SUBSET Int /\ IsFiniteSet(pages)
  <2>1. IsFiniteSet(Pages)
    BY FS_Interval DEF Pages
  <2>2. pages \subseteq Pages
    OBVIOUS
  <2> HIDE DEF pages
  <2>3. IsFiniteSet(pages)
    BY <2>1, <2>2, FS_Subset
  <2>4. pages \subseteq Int
    BY <2>2, Numbers
  <2> QED BY <2>3, <2>4
<1>5. \A g \in pages : g \in Pages /\ block(g) \in SwapBlocks
  BY <1>1, BlockIsOwn
<1>6. \A g, h \in pages : block(g) = block(h) => g = h
  BY <1>1, BlockIsOwn
<1> DEFINE freed == [i \in DOMAIN order |-> block(order[i])]
<1>7. /\ order \in Seq(pages)
      /\ \A i, j \in 1..Len(order) : order[i] = order[j] => i = j
      /\ \A g \in pages : \E i \in 1..Len(order) : order[i] = g
  <2> HIDE DEF pages
  <2>1. order \in Ascending(pages)
    BY <1>2, <1>3
  <2> QED BY <1>4, <2>1, AscendingIsBijective
<1>8. DOMAIN order = 1..Len(order) /\ Len(order) \in Nat
  BY <1>7, LenProperties
<1>9. \A g \in Pages : table[g].on_disk <=> g \in pages
  OBVIOUS
<1> HIDE DEF pages, block
<1>10. freed \in Seq(SwapBlocks) /\ Len(freed) = Len(order)
  BY <1>5, <1>7, <1>8
<1>11. \A i \in 1..Len(order) : freed[i] = block(order[i]) /\ order[i] \in pages
  BY <1>7, <1>8
<1> HIDE DEF freed
<1>12. \A i \in 1..Len(freed) : \E g \in Pages :
         table[g].on_disk /\ table[g].swap_block = freed[i]
  BY <1>5, <1>9, <1>10, <1>11 DEF block
<1>13. \A i, j \in 1..Len(freed) : freed[i] = freed[j] => i = j
  BY <1>6, <1>7, <1>10, <1>11
<1>14. \A g \in Pages : table[g].on_disk =>
         \E i \in 1..Len(freed) : freed[i] = table[g].swap_block
  BY <1>7, <1>9, <1>10, <1>11 DEF block
<1>15. free_swap_blocks' = free_swap_blocks \o freed
  BY <1>2 DEF freed
<1> QED BY <1>10, <1>12, <1>13, <1>14, <1>15

\* A process that ends keeps the invariant: its frames and its swap blocks
\* become free, and nobody else's.
LEMMA FreeKeepsInv ==
    ASSUME Inv, NEW pid \in Pids, FreeProcessMemory(pid)
    PROVE  Inv'
<1> DEFINE table == page_tables[pid]
           held  == {table[g].frame_number : g \in {h \in Pages : table[h].present}}
<1>1. /\ pid \in Live
      /\ frames' = [f \in Frames |-> IF f \in held THEN FreeFrame ELSE frames[f]]
      /\ page_tables' = [p \in Live \ {pid} |-> page_tables[p]]
      /\ UNCHANGED <<clock_ptr, frame_data, swap_data>>
  BY DEF FreeProcessMemory
<1>2. PICK freed \in Seq(SwapBlocks) :
        /\ free_swap_blocks' = free_swap_blocks \o freed
        /\ \A i \in 1..Len(freed) : \E g \in Pages :
             page_tables[pid][g].on_disk
             /\ page_tables[pid][g].swap_block = freed[i]
        /\ \A i, j \in 1..Len(freed) : freed[i] = freed[j] => i = j
        /\ \A g \in Pages : page_tables[pid][g].on_disk =>
             \E i \in 1..Len(freed) : freed[i] = page_tables[pid][g].swap_block
  BY FreedBlocks
<1>3. /\ Live' = Live \ {pid}
      /\ \A p \in Live' : p \in Live /\ p # pid /\ page_tables'[p] = page_tables[p]
  BY <1>1 DEF Live
<1>4. \A f \in Frames :
        frames'[f] = IF \E g \in Pages : table[g].present /\ table[g].frame_number = f
                     THEN FreeFrame ELSE frames[f]
  BY <1>1
<1> HIDE DEF held, table
<1>5. TypeOK'
  <2>1. frames' \in [Frames -> FrameInfo]
    BY <1>1, FreeFrameFields DEF Inv, TypeOK
  <2>2. page_tables' \in [Live' -> [Pages -> PageTableEntry]]
    BY <1>1, <1>3 DEF Inv, TypeOK
  <2>3. free_swap_blocks' \in Seq(SwapBlocks)
    BY <1>2, ConcatProperties DEF Inv, TypeOK
  <2> QED BY <1>1, <1>3, <2>1, <2>2, <2>3 DEF Inv, TypeOK
<1>6. FramesMatchTables'
  <2>1. ASSUME NEW f \in Frames, frames'[f].allocated
        PROVE  /\ frames'[f].owner_pid \in Live'
               /\ frames'[f].page_number \in Pages
               /\ page_tables'[frames'[f].owner_pid][frames'[f].page_number].present
               /\ page_tables'[frames'[f].owner_pid][frames'[f].page_number].frame_number
                    = f
    <3> DEFINE p == frames[f].owner_pid
               g == frames[f].page_number
    <3>1. /\ frames'[f] = frames[f]
          /\ ~\E h \in Pages : table[h].present /\ table[h].frame_number = f
      BY <1>4, <2>1, FreeFrameFields
    <3>2. /\ p \in Live /\ g \in Pages
          /\ page_tables[p][g].present /\ page_tables[p][g].frame_number = f
      BY <2>1, <3>1 DEF Inv, FramesMatchTables
    <3>3. p # pid
      BY <3>1, <3>2 DEF table
    <3> HIDE DEF p, g
    <3>4. p \in Live' /\ page_tables'[p] = page_tables[p]
      BY <1>3, <3>2, <3>3
    <3> QED BY <3>1, <3>2, <3>4 DEF p, g
  <2>2. ASSUME NEW p \in Live', NEW g \in Pages, page_tables'[p][g].present
        PROVE  frames'[page_tables'[p][g].frame_number] = Assigned(p, g)
    <3> DEFINE f == page_tables[p][g].frame_number
    <3>1. /\ p \in Live /\ p # pid /\ page_tables'[p] = page_tables[p]
          /\ page_tables[p][g].present
      BY <1>3, <2>2
    <3>2. f \in Frames /\ frames[f] = Assigned(p, g)
      BY <3>1, PresentIsAllocated DEF Inv, FramesMatchTables
    <3>3. ~\E h \in Pages : table[h].present /\ table[h].frame_number = f
      BY <1>1, <3>1, FrameHoldsOnePage DEF table
    <3> HIDE DEF f
    <3>4. frames'[f] = Assigned(p, g)
      BY <1>4, <3>2, <3>3
    <3> QED BY <3>1, <3>4 DEF f
  <2> QED BY <2>1, <2>2 DEF FramesMatchTables
<1>7. SwapIsConserved'
  <2> DEFINE free == free_swap_blocks
             more == free_swap_blocks'
             n == Len(free_swap_blocks)
             m == Len(freed)
  <2>1. /\ free \in Seq(SwapBlocks) /\ n \in Nat /\ m \in Nat
        /\ DOMAIN free = 1..n
    BY <1>2, LenProperties DEF Inv, TypeOK
  <2>2. DOMAIN more = 1..n + m
    BY <1>2, <2>1
  <2>3. /\ \A i \in 1..n : more[i] = free[i] /\ i \in DOMAIN more
        /\ \A i \in 1..m : more[n + i] = freed[i] /\ n + i \in DOMAIN more
    BY <1>2, <2>1, <2>2
  <2>4. \A i \in 1..n + m : i \in 1..n \/ (i - n \in 1..m /\ i = n + (i - n))
    BY <2>1
  <2>5. \A i, j \in 1..n : free[i] = free[j] => i = j
    BY <2>1 DEF Inv, SwapIsConserved
  <2>6. \A i \in 1..n, j \in 1..m : free[i] # freed[j]
    <3> SUFFICES ASSUME NEW i \in 1..n, NEW j \in 1..m, free[i] = freed[j]
                 PROVE  FALSE
      OBVIOUS
    <3>1. PICK g \in Pages : /\ page_tables[pid][g].on_disk
                             /\ page_tables[pid][g].swap_block = freed[j]
      BY <1>2
    <3>2. i \in DOMAIN free_swap_blocks
          /\ free_swap_blocks[i] = page_tables[pid][g].swap_block
      BY <2>1, <3>1
    <3>3. Inv /\ pid \in Live
      BY <1>1
    <3> HIDE DEF free, n, m
    <3> QED BY <3>1, <3>2, <3>3, BlockIsOwn
  <2>7. ASSUME NEW p \in Live, p # pid, NEW g \in Pages, page_tables[p][g].on_disk
        PROVE  /\ page_tables[p][g].swap_block \in SwapBlocks
               /\ \A i \in 1..n : free[i] # page_tables[p][g].swap_block
               /\ \A j \in 1..m : freed[j] # page_tables[p][g].swap_block
    <3>1. /\ page_tables[p][g].swap_block \in SwapBlocks
          /\ \A i \in 1..n : free[i] # page_tables[p][g].swap_block
      BY <2>1, <2>7, BlockIsOwn
    <3>2. ASSUME NEW j \in 1..m, freed[j] = page_tables[p][g].swap_block
          PROVE  FALSE
      <4>1. PICK h \in Pages : /\ page_tables[pid][h].on_disk
                               /\ page_tables[pid][h].swap_block = freed[j]
        BY <1>2
      <4> QED BY <1>1, <2>7, <3>2, <4>1, BlockIsOwn
    <3> QED BY <3>1, <3>2
  <2> HIDE DEF free, more, n, m
  <2>8. \A i, j \in DOMAIN more : more[i] = more[j] => i = j
    <3> SUFFICES ASSUME NEW i \in 1..n + m, NEW j \in 1..n + m, more[i] = more[j]
                 PROVE  i = j
      BY <2>2
    <3>1. CASE i \in 1..n /\ j \in 1..n
      BY <2>3, <2>5, <3>1
    <3>2. CASE i \in 1..n /\ j - n \in 1..m /\ j = n + (j - n)
      BY <2>3, <2>6, <3>2
    <3>3. CASE j \in 1..n /\ i - n \in 1..m /\ i = n + (i - n)
      BY <2>3, <2>6, <3>3
    <3>4. CASE i - n \in 1..m /\ i = n + (i - n) /\ j - n \in 1..m /\ j = n + (j - n)
      <4>1. freed[i - n] = freed[j - n]
        BY <2>3, <3>4
      <4>2. i - n = j - n
        BY <1>2, <3>4, <4>1 DEF m
      <4> QED BY <3>4, <4>2
    <3> QED BY <2>4, <3>1, <3>2, <3>3, <3>4
  <2>9. ASSUME NEW p \in Live', NEW g \in Pages, page_tables'[p][g].on_disk
        PROVE  /\ page_tables'[p][g].swap_block \in SwapBlocks
               /\ \A i \in DOMAIN more : more[i] # page_tables'[p][g].swap_block
               /\ \A q \in Live', h \in Pages :
                    page_tables'[q][h].on_disk
                    /\ page_tables'[q][h].swap_block = page_tables'[p][g].swap_block
                      => q = p /\ h = g
    <3>1. /\ p \in Live /\ p # pid /\ page_tables'[p] = page_tables[p]
          /\ page_tables[p][g].on_disk
      BY <1>3, <2>9
    <3>2. page_tables[p][g].swap_block \in SwapBlocks
      BY <2>7, <3>1
    <3>3. \A i \in DOMAIN more : more[i] # page_tables[p][g].swap_block
      <4> TAKE i \in DOMAIN more
      <4>1. CASE i \in 1..n
        BY <2>3, <2>7, <3>1, <4>1
      <4>2. CASE i - n \in 1..m /\ i = n + (i - n)
        BY <2>3, <2>7, <3>1, <4>2
      <4> QED BY <2>2, <2>4, <4>1, <4>2
    <3>4. \A q \in Live', h \in Pages :
            page_tables'[q][h].on_disk
            /\ page_tables'[q][h].swap_block = page_tables[p][g].swap_block
              => q = p /\ h = g
      BY <1>3, <3>1, BlockIsOwn
    <3> QED BY <3>1, <3>2, <3>3, <3>4
  <2>10. ASSUME NEW b \in SwapBlocks
         PROVE  \/ \E i \in DOMAIN more : more[i] = b
                \/ \E p \in Live', g \in Pages : /\ page_tables'[p][g].on_disk
                                                 /\ page_tables'[p][g].swap_block = b
    <3>1. \/ \E i \in 1..n : free[i] = b
          \/ \E p \in Live, g \in Pages : /\ page_tables[p][g].on_disk
                                          /\ page_tables[p][g].swap_block = b
      BY <2>1 DEF Inv, SwapIsConserved, free
    <3>2. CASE \E i \in 1..n : free[i] = b
      BY <2>3, <3>2
    <3>3. CASE \E p \in Live, g \in Pages : /\ page_tables[p][g].on_disk
                                            /\ page_tables[p][g].swap_block = b
      <4>1. PICK p \in Live, g \in Pages : /\ page_tables[p][g].on_disk
                                           /\ page_tables[p][g].swap_block = b
        BY <3>3
      <4>2. CASE p = pid
        <5>1. \E i \in 1..m : freed[i] = b
          BY <1>2, <4>1, <4>2 DEF m
        <5> QED BY <2>3, <5>1
      <4>3. CASE p # pid
        BY <1>3, <4>1, <4>3
      <4> QED BY <4>2, <4>3
    <3> QED BY <3>1, <3>2, <3>3
  <2> QED BY <2>8, <2>9, <2>10 DEF SwapIsConserved, more
<1>8. CleanPagesAreBacked'
  BY <1>1, <1>3 DEF Inv, CleanPagesAreBacked, Backing
<1> QED BY <1>5, <1>6, <1>7, <1>8 DEF Inv

-----------------------------------------------------------------------------
(* The invariant                                                            *)

\* The initial states satisfy the invariant: every block is free, once.
LEMMA InitInv == Init => Inv
<1> SUFFICES ASSUME Init PROVE Inv
  OBVIOUS
<1> USE DEF Init
<1>1. Live = {}
  BY DEF Live
<1>2. /\ free_swap_blocks \in Seq(SwapBlocks)
      /\ \A i, j \in 1..Len(free_swap_blocks) :
           free_swap_blocks[i] = free_swap_blocks[j] => i = j
      /\ \A b \in SwapBlocks : \E i \in 1..Len(free_swap_blocks) :
           free_swap_blocks[i] = b
  <2>1. SwapBlocks \in SUBSET Int
    OBVIOUS
  <2> QED BY <2>1, AscendingIsBijective
<1>3. DOMAIN free_swap_blocks = 1..Len(free_swap_blocks)
  BY <1>2, LenProperties
<1>4. TypeOK
  BY <1>1, <1>2, FreeFrameFields, Numbers DEF TypeOK, Live
<1>5. FramesMatchTables
  BY <1>1, FreeFrameFields DEF FramesMatchTables
<1>6. SwapIsConserved
  BY <1>1, <1>2, <1>3 DEF SwapIsConserved
<1>7. CleanPagesAreBacked
  BY <1>1 DEF CleanPagesAreBacked
<1> QED BY <1>4, <1>5, <1>6, <1>7 DEF Inv

\* Every step keeps the invariant.
LEMMA NextInv == Inv /\ [Next]_vars => Inv'
<1> SUFFICES ASSUME Inv, [Next]_vars PROVE Inv'
  OBVIOUS
<1>1. CASE UNCHANGED vars
  BY <1>1 DEF Inv, TypeOK, FramesMatchTables, SwapIsConserved,
              CleanPagesAreBacked, Backing, Live, vars
<1>2. ASSUME NEW pid \in Pids, CreateProcessMemory(pid)
      PROVE  Inv'
  BY <1>2, CreateKeepsInv
<1>3. ASSUME NEW pid \in Pids, FreeProcessMemory(pid)
      PROVE  Inv'
  BY <1>3, FreeKeepsInv
<1>4. ASSUME NEW pid \in Pids, NEW page \in Pages, NEW write \in BOOLEAN,
             NEW value \in Values, AccessMemory(pid, page, write, value)
      PROVE  Inv'
  BY <1>4, HitKeepsInv, LoadKeepsInv, EvictKeepsInv, DeniedKeepsInv
     DEF AccessMemory
<1> QED BY <1>1, <1>2, <1>3, <1>4 DEF Next

\* The four invariants hold together in every reachable state: each needs
\* the others to be kept by an eviction.
THEOREM InvHolds == Spec => []Inv
<1>1. Init => Inv
  BY InitInv
<1>2. Inv /\ [Next]_vars => Inv'
  BY NextInv
<1> QED BY <1>1, <1>2, PTL DEF Spec

\* The page tables, the frames, the free blocks and the hand always have
\* the values the code declares for them.
THEOREM TypeIsCorrect == Spec => []TypeOK
<1>1. Inv => TypeOK
  BY DEF Inv
<1> QED BY <1>1, InvHolds, PTL

\* Frames and page tables always agree: the Clock loop finds the page of
\* every frame it looks at (memory_manager.cpp:134-194).
THEOREM FramesAlwaysMatch == Spec => []FramesMatchTables
<1>1. Inv => FramesMatchTables
  BY DEF Inv
<1> QED BY <1>1, InvHolds, PTL

\* No swap block is ever lost, handed out twice or returned twice
\* (memory_manager.cpp:50-86, 150-170).
THEOREM SwapIsAlwaysConserved == Spec => []SwapIsConserved
<1>1. Inv => SwapIsConserved
  BY DEF Inv
<1> QED BY <1>1, InvHolds, PTL

\* A clean page may always be dropped from its frame.
THEOREM CleanPagesAreAlwaysBacked == Spec => []CleanPagesAreBacked
<1>1. Inv => CleanPagesAreBacked
  BY DEF Inv
<1> QED BY <1>1, InvHolds, PTL

-----------------------------------------------------------------------------
(* Paging is invisible                                                      *)

\* What the processes find in their pages.
Memory == [p \in Live |-> [g \in Pages |-> Contents(page_tables[p][g])]]

\* What an access leaves in page g of p, seen by the processes.
Finds(p, g, pid, page, write, value) ==
    Contents(page_tables[p][g])' =
      IF p = pid /\ g = page /\ write THEN value ELSE Contents(page_tables[p][g])

Stored(pid, page, write, value) ==
    /\ Live' = Live
    /\ pid \in Live
    /\ \A p \in Live, g \in Pages : Finds(p, g, pid, page, write, value)

\* A hit stores what it writes and changes nothing else.
LEMMA HitStores ==
    ASSUME Inv, NEW pid \in Pids, NEW page \in Pages, NEW write \in BOOLEAN,
           NEW value \in Values, Hit(pid, page, write, value)
    PROVE  Stored(pid, page, write, value)
<1>1. /\ UNCHANGED <<frames, free_swap_blocks, clock_ptr, swap_data>>
      /\ frame_data' = IF write
                       THEN [frame_data EXCEPT
                               ![page_tables[pid][page].frame_number] = value]
                       ELSE frame_data
      /\ pid \in Live
      /\ page_tables[pid][page].present
  BY DEF Hit
<1>2. SamePlaces
  BY HitEffect
<1>3. ASSUME NEW p \in Live, NEW g \in Pages
      PROVE  Finds(p, g, pid, page, write, value)
  <2>1. /\ page_tables'[p][g].present = page_tables[p][g].present
        /\ page_tables'[p][g].frame_number = page_tables[p][g].frame_number
        /\ Backing(page_tables[p][g])' = Backing(page_tables[p][g])
    BY <1>1, <1>2 DEF SamePlaces, SameBlocks, Backing
  <2>2. CASE ~page_tables[p][g].present
    BY <1>1, <2>1, <2>2 DEF Contents, Finds
  <2>3. CASE page_tables[p][g].present
    <3>1. /\ page_tables[p][g].frame_number \in Frames
          /\ frame_data \in [Frames -> Values]
      BY <2>3, PresentIsAllocated DEF Inv, TypeOK
    <3>2. page_tables[p][g].frame_number = page_tables[pid][page].frame_number
            => p = pid /\ g = page
      BY <1>1, <2>3, FrameHoldsOnePage
    <3>3. frame_data'[page_tables[p][g].frame_number] =
            IF p = pid /\ g = page /\ write THEN value
            ELSE frame_data[page_tables[p][g].frame_number]
      BY <1>1, <3>1, <3>2
    <3> QED BY <2>1, <2>3, <3>3 DEF Contents, Finds
  <2> QED BY <2>2, <2>3
<1> QED BY <1>1, <1>2, <1>3 DEF Stored, SamePlaces, SameBlocks

\* An access that is refused changes no page.
LEMMA DeniedStores ==
    ASSUME Inv, NEW pid \in Pids, NEW page \in Pages, FaultDenied(pid, page),
           NEW value
    PROVE  Stored(pid, page, FALSE, value)
<1>1. /\ UNCHANGED <<frames, free_swap_blocks, frame_data, swap_data>>
      /\ pid \in Live
  BY DEF FaultDenied
<1>2. /\ page_tables' \in Tables(Live)
      /\ \A p \in Live, g \in Pages :
           SameButReferenced(page_tables'[p][g], page_tables[p][g])
  BY SweptEffect DEF FaultDenied
<1>3. Live' = Live
  BY <1>2, TablesDomain
<1>4. \A p \in Live, g \in Pages :
        Contents(page_tables[p][g])' = Contents(page_tables[p][g])
  BY <1>1, <1>2 DEF SameButReferenced, Contents, Backing
<1> QED BY <1>1, <1>3, <1>4 DEF Stored, Finds

\* Frame f holds the page as it was read in, or as it was written.
Fills(f, pid, page, write, value) ==
    frame_data' = [frame_data EXCEPT
                     ![f] = LoadedData(page_tables[pid][page], write, value)]

\* Page g of p is backed as before, or by what it held if it was in f.
SavedFrom(f, p, g) ==
    Backing(page_tables[p][g])' =
      IF page_tables[p][g].present /\ page_tables[p][g].frame_number = f
      THEN frame_data[f] ELSE Backing(page_tables[p][g])

\* A page that is put into a frame is found as it was, or as written; and
\* so is every other page, when only what backed the victim changed.
LEMMA PlacedStores ==
    ASSUME Inv, NEW pid \in Live, NEW page \in Pages, NEW write \in BOOLEAN,
           NEW value \in Values, NEW f \in Frames,
           ~page_tables[pid][page].present,
           PlacedIn(f, pid, page),
           Fills(f, pid, page, write, value),
           NEW p \in Live, NEW g \in Pages, SavedFrom(f, p, g)
    PROVE  Finds(p, g, pid, page, write, value)
<1>1. frame_data \in [Frames -> Values]
  BY DEF Inv, TypeOK
<1>2. CASE p = pid /\ g = page
  BY <1>1, <1>2 DEF PlacedIn, Contents, LoadedData, Finds, Fills, SavedFrom
<1>3. CASE ~(p = pid /\ g = page)
  <2>1. CASE page_tables[p][g].present /\ page_tables[p][g].frame_number = f
    <3>1. ~page_tables'[p][g].present
      BY <1>3, <2>1 DEF PlacedIn
    <3>2. Backing(page_tables[p][g])' = frame_data[f]
      BY <2>1 DEF SavedFrom
    <3> QED BY <1>3, <2>1, <3>1, <3>2 DEF Contents, Finds
  <2>2. CASE ~(page_tables[p][g].present /\ page_tables[p][g].frame_number = f)
    <3>1. /\ page_tables'[p][g].present = page_tables[p][g].present
          /\ page_tables'[p][g].frame_number = page_tables[p][g].frame_number
      BY <1>3, <2>2 DEF PlacedIn
    <3>2. Backing(page_tables[p][g])' = Backing(page_tables[p][g])
      BY <2>2 DEF SavedFrom
    <3>3. page_tables[p][g].present =>
            frame_data'[page_tables[p][g].frame_number]
              = frame_data[page_tables[p][g].frame_number]
      BY <1>1, <2>2, PresentIsAllocated DEF Fills
    <3> QED BY <1>3, <3>1, <3>2, <3>3 DEF Contents, Finds
  <2> QED BY <2>1, <2>2
<1> QED BY <1>2, <1>3

\* A fault that finds a free frame stores what it writes and changes
\* nothing else.
LEMMA LoadStores ==
    ASSUME Inv, NEW pid \in Pids, NEW page \in Pages, NEW write \in BOOLEAN,
           NEW value \in Values, FaultToFreeFrame(pid, page, write, value)
    PROVE  Stored(pid, page, write, value)
<1>1. /\ pid \in Live
      /\ ~page_tables[pid][page].present
      /\ UNCHANGED <<free_swap_blocks, clock_ptr, swap_data>>
  BY DEF FaultToFreeFrame
<1>2. PICK f \in Frames :
        /\ Fills(f, pid, page, write, value)
        /\ PlacedIn(f, pid, page)
        /\ SameBlocks
        /\ \A p \in Live, g \in Pages : page_tables[p][g].present =>
             page_tables[p][g].frame_number # f
  BY LoadEffect DEF LoadedInto, Fills
<1>3. ASSUME NEW p \in Live, NEW g \in Pages
      PROVE  Finds(p, g, pid, page, write, value)
  <2>1. Backing(page_tables[p][g])' = Backing(page_tables[p][g])
    BY <1>1, <1>2 DEF Backing, SameBlocks
  <2>2. SavedFrom(f, p, g)
    BY <1>2, <2>1 DEF SavedFrom
  <2> QED BY <1>1, <1>2, <2>2, PlacedStores
<1> QED BY <1>1, <1>2, <1>3 DEF Stored, PlacedIn

\* A fault that evicts a page stores what it writes and changes nothing
\* else: the victim is found in its swap block as it was in its frame.
LEMMA EvictionStores ==
    ASSUME Inv, NEW pid \in Pids, NEW page \in Pages, NEW write \in BOOLEAN,
           NEW value \in Values, FaultWithEviction(pid, page, write, value)
    PROVE  Stored(pid, page, write, value)
<1>1. /\ pid \in Live
      /\ ~page_tables[pid][page].present
      /\ FreeFrames = {}
  BY EvictionEffect
<1>2. PICK f \in Frames : Evicts(f, pid, page, write, value)
  BY EvictionEffect DEF Evicts
<1>3. PlacedIn(f, pid, page)
  BY <1>1, <1>2, EvictionPlaces
<1>4. Fills(f, pid, page, write, value)
  BY <1>2 DEF Evicts, TakenFrom, Fills
<1>5. /\ VictimPid(f) \in Live /\ VictimPage(f) \in Pages
      /\ Victim(f).present /\ Victim(f).frame_number = f
      /\ Victim(f) = page_tables[VictimPid(f)][VictimPage(f)]
  BY <1>1, VictimFacts DEF Victim
<1>6. ASSUME NEW p \in Live, NEW g \in Pages
      PROVE  Finds(p, g, pid, page, write, value)
  <2>1. SavedFrom(f, p, g)
    <3>1. CASE p = VictimPid(f) /\ g = VictimPage(f)
      <4>1. SavesFrame(f, p, g)
        BY <1>1, <1>2, <3>1, VictimIsSaved
      <4> QED BY <1>5, <3>1, <4>1 DEF SavedFrom, SavesFrame
    <3>2. CASE ~(p = VictimPid(f) /\ g = VictimPage(f))
      <4>1. KeepsBacking(p, g)
        BY <1>1, <1>2, <3>2, OthersKeepBacking
      <4>2. ~(page_tables[p][g].present /\ page_tables[p][g].frame_number = f)
        BY <1>5, <3>2, FrameHoldsOnePage
      <4> QED BY <4>1, <4>2 DEF SavedFrom, KeepsBacking
    <3> QED BY <3>1, <3>2
  <2> QED BY <1>1, <1>3, <1>4, <2>1, PlacedStores
<1> QED BY <1>1, <1>3, <1>6 DEF Stored, PlacedIn

\* An access is a write of the abstract memory, or no step of it.
LEMMA AccessImplements ==
    ASSUME Inv, NEW pid \in Pids, NEW page \in Pages, NEW write \in BOOLEAN,
           NEW value \in Values, AccessMemory(pid, page, write, value)
    PROVE  VM!Write(pid, page, value) \/ UNCHANGED Memory
<1>1. PICK w \in BOOLEAN : Stored(pid, page, w, value)
  BY HitStores, LoadStores, EvictionStores, DeniedStores DEF AccessMemory
<1>2. /\ Live' = Live /\ pid \in Live
      /\ \A p \in Live, g \in Pages :
           Contents(page_tables[p][g])' =
             IF p = pid /\ g = page /\ w THEN value
             ELSE Contents(page_tables[p][g])
  BY <1>1 DEF Stored, Finds
<1>3. Memory' = [p \in Live |-> [g \in Pages |->
                   IF p = pid /\ g = page /\ w THEN value
                   ELSE Contents(page_tables[p][g])]]
  BY <1>2 DEF Memory
<1>4. CASE w
  <2>1. Memory' = [p \in Live |-> [g \in Pages |->
                     IF p = pid /\ g = page THEN value
                     ELSE Contents(page_tables[p][g])]]
    BY <1>3, <1>4
  <2>2. Memory' = [Memory EXCEPT ![pid][page] = value]
    BY <1>2, <2>1, ZenonT(30) DEF Memory
  <2> QED BY <1>2, <2>2 DEF VM!Write, Memory
<1>5. CASE ~w
  BY <1>3, <1>5 DEF Memory
<1> QED BY <1>4, <1>5

\* A new process finds zeroes in its pages, and nobody else anything new.
LEMMA CreateImplements ==
    ASSUME Inv, NEW pid \in Pids, CreateProcessMemory(pid)
    PROVE  VM!Create(pid)
<1>1. /\ Live' = Live \cup {pid}
      /\ pid \notin Live
      /\ \A g \in Pages : page_tables'[pid][g] = NewEntry
      /\ \A p \in Live : page_tables'[p] = page_tables[p]
  BY CreateEffect
<1>2. UNCHANGED <<frame_data, swap_data>>
  BY DEF CreateProcessMemory
<1>3. \A g \in Pages : Contents(page_tables[pid][g])' = Zero
  BY <1>1, NewEntryFields DEF Contents, Backing
<1>4. \A p \in Live, g \in Pages :
        Contents(page_tables[p][g])' = Contents(page_tables[p][g])
  BY <1>1, <1>2 DEF Contents, Backing
<1>5. Memory' = [p \in Live \cup {pid} |->
                   IF p = pid THEN [g \in Pages |-> Zero] ELSE Memory[p]]
  BY <1>1, <1>3, <1>4 DEF Memory
<1>6. DOMAIN Memory = Live
  BY DEF Memory
<1> QED BY <1>1, <1>5, <1>6 DEF VM!Create, Memory

\* A process that ends takes its pages with it, and nobody else's.
LEMMA FreeImplements ==
    ASSUME Inv, NEW pid \in Pids, FreeProcessMemory(pid)
    PROVE  VM!Free(pid)
<1>1. /\ pid \in Live
      /\ page_tables' = [p \in Live \ {pid} |-> page_tables[p]]
      /\ UNCHANGED <<frame_data, swap_data>>
  BY DEF FreeProcessMemory
<1>2. Live' = Live \ {pid}
  BY <1>1 DEF Live
<1>3. \A p \in Live \ {pid}, g \in Pages :
        Contents(page_tables[p][g])' = Contents(page_tables[p][g])
  BY <1>1 DEF Contents, Backing
<1>4. Memory' = [p \in Live \ {pid} |-> Memory[p]]
  BY <1>2, <1>3 DEF Memory
<1>5. DOMAIN Memory = Live
  BY DEF Memory
<1> QED BY <1>1, <1>4, <1>5 DEF VM!Free, Memory

\* The abstract memory starts empty.
LEMMA InitImplements == Init => VM!Init
  BY DEF Init, VM!Init, Memory, Live

\* Every step of paging is a step of the abstract memory, or none.
LEMMA NextImplements == Inv /\ [Next]_vars => [VM!Next]_Memory
<1> SUFFICES ASSUME Inv, [Next]_vars
             PROVE  VM!Next \/ UNCHANGED Memory
  OBVIOUS
<1>1. CASE UNCHANGED vars
  BY <1>1 DEF Memory, Contents, Backing, Live, vars
<1>2. ASSUME NEW pid \in Pids, CreateProcessMemory(pid)
      PROVE  VM!Next
  BY <1>2, CreateImplements DEF VM!Next
<1>3. ASSUME NEW pid \in Pids, FreeProcessMemory(pid)
      PROVE  VM!Next
  BY <1>3, FreeImplements DEF VM!Next
<1>4. ASSUME NEW pid \in Pids, NEW page \in Pages, NEW write \in BOOLEAN,
             NEW value \in Values, AccessMemory(pid, page, write, value)
      PROVE  VM!Next \/ UNCHANGED Memory
  BY <1>4, AccessImplements DEF VM!Next
<1> QED BY <1>1, <1>2, <1>3, <1>4 DEF Next

\* Paging implements a memory per process whose pages start as zeroes and
\* change only when the process writes them, for every number of frames,
\* pages and swap blocks (module VirtualMemory).
THEOREM PagingIsInvisible == Spec => ImplementsVirtualMemory
<1>1. Init => VM!Init
  BY InitImplements
<1>2. Inv /\ [Next]_vars => [VM!Next]_Memory
  BY NextImplements
<1>3. Spec => []Inv
  BY InvHolds
<1> QED BY <1>1, <1>2, <1>3, PTL DEF Spec, VM!Spec, ImplementsVirtualMemory, Memory

-----------------------------------------------------------------------------
(* The Clock loop, one iteration at a time, does what the model of memory   *)
(* takes in one step, for every number of frames.                           *)

\* How far the hand gets in at most one round.
LEMMA ModOfSum ==
    ASSUME NEW n \in Nat \ {0}, NEW x \in 0..(2 * n - 1)
    PROVE  x % n = IF x < n THEN x ELSE x - n
<1>1. CASE x < n
  BY <1>1
<1>2. CASE x >= n
  BY <1>2, Z3
<1> QED BY <1>1, <1>2

\* The frame k places after frame c, up to a full round.
Around(c, k) == IF c + k < NumFrames THEN c + k ELSE c + k - NumFrames

\* Every frame holds a live page of its own.
Full ==
    /\ \A f \in Frames : frames[f].owner_pid \in Pids /\ frames[f].page_number \in Pages
    /\ \A f, h \in Frames :
         frames[f].owner_pid = frames[h].owner_pid
         /\ frames[f].page_number = frames[h].page_number => f = h

\* The hand has passed k frames since the loop began, all referenced.
HasPassed(k) ==
    /\ clock_ptr = Before!Hand(k)
    /\ page_tables = Before!Swept(k)
    /\ \A j \in 0..k - 1 : Before!Referenced(Before!Hand(j))
    /\ victim # NoVictim => victim = Before!Hand(k) /\ k \in Before!Passed

SweepInv ==
    /\ Full
    /\ start.page_tables \in [Pids -> [Pages -> PageTableEntry]]
    /\ start.clock_ptr \in Frames
    /\ \E k \in 0..NumFrames : HasPassed(k)

\* The frames the hand visits, for every number it has passed.
LEMMA HandIsAround ==
    ASSUME start.clock_ptr \in Frames, NEW k \in 0..NumFrames
    PROVE  /\ Before!Hand(k) = Around(start.clock_ptr, k)
           /\ Before!Hand(k) \in Frames
<1>1. start.clock_ptr + k \in 0..(2 * NumFrames - 1)
  BY DEF Frames
<1>2. Before!Hand(k) = Around(start.clock_ptr, k)
  <2> DEFINE x == start.clock_ptr + k
  <2>1. x % NumFrames = IF x < NumFrames THEN x ELSE x - NumFrames
    <3> HIDE DEF x
    <3> QED BY <1>1, ModOfSum DEF x
  <2>2. Before!Hand(k) = x % NumFrames
    BY DEF Before!Hand
  <2>3. start.clock_ptr \in Nat
    BY DEF Frames
  <2> HIDE DEF x
  <2>4. x \in Int /\ Around(start.clock_ptr, k) = IF x < NumFrames THEN x ELSE x - NumFrames
    BY <2>3 DEF Around, x
  <2> QED BY <2>1, <2>2, <2>4
<1>3. Around(start.clock_ptr, k) \in Frames
  BY DEF Frames, Around
<1> QED BY <1>2, <1>3

\* The hand comes back to a frame only after a full round.
LEMMA HandVisitsOnce ==
    ASSUME start.clock_ptr \in Frames,
           NEW k \in 0..NumFrames, NEW j \in 0..k - 1,
           Before!Hand(j) = Before!Hand(k)
    PROVE  j = 0 /\ k = NumFrames
<1>1. Around(start.clock_ptr, j) = Around(start.clock_ptr, k)
  BY HandIsAround
<1> QED BY <1>1 DEF Around, Frames

\* One place further is the next frame.
LEMMA HandAdvances ==
    ASSUME start.clock_ptr \in Frames, NEW k \in 0..NumFrames - 1
    PROVE  Advanced(Before!Hand(k)) = Before!Hand(k + 1)
<1> DEFINE h == Around(start.clock_ptr, k)
<1>1. h \in 0..NumFrames - 1 /\ h + 1 \in 0..(2 * NumFrames - 1)
  BY DEF Around, Frames
<1>2. (h + 1) % NumFrames = IF h + 1 < NumFrames THEN h + 1 ELSE h + 1 - NumFrames
  <2> DEFINE y == h + 1
  <2>1. y \in 0..(2 * NumFrames - 1)
    BY <1>1
  <2>2. y % NumFrames = IF y < NumFrames THEN y ELSE y - NumFrames
    <3> HIDE DEF y
    <3> QED BY <2>1, ModOfSum
  <2> HIDE DEF h
  <2> QED BY <1>1, <2>2
<1>3. Around(start.clock_ptr, k + 1)
        = IF h + 1 < NumFrames THEN h + 1 ELSE h + 1 - NumFrames
  BY DEF Around, Frames
<1> QED BY <1>2, <1>3, HandIsAround DEF Advanced

\* Page g of p is among the first k that the hand passes.
Visited(k, p, g) ==
    \E j \in 0..k - 1 : /\ frames[Before!Hand(j)].owner_pid = p
                       /\ frames[Before!Hand(j)].page_number = g

Unreferenced(e) == [e EXCEPT !.referenced = FALSE]

\* An entry of the swept tables.
LEMMA SweptEntry ==
    ASSUME SweepInv, NEW k
    PROVE  /\ Before!Swept(k) = [p \in Pids |-> [g \in Pages |->
                IF Visited(k, p, g) THEN Unreferenced(start.page_tables[p][g])
                ELSE start.page_tables[p][g]]]
           /\ \A p \in Pids, g \in Pages :
                Before!Swept(k)[p][g] =
                  IF Visited(k, p, g) THEN Unreferenced(start.page_tables[p][g])
                  ELSE start.page_tables[p][g]
<1>1. Before!Live = Pids
  BY DEF Before!Live, SweepInv
<1>2. Before!Swept(k) = [p \in Pids |-> [g \in Pages |->
        IF Visited(k, p, g) THEN Unreferenced(start.page_tables[p][g])
        ELSE start.page_tables[p][g]]]
  BY <1>1 DEF Before!Swept, Before!Pages, Pages, Visited, Unreferenced
<1> QED BY <1>2

\* The bit of the frame under the hand is clear once the hand has been
\* there, and as it was before that.
LEMMA BitUnderHand ==
    ASSUME SweepInv, NEW k \in 0..NumFrames, HasPassed(k)
    PROVE  Referenced(clock_ptr) <=>
             k # NumFrames /\ Before!Referenced(Before!Hand(k))
<1> DEFINE f == Before!Hand(k)
           p == frames[f].owner_pid
           g == frames[f].page_number
<1>1. start.clock_ptr \in Frames /\ f \in Frames
  BY HandIsAround DEF SweepInv
<1>2. p \in Pids /\ g \in Pages
  BY <1>1 DEF SweepInv, Full
<1>3. Referenced(clock_ptr) <=> Before!Swept(k)[p][g].referenced
  BY DEF Referenced, HasPassed
<1>4. Before!Referenced(f) <=> start.page_tables[p][g].referenced
  BY DEF Before!Referenced
<1>5. start.page_tables[p][g] \in PageTableEntry
  BY <1>2 DEF SweepInv
<1>6. CASE k = NumFrames
  <2>1. Before!Hand(0) = f /\ 0 \in 0..k - 1
    BY <1>1, <1>6, HandIsAround DEF Around, Frames
  <2>2. Visited(k, p, g)
    BY <2>1 DEF Visited
  <2>3. Before!Swept(k)[p][g] = Unreferenced(start.page_tables[p][g])
    BY <1>2, <2>2, SweptEntry
  <2>4. ~Before!Swept(k)[p][g].referenced
    BY <1>5, <2>3 DEF PageTableEntry, Unreferenced
  <2> QED BY <1>3, <1>6, <2>4
<1>7. CASE k # NumFrames
  <2>1. \A j \in 0..k - 1 : Before!Hand(j) \in Frames /\ Before!Hand(j) # f
    <3> SUFFICES ASSUME NEW j \in 0..k - 1
                 PROVE  Before!Hand(j) \in Frames /\ Before!Hand(j) # f
      OBVIOUS
    <3>1. j \in 0..NumFrames
      OBVIOUS
    <3> QED BY <1>1, <1>7, <3>1, HandIsAround, HandVisitsOnce
  <2>2. ~Visited(k, p, g)
    BY <1>1, <2>1 DEF SweepInv, Full, Visited
  <2>3. Before!Swept(k)[p][g] = start.page_tables[p][g]
    <3> HIDE DEF f, p, g
    <3> QED BY <1>2, <2>2, SweptEntry
  <2> QED BY <1>3, <1>4, <1>7, <2>3
<1> QED BY <1>6, <1>7

\* While the tables of the start and the frames stay, so does what is
\* computed from them.
LEMMA BeforeStays ==
    ASSUME UNCHANGED <<frames, start>>, NEW k
    PROVE  /\ (Before!Hand(k))' = Before!Hand(k)
           /\ (Before!Swept(k))' = Before!Swept(k)
           /\ (Before!Passed)' = Before!Passed
           /\ (\A j \in 0..k - 1 : Before!Referenced(Before!Hand(j)))' <=>
                \A j \in 0..k - 1 : Before!Referenced(Before!Hand(j))
  BY DEF Before!Hand, Before!Swept, Before!Passed, Before!Referenced, Before!Live

\* The sweep goes one frame further: its bit is cleared too.
LEMMA SweptFurther ==
    ASSUME SweepInv, NEW k \in 0..NumFrames - 1
    PROVE  Before!Swept(k + 1) =
             [Before!Swept(k) EXCEPT
                ![frames[Before!Hand(k)].owner_pid]
                 [frames[Before!Hand(k)].page_number].referenced = FALSE]
<1> DEFINE f == Before!Hand(k)
           o == frames[f].owner_pid
           n == frames[f].page_number
           old == Before!Swept(k)
<1>1. k \in 0..NumFrames /\ start.clock_ptr \in Frames /\ f \in Frames
  BY HandIsAround DEF SweepInv
<1>2. o \in Pids /\ n \in Pages
  BY <1>1 DEF SweepInv, Full
<1>3. \A p \in Pids, g \in Pages :
        Visited(k + 1, p, g) <=> Visited(k, p, g) \/ (p = o /\ g = n)
  <2>1. \A j : j \in 0..(k + 1) - 1 <=> j \in 0..k - 1 \/ j = k
    OBVIOUS
  <2> QED BY <2>1 DEF Visited
<1>4. \A p \in Pids, g \in Pages :
        /\ start.page_tables[p][g] \in PageTableEntry
        /\ Unreferenced(Unreferenced(start.page_tables[p][g]))
             = Unreferenced(start.page_tables[p][g])
  BY DEF SweepInv, PageTableEntry, Unreferenced
<1>5. \A p \in Pids, g \in Pages :
        /\ old[p][g] = IF Visited(k, p, g) THEN Unreferenced(start.page_tables[p][g])
                       ELSE start.page_tables[p][g]
        /\ Before!Swept(k + 1)[p][g] =
             IF Visited(k + 1, p, g) THEN Unreferenced(start.page_tables[p][g])
             ELSE start.page_tables[p][g]
  BY SweptEntry
<1>6. \A p \in Pids, g \in Pages :
        Before!Swept(k + 1)[p][g] = IF p = o /\ g = n THEN Unreferenced(old[p][g])
                                    ELSE old[p][g]
  BY <1>3, <1>4, <1>5
<1>7. /\ Before!Swept(k + 1) = [p \in Pids |-> [g \in Pages |->
                                  Before!Swept(k + 1)[p][g]]]
      /\ old = [p \in Pids |-> [g \in Pages |-> old[p][g]]]
  BY SweptEntry
<1> HIDE DEF old, o, n, f
<1>8. [old EXCEPT ![o][n].referenced = FALSE]
        = [old EXCEPT ![o][n] = Unreferenced(old[o][n])]
  BY <1>2, <1>7 DEF Unreferenced
<1>9. [old EXCEPT ![o][n] = Unreferenced(old[o][n])]
        = [p \in Pids |-> [g \in Pages |->
             IF p = o /\ g = n THEN Unreferenced(old[p][g]) ELSE old[p][g]]]
  BY <1>2, <1>7
<1>10. Before!Swept(k + 1) = [old EXCEPT ![o][n].referenced = FALSE]
  BY <1>6, <1>7, <1>8, <1>9
<1> QED BY <1>10 DEF old, o, n, f

\* A second chance takes the hand one frame further.
LEMMA SecondChanceKeepsInv ==
    ASSUME SweepInv, SecondChance
    PROVE  SweepInv'
<1>1. PICK k \in 0..NumFrames : HasPassed(k)
  BY DEF SweepInv
<1>2. /\ k # NumFrames /\ k \in 0..NumFrames - 1
      /\ Before!Referenced(Before!Hand(k))
      /\ victim = NoVictim
  BY <1>1, BitUnderHand DEF SecondChance
<1>3. /\ UNCHANGED <<frames, start>>
      /\ victim' = NoVictim
  BY <1>2 DEF SecondChance
<1>4. /\ clock_ptr = Before!Hand(k)
      /\ page_tables = Before!Swept(k)
      /\ \A j \in 0..k - 1 : Before!Referenced(Before!Hand(j))
  BY <1>1 DEF HasPassed
<1>5. clock_ptr' = Before!Hand(k + 1)
  BY <1>2, <1>4, HandAdvances DEF SecondChance, SweepInv
<1>6. page_tables' = Before!Swept(k + 1)
  BY <1>2, <1>4, SweptFurther DEF SecondChance
<1>7. \A j \in 0..(k + 1) - 1 : Before!Referenced(Before!Hand(j))
  <2>1. \A j : j \in 0..(k + 1) - 1 <=> j \in 0..k - 1 \/ j = k
    OBVIOUS
  <2> QED BY <1>2, <1>4, <2>1
<1>8. HasPassed(k + 1)'
  BY <1>3, <1>5, <1>6, <1>7, BeforeStays DEF HasPassed
<1>9. k + 1 \in 0..NumFrames
  BY <1>2
<1> QED BY <1>3, <1>8, <1>9 DEF SweepInv, Full

\* The loop stops at the frame that MemoryManager computes.
LEMMA ChooseKeepsInv ==
    ASSUME SweepInv, Choose
    PROVE  SweepInv'
<1>1. PICK k \in 0..NumFrames : HasPassed(k)
  BY DEF SweepInv
<1>2. k = NumFrames \/ ~Before!Referenced(Before!Hand(k))
  BY <1>1, BitUnderHand DEF Choose
<1>3. /\ clock_ptr = Before!Hand(k)
      /\ page_tables = Before!Swept(k)
      /\ \A j \in 0..k - 1 : Before!Referenced(Before!Hand(j))
  BY <1>1 DEF HasPassed
<1>4. k \in Before!Passed
  BY <1>2, <1>3 DEF Before!Passed
<1>5. /\ UNCHANGED <<frames, start, clock_ptr, page_tables>>
      /\ victim' = clock_ptr
  BY DEF Choose, vars
<1>6. HasPassed(k)'
  BY <1>3, <1>4, <1>5, BeforeStays DEF HasPassed
<1> QED BY <1>5, <1>6 DEF SweepInv, Full

\* The loop begins with no frame passed, from any full assignment.
LEMMA SweepInitInv == SweepInit => SweepInv
<1> SUFFICES ASSUME SweepInit PROVE SweepInv
  OBVIOUS
<1>1. PICK page \in [Frames -> Pids \X Pages], bit \in [Frames -> BOOLEAN] :
        /\ \A f, h \in Frames : page[f] = page[h] => f = h
        /\ page_tables = FullTables(page, bit)
        /\ frames = [f \in Frames |-> Assigned(page[f][1], page[f][2])]
  BY DEF SweepInit
<1>2. /\ clock_ptr \in Frames /\ victim = NoVictim
      /\ start = [page_tables |-> page_tables, clock_ptr |-> clock_ptr]
  BY DEF SweepInit
<1>3. start.page_tables = page_tables /\ start.clock_ptr = clock_ptr
  BY <1>2
<1>4. \A f \in Frames : /\ page[f] \in Pids \X Pages
                        /\ frames[f].owner_pid = page[f][1]
                        /\ frames[f].page_number = page[f][2]
  BY <1>1 DEF Assigned
<1>5. Full
  <2>1. \A f \in Frames : /\ page[f] = <<page[f][1], page[f][2]>>
                          /\ page[f][1] \in Pids /\ page[f][2] \in Pages
    BY <1>4
  <2>2. ASSUME NEW f \in Frames, NEW h \in Frames,
               frames[f].owner_pid = frames[h].owner_pid,
               frames[f].page_number = frames[h].page_number
        PROVE  f = h
    <3>1. page[f] = page[h]
      BY <1>4, <2>1, <2>2
    <3> QED BY <1>1, <3>1
  <2> QED BY <1>4, <2>1, <2>2 DEF Full
<1>6. page_tables \in [Pids -> [Pages -> PageTableEntry]]
  <2> DEFINE in(f) == [NewEntry EXCEPT !.present = TRUE, !.frame_number = f,
                                       !.referenced = bit[f]]
  <2>1. NewEntry \in PageTableEntry
    BY DEF NewEntry, PageTableEntry, Frames
  <2>2. \A f \in Frames : in(f) \in PageTableEntry
    BY <1>1 DEF NewEntry, PageTableEntry
  <2>3. page_tables = [p \in Pids |-> [g \in Pages |->
                         IF \E f \in Frames : page[f] = <<p, g>>
                         THEN in(CHOOSE f \in Frames : page[f] = <<p, g>>)
                         ELSE NewEntry]]
    BY <1>1 DEF FullTables
  <2> HIDE DEF in
  <2>4. ASSUME NEW p \in Pids, NEW g \in Pages
        PROVE  (IF \E f \in Frames : page[f] = <<p, g>>
                THEN in(CHOOSE f \in Frames : page[f] = <<p, g>>)
                ELSE NewEntry) \in PageTableEntry
    BY <2>1, <2>2
  <2> QED BY <2>3, <2>4
<1>7. HasPassed(0)
  <2>1. Before!Hand(0) = clock_ptr
    BY <1>2, <1>3, HandIsAround DEF Around, Frames
  <2>2. Before!Swept(0) = page_tables
    BY <1>3, <1>6 DEF Before!Swept, Before!Live, Before!Pages, Pages
  <2> QED BY <1>2, <2>1, <2>2 DEF HasPassed
<1> QED BY <1>2, <1>3, <1>5, <1>6, <1>7 DEF SweepInv

\* Every iteration keeps the invariant.
LEMMA SweepNextInv == SweepInv /\ [SweepNext]_sweepVars => SweepInv'
<1> SUFFICES ASSUME SweepInv, [SweepNext]_sweepVars PROVE SweepInv'
  OBVIOUS
<1>1. CASE SecondChance
  BY <1>1, SecondChanceKeepsInv
<1>2. CASE Choose
  BY <1>2, ChooseKeepsInv
<1>3. CASE UNCHANGED sweepVars
  <2>1. PICK k \in 0..NumFrames : HasPassed(k)
    BY DEF SweepInv
  <2>2. UNCHANGED <<frames, start, clock_ptr, page_tables, victim>>
    BY <1>3 DEF sweepVars, vars
  <2>3. HasPassed(k)'
    BY <2>1, <2>2, BeforeStays DEF HasPassed
  <2> QED BY <2>2, <2>3 DEF SweepInv, Full
<1> QED BY <1>1, <1>2, <1>3 DEF SweepNext

\* The hand has always passed a number of referenced frames, at most all
\* of them once, and cleared their bits (memory_manager.cpp:134-194).
THEOREM SweepInvHolds == SweepSpec => []SweepInv
<1>1. SweepInit => SweepInv
  BY SweepInitInv
<1>2. SweepInv /\ [SweepNext]_sweepVars => SweepInv'
  BY SweepNextInv
<1> QED BY <1>1, <1>2, PTL DEF SweepSpec

\* Whatever the loop chooses is what MemoryManager computes in one step.
THEOREM SweepIsAlwaysAsComputed == SweepSpec => []SweepIsAsComputed
<1>1. SweepInv => SweepIsAsComputed
  BY DEF SweepInv, HasPassed, SweepIsAsComputed
<1> QED BY <1>1, SweepInvHolds, PTL
=============================================================================
