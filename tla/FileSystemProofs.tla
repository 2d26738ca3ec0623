-------------------------- MODULE FileSystemProofs --------------------------
(***************************************************************************)
(* The disk is sound between operations: blocks are accounted for, the     *)
(* directories are a tree, and descriptors name live files, for every      *)
(* number and size of inodes, blocks, directories, names and descriptors.  *)
(*                                                                         *)
(* Soundness is stated of any bitmaps, table and blocks, so that what an   *)
(* operation has written so far can be followed: an inode that is not in   *)
(* a directory yet is the exception `O' of Sound.                          *)
(***************************************************************************)
EXTENDS FileSystem, EnumerationTheorems

USE FileSystemAssumption

-----------------------------------------------------------------------------
(* The bitmaps on the disk.                                                 *)

\* An outcome that does not end with saving the bitmaps has not changed them.
SavesWhatItChanges(o) ==
    \/ o.saves = TRUE
    \/ o.saves = FALSE /\ o.inode_bitmap = inode_bitmap /\ o.data_bitmap = data_bitmap

\* Both ends of a creation: the bits are saved, or taken back.
LEMMA FinishedSaves ==
    ASSUME NEW path, NEW parent, NEW new, NEW used, NEW table, NEW data, NEW order,
           NEW o \in Finished(path, parent, new, used, table, data, order)
    PROVE  SavesWhatItChanges(o)
<1> DEFINE added == Added(parent, Entry(Name(path), new), used, table, data)
<1>1. CASE added = {}
  <2>1. o = Outcome(inode_bitmap, data_bitmap, table, data, order, FALSE)
    BY <1>1 DEF Finished
  <2> QED BY <2>1 DEF Outcome, SavesWhatItChanges
<1>2. CASE added # {}
  <2>1. PICK a \in added :
          o = Outcome(inode_bitmap \cup {new}, used \cup a.taken,
                      a.inodes, a.blocks, order \o a.order, TRUE)
    BY <1>2 DEF Finished
  <2>2. o.saves = TRUE
    BY <2>1 DEF Outcome
  <2> QED BY <2>2 DEF SavesWhatItChanges
<1> QED BY <1>1, <1>2

\* create_file() saves what it changed.
LEMMA CreatedSaves ==
    ASSUME NEW path, NEW o \in Created(path)
    PROVE  SavesWhatItChanges(o)
<1>1. PICK at \in Placements(path) :
        o \in Finished(path, at[1], at[2], data_bitmap,
                       [inodes EXCEPT ![at[2]] = NewInode("REGULAR")], blocks,
                       <<InodeWrite(at[2])>>)
  BY DEF Created
<1> QED BY <1>1, FinishedSaves

\* Without a free block the bit of the inode is taken back as well.
LEMMA MadeDirectorySaves ==
    ASSUME NEW path, NEW o \in MadeDirectory(path)
    PROVE  SavesWhatItChanges(o)
<1> DEFINE room == FreeBit(data_bitmap, NumBlocks)
<1>1. PICK at \in Placements(path) :
        o \in IF room = {}
              THEN {Outcome(inode_bitmap, data_bitmap, inodes, blocks, <<>>, FALSE)}
              ELSE UNION {
                 Finished(path, at[1], at[2], data_bitmap \cup {b},
                          [inodes EXCEPT ![at[2]] =
                             [NewInode("DIRECTORY") EXCEPT
                                !.size = 2, !.blocks_used = 1, !.direct_blocks[0] = b]],
                          [blocks EXCEPT ![b] =
                             NewDirectoryBlock(Entry(Dot, at[2]), Entry(DotDot, at[1]))],
                          <<BlockWrite(b), InodeWrite(at[2])>>) : b \in room}
  BY DEF MadeDirectory
<1>2. CASE room = {}
  BY <1>1, <1>2 DEF Outcome, SavesWhatItChanges
<1>3. CASE room # {}
  <2>1. PICK b \in room :
          o \in Finished(path, at[1], at[2], data_bitmap \cup {b},
                          [inodes EXCEPT ![at[2]] =
                             [NewInode("DIRECTORY") EXCEPT
                                !.size = 2, !.blocks_used = 1, !.direct_blocks[0] = b]],
                          [blocks EXCEPT ![b] =
                             NewDirectoryBlock(Entry(Dot, at[2]), Entry(DotDot, at[1]))],
                          <<BlockWrite(b), InodeWrite(at[2])>>)
    BY <1>1, <1>3
  <2> QED BY <2>1, FinishedSaves
<1> QED BY <1>2, <1>3

\* The whole of an operation leaves nothing unsaved.
LEMMA CompleteSaves ==
    ASSUME NothingIsUnsaved, NEW o, SavesWhatItChanges(o), Complete(o)
    PROVE  NothingIsUnsaved'
<1>1. CASE o.saves = TRUE
  BY <1>1 DEF Complete, Save, NothingIsUnsaved
<1>2. CASE o.saves # TRUE
  BY <1>2 DEF Complete, SavesWhatItChanges, NothingIsUnsaved
<1> QED BY <1>1, <1>2

\* No step leaves the bitmaps unsaved.
LEMMA NothingIsUnsavedStep ==
    ASSUME NothingIsUnsaved, [Next]_vars
    PROVE  NothingIsUnsaved'
<1>1. ASSUME NEW path, CreateFile(path) PROVE NothingIsUnsaved'
  <2>1. PICK o \in Created(path) : Complete(o)
    BY <1>1 DEF CreateFile
  <2> QED BY <2>1, CreatedSaves, CompleteSaves
<1>2. ASSUME NEW path, CreateDirectory(path) PROVE NothingIsUnsaved'
  <2>1. PICK o \in MadeDirectory(path) : Complete(o)
    BY <1>2 DEF CreateDirectory
  <2> QED BY <2>1, MadeDirectorySaves, CompleteSaves
<1>3. ASSUME NEW path, RemoveFile(path) PROVE NothingIsUnsaved'
  <2>1. PICK o \in Removed(path) : Complete(o)
    BY <1>3 DEF RemoveFile
  <2>2. o.saves = TRUE
    <3>1. \E ib, db, table, data, order : o = Outcome(ib, db, table, data, order, TRUE)
      BY Zenon DEF Removed
    <3> QED BY <3>1 DEF Outcome
  <2>3. SavesWhatItChanges(o)
    BY <2>2 DEF SavesWhatItChanges
  <2> QED BY <2>1, <2>3, CompleteSaves
<1>4. ASSUME NEW fd, NEW size, NEW value, WriteFile(fd, size, value)
      PROVE  NothingIsUnsaved'
  <2>1. PICK w \in WrittenFile(fd, size, value) : Complete(w.outcome)
    BY <1>4 DEF WriteFile
  <2>2. w.outcome.saves = TRUE
    BY DEF WrittenFile, Outcome
  <2>3. SavesWhatItChanges(w.outcome)
    BY <2>2 DEF SavesWhatItChanges
  <2> QED BY <2>1, <2>3, CompleteSaves
<1>5. ASSUME UNCHANGED <<memory, saved>> PROVE NothingIsUnsaved'
  BY <1>5 DEF memory, NothingIsUnsaved
<1>6. ASSUME NEW path, OpenFile(path) PROVE NothingIsUnsaved'
  BY <1>6, <1>5 DEF OpenFile
<1>7. ASSUME NEW fd, NEW size, ReadFile(fd, size) PROVE NothingIsUnsaved'
  BY <1>7, <1>5 DEF ReadFile
<1>8. ASSUME NEW fd, CloseFile(fd) PROVE NothingIsUnsaved'
  BY <1>8, <1>5 DEF CloseFile
<1>9. ASSUME Mount PROVE NothingIsUnsaved'
  BY <1>9 DEF Mount, NothingIsUnsaved
<1>10. ASSUME Format PROVE NothingIsUnsaved'
  BY <1>10 DEF Format, Save, NothingIsUnsaved
<1>11. ASSUME Restart PROVE NothingIsUnsaved'
  <2>1. saved = [inodes |-> inode_bitmap, blocks |-> data_bitmap]
    BY DEF NothingIsUnsaved
  <2>2. (IF bitmap_dirty THEN [inodes |-> inode_bitmap, blocks |-> data_bitmap]
         ELSE saved) = saved
    BY <2>1
  <2>3. /\ saved' = saved /\ inode_bitmap' = saved.inodes
        /\ data_bitmap' = saved.blocks
        /\ superblock' = Counters(saved.inodes, saved.blocks)
    BY <1>11, <2>2 DEF Restart
  <2> QED BY <2>1, <2>3 DEF NothingIsUnsaved
<1>12. CASE UNCHANGED vars
  BY <1>12, <1>5 DEF vars
<1> QED BY <1>1, <1>2, <1>3, <1>4, <1>6, <1>7, <1>8, <1>9, <1>10, <1>11, <1>12
        DEF Next, Operation

\* Between operations the bitmaps and the counters on the disk are those in
\* memory, whatever is done to files, open or not: a restart loses nothing.
THEOREM BitmapsAreAlwaysSaved == Spec => []NothingIsUnsaved
<1>1. Init => NothingIsUnsaved
  BY DEF Init, NothingIsUnsaved
<1>2. NothingIsUnsaved /\ [Next]_vars => NothingIsUnsaved'
  BY NothingIsUnsavedStep
<1> QED BY <1>1, <1>2, PTL DEF Spec

-----------------------------------------------------------------------------
(* The inode table and the blocks.                                          *)

InodeTable == [Inodes -> Inode]
Disk == [Blocks -> Block]

Indices(inode) == 0..inode.blocks_used - 1

With(f, x, y) == [f EXCEPT ![x] = y]
Resized(inode, size) == [inode EXCEPT !.size = size]
Longer(inode, b) ==
    [inode EXCEPT !.blocks_used = inode.blocks_used + 1,
                  !.direct_blocks = With(inode.direct_blocks, inode.blocks_used, b)]
Holding(block, j, entry) == [block EXCEPT !.entries = With(block.entries, j, entry)]

\* Inodes and blocks are numbered from 0, and "." and ".." are not names.
LEMMA Numbers ==
    /\ Inodes \subseteq Nat /\ Blocks \subseteq Nat
    /\ ROOT_INODE \in Inodes /\ 0 \in Blocks
    /\ INVALID_INODE \notin Inodes
    /\ Dot \notin Names /\ DotDot \notin Names /\ Dot # DotDot
    /\ 0 \in 0..DirectBlocks - 1 /\ 1 \in 0..DirectBlocks
    /\ 0 \in 0..Slots - 1 /\ 1 \in 0..Slots - 1
  BY DEF Inodes, Blocks, ROOT_INODE, INVALID_INODE, Dot, DotDot

\* What the fields of inodes, blocks and entries hold.
LEMMA InodeFields ==
    ASSUME NEW e \in Inode
    PROVE  /\ e.type \in {"NONE", "REGULAR", "DIRECTORY"}
           /\ e.size \in Nat
           /\ e.blocks_used \in 0..DirectBlocks
           /\ e.direct_blocks \in [0..DirectBlocks - 1 -> Blocks \cup {INVALID_BLOCK}]
           /\ Indices(e) \subseteq 0..DirectBlocks - 1
  BY DEF Inode, Indices

\* What the parts of a block hold.
LEMMA BlockFields ==
    ASSUME NEW e \in Block
    PROVE  /\ e.cells \in [0..BlockSize - 1 -> Values \cup {Junk}]
           /\ e.entries \in [0..Slots - 1 -> DirectoryEntry]
  BY DEF Block

\* What the parts of a directory entry hold.
LEMMA EntryFields ==
    ASSUME NEW e \in DirectoryEntry
    PROVE  e.name \in Names \cup {Dot, DotDot} /\ e.inode_num \in Inodes \cup {INVALID_INODE}
  BY DEF DirectoryEntry

\* What an entry holds, and when it is one.
LEMMA EntryIs ==
    ASSUME NEW name, NEW inode_num
    PROVE  Entry(name, inode_num).name = name /\ Entry(name, inode_num).inode_num = inode_num
  BY DEF Entry

\* An entry for a name and an inode is a directory entry.
LEMMA EntryType ==
    ASSUME NEW name \in Names \cup {Dot, DotDot}, NEW inode_num \in Inodes \cup {INVALID_INODE}
    PROVE  Entry(name, inode_num) \in DirectoryEntry
  BY DEF Entry, DirectoryEntry

\* A free entry names no inode.
LEMMA FreeEntryIs == FreeEntry \in DirectoryEntry /\ FreeEntry.inode_num = INVALID_INODE
  BY DEF FreeEntry, Entry, DirectoryEntry

\* One inode of the table replaced.
LEMMA TableWith ==
    ASSUME NEW T \in InodeTable, NEW n \in Inodes, NEW e \in Inode
    PROVE  /\ With(T, n, e) \in InodeTable
           /\ \A m \in Inodes : With(T, n, e)[m] = IF m = n THEN e ELSE T[m]
  BY DEF With, InodeTable

\* One block of the disk replaced.
LEMMA DiskWith ==
    ASSUME NEW B \in Disk, NEW b \in Blocks, NEW e \in Block
    PROVE  /\ With(B, b, e) \in Disk
           /\ \A c \in Blocks : With(B, b, e)[c] = IF c = b THEN e ELSE B[c]
  BY DEF With, Disk

\* A new size leaves the rest of an inode alone.
LEMMA ResizedIs ==
    ASSUME NEW e \in Inode, NEW size \in Nat
    PROVE  /\ Resized(e, size) \in Inode
           /\ Resized(e, size).size = size
           /\ Resized(e, size).type = e.type
           /\ Resized(e, size).blocks_used = e.blocks_used
           /\ Resized(e, size).direct_blocks = e.direct_blocks
  BY DEF Resized, Inode

\* A block more comes after the blocks an inode has.
LEMMA LongerIs ==
    ASSUME NEW e \in Inode, e.blocks_used < DirectBlocks, NEW b \in Blocks
    PROVE  /\ Longer(e, b) \in Inode
           /\ Longer(e, b).size = e.size
           /\ Longer(e, b).type = e.type
           /\ Longer(e, b).blocks_used = e.blocks_used + 1
           /\ Longer(e, b).direct_blocks[e.blocks_used] = b
           /\ \A i \in Indices(e) : Longer(e, b).direct_blocks[i] = e.direct_blocks[i]
           /\ Indices(Longer(e, b)) = Indices(e) \cup {e.blocks_used}
<1> DEFINE d == With(e.direct_blocks, e.blocks_used, b)
<1>1. /\ e.blocks_used \in 0..DirectBlocks - 1
      /\ e.direct_blocks \in [0..DirectBlocks - 1 -> Blocks \cup {INVALID_BLOCK}]
      /\ Indices(e) \subseteq 0..DirectBlocks - 1
  BY InodeFields
<1>2. /\ d \in [0..DirectBlocks - 1 -> Blocks \cup {INVALID_BLOCK}]
      /\ \A i \in 0..DirectBlocks - 1 :
           d[i] = IF i = e.blocks_used THEN b ELSE e.direct_blocks[i]
  BY <1>1 DEF With
<1>3. \A i \in Indices(e) : i # e.blocks_used
  BY <1>1 DEF Indices
<1> HIDE DEF d
<1> DEFINE u == e.blocks_used + 1
<1>4. /\ Longer(e, b) = [e EXCEPT !.blocks_used = u, !.direct_blocks = d]
      /\ u \in 0..DirectBlocks
  BY <1>1, SMTT(30) DEF Longer, d
<1>5. /\ Longer(e, b) \in Inode
      /\ Longer(e, b).size = e.size
      /\ Longer(e, b).type = e.type
      /\ Longer(e, b).blocks_used = e.blocks_used + 1
      /\ Longer(e, b).direct_blocks = d
  <2> HIDE DEF u
  <2>1. Longer(e, b) \in Inode
    BY <1>2, <1>4, Zenon DEF Inode
  <2>2. /\ Longer(e, b).size = e.size
        /\ Longer(e, b).type = e.type
        /\ Longer(e, b).blocks_used = u
        /\ Longer(e, b).direct_blocks = d
    BY <1>4 DEF Inode
  <2> QED BY <2>1, <2>2 DEF u
<1>6. Indices(Longer(e, b)) = Indices(e) \cup {e.blocks_used}
  BY <1>1, <1>5 DEF Indices
<1> QED BY <1>1, <1>2, <1>3, <1>5, <1>6

\* An entry replaced leaves the others of its block alone.
LEMMA HoldingIs ==
    ASSUME NEW e \in Block, NEW j \in 0..Slots - 1, NEW entry \in DirectoryEntry
    PROVE  /\ Holding(e, j, entry) \in Block
           /\ Holding(e, j, entry).cells = e.cells
           /\ \A k \in 0..Slots - 1 :
                Holding(e, j, entry).entries[k] = IF k = j THEN entry ELSE e.entries[k]
<1> DEFINE d == With(e.entries, j, entry)
<1>1. e.entries \in [0..Slots - 1 -> DirectoryEntry]
  BY BlockFields
<1>2. /\ d \in [0..Slots - 1 -> DirectoryEntry]
      /\ \A k \in 0..Slots - 1 : d[k] = IF k = j THEN entry ELSE e.entries[k]
  BY <1>1 DEF With
<1> HIDE DEF d
<1>3. Holding(e, j, entry) = [e EXCEPT !.entries = d]
  BY DEF Holding, d
<1>4. /\ Holding(e, j, entry) \in Block
      /\ Holding(e, j, entry).cells = e.cells
      /\ Holding(e, j, entry).entries = d
  BY <1>2, <1>3 DEF Block
<1> QED BY <1>2, <1>4

\* A new directory block holds the two entries it is given.
LEMMA NewDirectoryBlockIs ==
    ASSUME NEW first \in DirectoryEntry, NEW second \in DirectoryEntry
    PROVE  /\ NewDirectoryBlock(first, second) \in Block
           /\ NewDirectoryBlock(first, second).entries[0] = first
           /\ NewDirectoryBlock(first, second).entries[1] = second
           /\ \A j \in 0..Slots - 1 : j \notin {0, 1} =>
                NewDirectoryBlock(first, second).entries[j] = FreeEntry
<1> DEFINE d == [j \in 0..Slots - 1 |->
                   IF j = 0 THEN first ELSE IF j = 1 THEN second ELSE FreeEntry]
           c == [i \in 0..BlockSize - 1 |-> Junk]
<1>1. /\ d \in [0..Slots - 1 -> DirectoryEntry]
      /\ d[0] = first /\ d[1] = second
      /\ \A j \in 0..Slots - 1 : j \notin {0, 1} => d[j] = FreeEntry
  BY FreeEntryIs
<1>2. c \in [0..BlockSize - 1 -> Values \cup {Junk}]
  OBVIOUS
<1> HIDE DEF d
<1>3. NewDirectoryBlock(first, second) = [cells |-> c, entries |-> d]
  BY DEF NewDirectoryBlock, Entries, d
<1> HIDE DEF c
<1>4. /\ NewDirectoryBlock(first, second) \in Block
      /\ NewDirectoryBlock(first, second).entries = d
  BY <1>1, <1>2, <1>3 DEF Block
<1> QED BY <1>1, <1>4

\* A block of a file holds no entries.
LEMMA CellsIs ==
    ASSUME NEW cells \in [0..BlockSize - 1 -> Values \cup {Junk}]
    PROVE  Cells(cells) \in Block
<1> DEFINE d == [j \in 0..Slots - 1 |-> FreeEntry]
<1>1. d \in [0..Slots - 1 -> DirectoryEntry]
  BY FreeEntryIs
<1> HIDE DEF d
<1>2. Cells(cells) = [cells |-> cells, entries |-> d]
  BY DEF Cells, d
<1> QED BY <1>1, <1>2 DEF Block

\* A new inode has no blocks.
LEMMA NewInodeIs ==
    ASSUME NEW type \in {"NONE", "REGULAR", "DIRECTORY"}
    PROVE  /\ NewInode(type) \in Inode
           /\ NewInode(type).type = type
           /\ NewInode(type).size = 0
           /\ NewInode(type).blocks_used = 0
           /\ Indices(NewInode(type)) = {}
  BY DEF NewInode, Inode, Indices

NewDirectoryInode(b) ==
    [NewInode("DIRECTORY") EXCEPT !.size = 2, !.blocks_used = 1, !.direct_blocks[0] = b]

\* A new directory has one block, with two entries.
LEMMA NewDirectoryInodeIs ==
    ASSUME NEW b \in Blocks
    PROVE  /\ NewDirectoryInode(b) \in Inode
           /\ NewDirectoryInode(b).type = "DIRECTORY"
           /\ NewDirectoryInode(b).size = 2
           /\ NewDirectoryInode(b).blocks_used = 1
           /\ NewDirectoryInode(b).direct_blocks[0] = b
           /\ Indices(NewDirectoryInode(b)) = {0}
<1> DEFINE new == NewInode("DIRECTORY")
           d == With(new.direct_blocks, 0, b)
<1>1. new \in Inode /\ new.type = "DIRECTORY"
  BY NewInodeIs
<1>2. d \in [0..DirectBlocks - 1 -> Blocks \cup {INVALID_BLOCK}] /\ d[0] = b
  BY <1>1, InodeFields, Numbers DEF With
<1>3. 1 \in 0..DirectBlocks /\ 2 \in Nat
  BY Numbers
<1>4. NewDirectoryInode(b) = [new EXCEPT !.size = 2, !.blocks_used = 1, !.direct_blocks = d]
  BY DEF NewDirectoryInode, With
<1> HIDE DEF new, d
<1>5. NewDirectoryInode(b) \in Inode
  BY <1>1, <1>2, <1>3, <1>4, Zenon DEF Inode
<1>6. /\ NewDirectoryInode(b).type = "DIRECTORY"
      /\ NewDirectoryInode(b).size = 2
      /\ NewDirectoryInode(b).blocks_used = 1
      /\ NewDirectoryInode(b).direct_blocks = d
  BY <1>1, <1>4 DEF Inode
<1> QED BY <1>2, <1>5, <1>6 DEF Indices

\* The second of two writes to one place is what stays.
LEMMA WithTwice ==
    ASSUME NEW S, NEW V, NEW f \in [S -> V], NEW x \in S, NEW y \in V, NEW z \in V
    PROVE  With(With(f, x, y), x, z) = With(f, x, z)
  BY DEF With

\* A directory block with one entry, as it is written and as it is filled.
LEMMA FirstEntryHeld ==
    ASSUME NEW entry \in DirectoryEntry
    PROVE  Holding(NewDirectoryBlock(FreeEntry, FreeEntry), 0, entry)
             = NewDirectoryBlock(entry, FreeEntry)
<1> DEFINE c == [i \in 0..BlockSize - 1 |-> Junk]
           d == [j \in 0..Slots - 1 |-> IF j = 0 THEN FreeEntry ELSE IF j = 1 THEN FreeEntry ELSE FreeEntry]
           e == [j \in 0..Slots - 1 |-> IF j = 0 THEN entry ELSE IF j = 1 THEN FreeEntry ELSE FreeEntry]
<1>1. With(d, 0, entry) = e
  BY Numbers DEF With
<1>2. /\ NewDirectoryBlock(FreeEntry, FreeEntry) = [cells |-> c, entries |-> d]
      /\ NewDirectoryBlock(entry, FreeEntry) = [cells |-> c, entries |-> e]
  BY DEF NewDirectoryBlock, Entries
<1> HIDE DEF c, d, e
<1> DEFINE new == NewDirectoryBlock(FreeEntry, FreeEntry)
<1>3. new = [cells |-> c, entries |-> d]
  BY <1>2
<1> HIDE DEF new
<1>4. Holding(new, 0, entry) = [new EXCEPT !.entries = With(new.entries, 0, entry)]
  BY DEF Holding
<1>5. new.entries = d
  BY <1>3
<1>6. Holding(new, 0, entry) = [new EXCEPT !.entries = e]
  BY <1>1, <1>4, <1>5
<1>7. [new EXCEPT !.entries = e] = [cells |-> c, entries |-> e]
  BY <1>3
<1> QED BY <1>2, <1>6, <1>7 DEF new

\* A directory that grows by a block and an entry, as it is written.
DirectoryGrown(T, n, b) ==
    [T EXCEPT ![n].size = @ + 1,
              ![n].blocks_used = T[n].blocks_used + 1,
              ![n].direct_blocks[T[n].blocks_used] = b]

\* A directory that grows is first longer and then resized.
LEMMA LongerAndResized ==
    ASSUME NEW T \in InodeTable, NEW n \in Inodes, T[n].blocks_used < DirectBlocks,
           NEW b \in Blocks
    PROVE  DirectoryGrown(T, n, b)
             = With(With(T, n, Longer(T[n], b)), n,
                    Resized(With(T, n, Longer(T[n], b))[n], With(T, n, Longer(T[n], b))[n].size + 1))
<1> DEFINE e == T[n]
           u == e.blocks_used
           d == With(e.direct_blocks, u, b)
           e1 == [e EXCEPT !.size = e.size + 1]
           e2 == [e1 EXCEPT !.blocks_used = u + 1]
           e3 == [e2 EXCEPT !.direct_blocks = With(e2.direct_blocks, u, b)]
           T1 == With(T, n, e1)
           T2 == With(T1, n, [T1[n] EXCEPT !.blocks_used = u + 1])
           T3 == With(T2, n, [T2[n] EXCEPT !.direct_blocks = With(T2[n].direct_blocks, u, b)])
           L == Longer(e, b)
<1>1. DirectoryGrown(T, n, b) = T3
  BY Zenon DEF With, DirectoryGrown
<1>2. e \in Inode /\ u \in 0..DirectBlocks /\ u + 1 \in 0..DirectBlocks /\ e.size + 1 \in Nat
  BY InodeFields DEF InodeTable
<1>3. L \in Inode /\ L.size = e.size
  BY <1>2, LongerIs
<1>4. e1 \in Inode /\ e1.direct_blocks = e.direct_blocks
  <2> HIDE DEF e
  <2> QED BY <1>2 DEF Inode
<1> HIDE DEF e1
<1>5. e2 \in Inode /\ e2.direct_blocks = e.direct_blocks
  <2> HIDE DEF e, u
  <2> QED BY <1>2, <1>4 DEF Inode
<1> HIDE DEF e2
<1>6. e3 \in Inode
  <2> HIDE DEF e
  <2>1. u \in 0..DirectBlocks - 1
    BY <1>2
  <2>2. With(e2.direct_blocks, u, b) \in [0..DirectBlocks - 1 -> Blocks \cup {INVALID_BLOCK}]
    BY <1>2, <1>5, <2>1, InodeFields DEF With
  <2> HIDE DEF u
  <2> QED BY <1>5, <2>2 DEF Inode
<1>7. e3 = Resized(L, L.size + 1)
  <2>1. L = [e EXCEPT !.blocks_used = u + 1, !.direct_blocks = d]
    BY DEF Longer
  <2> HIDE DEF e, u, d, L
  <2>2. Resized(L, L.size + 1) = [L EXCEPT !.size = e.size + 1]
    BY <1>3 DEF Resized
  <2>3. e3 = [e2 EXCEPT !.direct_blocks = d]
    BY <1>5 DEF d
  <2> QED BY <1>2, <2>1, <2>2, <2>3 DEF Inode, e1, e2
<1>8. e \in Inode /\ T \in [Inodes -> Inode] /\ n \in Inodes
  BY <1>2 DEF InodeTable
<1> DEFINE T4 == With(T, n, L)
           R == Resized(L, L.size + 1)
<1>9. With(T4, n, Resized(T4[n], T4[n].size + 1)) = With(T, n, R)
  <2> HIDE DEF L
  <2>1. T4[n] = L
    BY <1>3, TableWith
  <2>2. R \in Inode
    <3>1. L.size + 1 \in Nat
      BY <1>2, <1>3
    <3> QED BY <1>3, <3>1, ResizedIs
  <2>3. With(T4, n, R) = With(T, n, R)
    <3> HIDE DEF R
    <3> QED BY <1>3, <1>8, <2>2, WithTwice
  <2> QED BY <2>1, <2>3
<1>10. T3 = With(T, n, e3)
  <2>1. T1[n] = e1
    <3> HIDE DEF e
    <3> QED BY <1>4, TableWith
  <2>2. T2 = With(T, n, e2)
    <3>1. T2 = With(With(T, n, e1), n, e2)
      BY <2>1 DEF e2
    <3>2. With(With(T, n, e1), n, e2) = With(T, n, e2)
      BY <1>4, <1>5, <1>8, WithTwice
    <3> QED BY <3>1, <3>2
  <2>3. T2[n] = e2
    BY <1>5, <2>2, TableWith
  <2>4. T3 = With(With(T, n, e2), n, e3)
    BY <2>2, <2>3 DEF e3
  <2>5. With(With(T, n, e2), n, e3) = With(T, n, e3)
    <3> HIDE DEF e3
    <3> QED BY <1>5, <1>6, <1>8, WithTwice
  <2> QED BY <2>4, <2>5
<1> HIDE DEF T3, e3, e, u
<1>11. With(T4, n, Resized(T4[n], T4[n].size + 1)) = T3
  BY <1>7, <1>9, <1>10
<1> QED BY <1>1, <1>11 DEF e, u

-----------------------------------------------------------------------------
(***************************************************************************)
(* When the disk is sound: `ib' and `db' are the allocated inodes and      *)
(* blocks, `T' the inode table, `B' the blocks, and `O' the inodes that    *)
(* are allocated but not in a directory yet, or no longer.                 *)
(***************************************************************************)

\* The places of a directory, as index of the block and slot in it.
Places(inode) == Indices(inode) \X (0..Slots - 1)
At(T, B, n, s) == B[T[n].direct_blocks[s[1]]].entries[s[2]]
Taken(T, B, n) == {s \in Places(T[n]) : At(T, B, n, s).inode_num # INVALID_INODE}
Heads == {<<0, 0>>, <<0, 1>>}
LinksOf(T, B, n) == Taken(T, B, n) \ Heads
Directories(ib, T) == {n \in ib : T[n].type = "DIRECTORY"}

Typed(ib, db, T, B) ==
    /\ ib \in SUBSET Inodes /\ db \in SUBSET Blocks
    /\ T \in InodeTable /\ B \in Disk

\* An allocated block belongs to one allocated inode, at one index.
Accounted(ib, db, T) ==
    /\ \A n \in ib : \A i \in Indices(T[n]) : T[n].direct_blocks[i] \in db
    /\ \A b \in db : \E n \in ib : \E i \in Indices(T[n]) : T[n].direct_blocks[i] = b
    /\ \A m, n \in ib : \A i \in Indices(T[m]), j \in Indices(T[n]) :
         T[m].direct_blocks[i] = T[n].direct_blocks[j] => m = n /\ i = j

\* A directory starts with "." and "..", and counts its entries.
Headed(ib, T, B) ==
    \A n \in Directories(ib, T) :
        /\ T[n].blocks_used > 0
        /\ At(T, B, n, <<0, 0>>) = Entry(Dot, n)
        /\ At(T, B, n, <<0, 1>>).name = DotDot
        /\ At(T, B, n, <<0, 1>>).inode_num \in Inodes
        /\ \A s \in LinksOf(T, B, n) : At(T, B, n, s).name \in Names
        /\ T[n].size = Cardinality(Taken(T, B, n))

Rooted(ib, T, B, O) ==
    /\ ROOT_INODE \in Directories(ib, T)
    /\ O \subseteq ib \ {ROOT_INODE}
    /\ At(T, B, ROOT_INODE, <<0, 1>>) = Entry(DotDot, ROOT_INODE)

\* Links lead to all inodes but the root and those in O, and ".." back.
Linked(ib, T, B, O) ==
    /\ \A n \in Directories(ib, T) : \A s \in LinksOf(T, B, n) :
         /\ At(T, B, n, s).inode_num \in ib \ ({ROOT_INODE} \cup O)
         /\ At(T, B, n, s).inode_num \in Directories(ib, T) =>
              At(T, B, At(T, B, n, s).inode_num, <<0, 1>>) = Entry(DotDot, n)
    /\ \A c \in ib \ ({ROOT_INODE} \cup O) :
         \E n \in Directories(ib, T) : \E s \in LinksOf(T, B, n) :
           At(T, B, n, s).inode_num = c

\* No two links lead to the same inode, or have one name in one directory.
Unique(ib, T, B) ==
    \A m, n \in Directories(ib, T) :
        \A s \in LinksOf(T, B, m), t \in LinksOf(T, B, n) :
            /\ At(T, B, m, s).inode_num = At(T, B, n, t).inode_num => m = n /\ s = t
            /\ m = n /\ At(T, B, m, s).name = At(T, B, n, t).name => s = t

\* Every set of other inodes is entered from outside, and not by those in O:
\* the links lead from the root to everything.
Grounded(ib, T, B, O) ==
    \A S \in SUBSET (ib \ ({ROOT_INODE} \cup O)) : S # {} =>
        \E n \in Directories(ib, T) \ (S \cup O) : \E s \in LinksOf(T, B, n) :
            At(T, B, n, s).inode_num \in S

Tree(ib, T, B, O) ==
    /\ Headed(ib, T, B) /\ Rooted(ib, T, B, O) /\ Linked(ib, T, B, O)
    /\ Unique(ib, T, B) /\ Grounded(ib, T, B, O)

\* The blocks of a file reach to its size.
Covered(ib, T) ==
    \A n \in ib \ Directories(ib, T) : T[n].size <= T[n].blocks_used * BlockSize

Sound(ib, db, T, B, O) ==
    Typed(ib, db, T, B) /\ Accounted(ib, db, T) /\ Tree(ib, T, B, O) /\ Covered(ib, T)

\* A directory starts with "." and "..", whatever its size says.
Begun(ib, T, B) ==
    \A n \in Directories(ib, T) :
        /\ T[n].blocks_used > 0
        /\ At(T, B, n, <<0, 0>>) = Entry(Dot, n)
        /\ At(T, B, n, <<0, 1>>).name = DotDot
        /\ At(T, B, n, <<0, 1>>).inode_num \in Inodes
        /\ \A s \in LinksOf(T, B, n) : At(T, B, n, s).name \in Names

\* Sound but for the sizes of directories: what a search of them needs.
Shaped(ib, db, T, B) ==
    /\ Typed(ib, db, T, B) /\ Accounted(ib, db, T) /\ Covered(ib, T)
    /\ Begun(ib, T, B) /\ Rooted(ib, T, B, {}) /\ Linked(ib, T, B, {})
    /\ Unique(ib, T, B) /\ Grounded(ib, T, B, {})

\* A sound disk is one.
LEMMA SoundIsShaped ==
    ASSUME NEW ib, NEW db, NEW T, NEW B, Sound(ib, db, T, B, {})
    PROVE  Shaped(ib, db, T, B)
<1>1. Begun(ib, T, B)
  BY DEF Sound, Tree, Headed, Begun
<1> QED BY <1>1 DEF Sound, Tree, Shaped

-----------------------------------------------------------------------------
(* What the changes of an operation do to the parts of this.                *)

\* Accounts depend on the inodes only by their blocks.
LEMMA AccountedSame ==
    ASSUME NEW ib, NEW db, NEW T, NEW T2, Accounted(ib, db, T),
           \A n \in ib : Indices(T2[n]) = Indices(T[n]) /\
             \A i \in Indices(T[n]) : T2[n].direct_blocks[i] = T[n].direct_blocks[i]
    PROVE  Accounted(ib, db, T2)
  BY DEF Accounted

\* A free block b is given to inode n of the table, at index u, and nothing else.
Gains(ib, T, T2, n, u, b) ==
    /\ \A m \in ib \ {n} : T2[m] = T[m]
    /\ u \in Indices(T2[n]) /\ T2[n].direct_blocks[u] = b
    /\ \A i \in Indices(T2[n]) \ {u} :
         n \in ib /\ i \in Indices(T[n]) /\ T2[n].direct_blocks[i] = T[n].direct_blocks[i]
    /\ n \in ib => Indices(T[n]) \subseteq Indices(T2[n]) \ {u}

\* A block that is gained is accounted for.
LEMMA AccountedMore ==
    ASSUME NEW ib, NEW db, NEW T, NEW T2, NEW n, NEW u, NEW b,
           Accounted(ib, db, T), Gains(ib, T, T2, n, u, b), b \notin db
    PROVE  Accounted(ib \cup {n}, db \cup {b}, T2)
<1>1. ASSUME NEW m \in ib \cup {n}, NEW i \in Indices(T2[m]), ~(m = n /\ i = u)
      PROVE  /\ m \in ib /\ i \in Indices(T[m])
             /\ T2[m].direct_blocks[i] = T[m].direct_blocks[i]
             /\ T2[m].direct_blocks[i] \in db
  BY <1>1 DEF Accounted, Gains
<1>2. T2[n].direct_blocks[u] = b /\ u \in Indices(T2[n])
  BY DEF Gains
<1>3. \A m \in ib \cup {n} : \A i \in Indices(T2[m]) :
        T2[m].direct_blocks[i] \in db \cup {b}
  BY <1>1, <1>2
<1>4. ASSUME NEW c \in db \cup {b}
      PROVE  \E m \in ib \cup {n} : \E i \in Indices(T2[m]) : T2[m].direct_blocks[i] = c
  <2>1. CASE c = b
    BY <1>2, <2>1
  <2>2. CASE c \in db
    <3>1. PICK m \in ib : \E i \in Indices(T[m]) : T[m].direct_blocks[i] = c
      BY <2>2 DEF Accounted
    <3>2. PICK i \in Indices(T[m]) : T[m].direct_blocks[i] = c
      BY <3>1
    <3>3. i \in Indices(T2[m]) /\ T2[m].direct_blocks[i] = c
      BY <3>2 DEF Gains
    <3> QED BY <3>3
  <2> QED BY <2>1, <2>2
<1>5. ASSUME NEW l \in ib \cup {n}, NEW m \in ib \cup {n},
             NEW i \in Indices(T2[l]), NEW j \in Indices(T2[m]),
             T2[l].direct_blocks[i] = T2[m].direct_blocks[j]
      PROVE  l = m /\ i = j
  <2>1. CASE l = n /\ i = u
    BY <1>1, <1>5, <1>2, <2>1
  <2>2. CASE m = n /\ j = u
    BY <1>1, <1>5, <1>2, <2>2
  <2>3. CASE ~(l = n /\ i = u) /\ ~(m = n /\ j = u)
    BY <1>1, <1>5, <2>3 DEF Accounted
  <2> QED BY <2>1, <2>2, <2>3
<1> QED BY <1>3, <1>4, <1>5 DEF Accounted

\* An inode without blocks is allocated.
LEMMA AccountedNew ==
    ASSUME NEW ib, NEW db, NEW T, NEW T2, Accounted(ib, db, T),
           NEW n, \A m \in ib : T2[m] = T[m], Indices(T2[n]) = {}
    PROVE  Accounted(ib \cup {n}, db, T2)
<1>1. \A m \in ib \cup {n} : \A i \in Indices(T2[m]) : m \in ib /\ T2[m] = T[m]
  OBVIOUS
<1> QED BY <1>1 DEF Accounted

\* An inode is freed, and its blocks.
LEMMA AccountedFreed ==
    ASSUME NEW ib, NEW db, NEW T, Accounted(ib, db, T), NEW n \in ib
    PROVE  Accounted(ib \ {n}, db \ Freed(T[n]), T)
<1>1. Freed(T[n]) = {T[n].direct_blocks[i] : i \in Indices(T[n])}
  BY DEF Freed, Indices
<1>2. \A m \in ib \ {n} : \A i \in Indices(T[m]) :
        T[m].direct_blocks[i] \in db \ Freed(T[n])
  BY <1>1 DEF Accounted
<1>3. \A b \in db \ Freed(T[n]) :
        \E m \in ib \ {n} : \E i \in Indices(T[m]) : T[m].direct_blocks[i] = b
  BY <1>1 DEF Accounted
<1> QED BY <1>2, <1>3 DEF Accounted

\* A directory has finitely many entries.
LEMMA TakenIsFinite ==
    ASSUME NEW T \in InodeTable, NEW B, NEW n \in Inodes
    PROVE  IsFiniteSet(Taken(T, B, n))
<1>1. T[n].blocks_used - 1 \in Int
  BY InodeFields DEF InodeTable
<1>2. IsFiniteSet(Indices(T[n]))
  BY <1>1, FS_Interval DEF Indices
<1>3. IsFiniteSet(0..Slots - 1)
  BY FS_Interval
<1>4. IsFiniteSet(Places(T[n]))
  BY <1>2, <1>3, FS_Product DEF Places
<1> QED BY <1>4, FS_Subset DEF Taken

\* "." and ".." are entries, and there are two of them.
LEMMA HeadsAreTaken ==
    ASSUME NEW ib \in SUBSET Inodes, NEW T \in InodeTable, NEW B,
           Headed(ib, T, B) \/ Begun(ib, T, B), NEW n \in Directories(ib, T)
    PROVE  Heads \subseteq Taken(T, B, n)
<1>1. n \in Inodes /\ T[n] \in Inode
  BY DEF Directories, InodeTable
<1>2. 0 \in Indices(T[n])
  BY <1>1, InodeFields DEF Headed, Begun, Indices
<1>3. Heads \subseteq Places(T[n])
  BY <1>2, Numbers DEF Heads, Places
<1>4. /\ At(T, B, n, <<0, 0>>).inode_num # INVALID_INODE
      /\ At(T, B, n, <<0, 1>>).inode_num # INVALID_INODE
  BY <1>1, EntryIs, Numbers DEF Headed, Begun
<1> QED BY <1>3, <1>4 DEF Heads, Taken

\* "." and ".." are two entries.
LEMMA HeadsAreTwo == IsFiniteSet(Heads) /\ Cardinality(Heads) = 2
<1>1. <<0, 0>> # <<0, 1>>
  OBVIOUS
<1>2. IsFiniteSet({<<0, 0>>}) /\ Cardinality({<<0, 0>>}) = 1
  BY FS_Singleton
<1>3. Heads = {<<0, 0>>} \cup {<<0, 1>>}
  BY DEF Heads
<1> DEFINE one == {<<0, 0>>}
           y == <<0, 1>>
<1>4. y \notin one
  BY <1>1
<1> HIDE DEF one, y
<1>5. IsFiniteSet(one \cup {y}) /\ Cardinality(one \cup {y}) = Cardinality(one) + 1
  BY <1>2, <1>4, FS_AddElement DEF one
<1> QED BY <1>2, <1>3, <1>5 DEF one, y

\* Changes that keep the directories and their entries keep the tree.
LEMMA TreeSame ==
    ASSUME NEW ib, NEW T, NEW B, NEW O, NEW ib2, NEW T2, NEW B2, NEW O2,
           Tree(ib, T, B, O),
           O2 \subseteq ib2, ib2 \ O2 = ib \ O,
           Directories(ib2, T2) = Directories(ib, T),
           \A n \in Directories(ib, T) :
             /\ T2[n].blocks_used > 0
             /\ T2[n].size = T[n].size
             /\ Taken(T2, B2, n) = Taken(T, B, n)
             /\ Heads \subseteq Taken(T, B, n)
             /\ \A s \in Taken(T, B, n) : At(T2, B2, n, s) = At(T, B, n, s)
    PROVE  Tree(ib2, T2, B2, O2)
<1> DEFINE D == Directories(ib, T)
<1>1. ASSUME NEW n \in D
      PROVE  /\ LinksOf(T2, B2, n) = LinksOf(T, B, n)
             /\ \A s \in LinksOf(T, B, n) : At(T2, B2, n, s) = At(T, B, n, s)
             /\ At(T2, B2, n, <<0, 0>>) = At(T, B, n, <<0, 0>>)
             /\ At(T2, B2, n, <<0, 1>>) = At(T, B, n, <<0, 1>>)
  BY <1>1 DEF LinksOf, Heads
<1>2. Headed(ib2, T2, B2)
  BY <1>1 DEF Tree, Headed
<1>3. ROOT_INODE \in ib \ O
  BY DEF Tree, Rooted, Directories
<1>4. Rooted(ib2, T2, B2, O2)
  BY <1>1, <1>3 DEF Tree, Rooted
<1>5. ib2 \ ({ROOT_INODE} \cup O2) = ib \ ({ROOT_INODE} \cup O)
  OBVIOUS
<1>6. Linked(ib2, T2, B2, O2)
  BY <1>1, <1>5 DEF Tree, Linked
<1>7. Unique(ib2, T2, B2)
  BY <1>1 DEF Tree, Unique
<1>8. Grounded(ib2, T2, B2, O2)
  <2> SUFFICES ASSUME NEW S \in SUBSET (ib2 \ ({ROOT_INODE} \cup O2)), S # {}
               PROVE  \E n \in D \ (S \cup O2) : \E s \in LinksOf(T2, B2, n) :
                        At(T2, B2, n, s).inode_num \in S
    BY DEF Grounded
  <2>1. PICK n \in D \ (S \cup O) : \E s \in LinksOf(T, B, n) : At(T, B, n, s).inode_num \in S
    BY <1>5 DEF Tree, Grounded
  <2>2. n \notin O2
    BY <2>1 DEF Directories
  <2>3. PICK s \in LinksOf(T, B, n) : At(T, B, n, s).inode_num \in S
    BY <2>1
  <2>4. n \in D /\ s \in LinksOf(T2, B2, n) /\ At(T2, B2, n, s).inode_num \in S
    BY <1>1, <2>1, <2>3
  <2> QED BY <2>1, <2>2, <2>4
<1> QED BY <1>2, <1>4, <1>6, <1>7, <1>8 DEF Tree

\* An entry for the inode that is in no directory is written to a free slot.
LEMMA TreeLinked ==
    ASSUME NEW ib \in SUBSET Inodes, NEW T \in InodeTable, NEW B,
           NEW T2, NEW B2, NEW new \in ib, Tree(ib, T, B, {new}),
           NEW dir \in Directories(ib, T), dir # new, NEW s, s \notin Taken(T, B, dir),
           NEW name \in Names, \A t \in Taken(T, B, dir) : At(T, B, dir, t).name # name,
           new \in Directories(ib, T) => At(T, B, new, <<0, 1>>) = Entry(DotDot, dir),
           Directories(ib, T2) = Directories(ib, T),
           \A n \in Directories(ib, T) :
             /\ T2[n].blocks_used = T[n].blocks_used
             /\ T2[n].size = IF n = dir THEN T[n].size + 1 ELSE T[n].size
             /\ Taken(T2, B2, n) = IF n = dir THEN Taken(T, B, n) \cup {s} ELSE Taken(T, B, n)
             /\ \A t \in Taken(T, B, n) : At(T2, B2, n, t) = At(T, B, n, t),
           At(T2, B2, dir, s) = Entry(name, new)
    PROVE  Tree(ib, T2, B2, {})
<1> DEFINE D == Directories(ib, T)
<1>1. \A n \in D : Heads \subseteq Taken(T, B, n)
  BY HeadsAreTaken DEF Tree
<1>2. s \notin Heads
  BY <1>1
<1>3. ASSUME NEW n \in D
      PROVE  /\ LinksOf(T2, B2, n) =
                  IF n = dir THEN LinksOf(T, B, n) \cup {s} ELSE LinksOf(T, B, n)
             /\ \A t \in LinksOf(T, B, n) : At(T2, B2, n, t) = At(T, B, n, t)
             /\ At(T2, B2, n, <<0, 0>>) = At(T, B, n, <<0, 0>>)
             /\ At(T2, B2, n, <<0, 1>>) = At(T, B, n, <<0, 1>>)
  BY <1>1, <1>2, <1>3 DEF LinksOf, Heads
<1>4. At(T2, B2, dir, s).name = name /\ At(T2, B2, dir, s).inode_num = new
  BY EntryIs
<1>5. ASSUME NEW n \in D, NEW t \in LinksOf(T2, B2, n)
      PROVE  \/ t \in LinksOf(T, B, n) /\ At(T2, B2, n, t) = At(T, B, n, t)
             \/ n = dir /\ t = s
  BY <1>3
<1>6. s \notin LinksOf(T, B, dir)
  BY DEF LinksOf
<1>7. Headed(ib, T2, B2)
  <2>1. ASSUME NEW n \in D
        PROVE  T2[n].size = Cardinality(Taken(T2, B2, n))
    <3>1. IsFiniteSet(Taken(T, B, n)) /\ T[n].size = Cardinality(Taken(T, B, n))
      BY TakenIsFinite DEF Tree, Headed, Directories
    <3> QED BY <3>1, FS_AddElement
  <2>2. \A n \in D : \A t \in LinksOf(T2, B2, n) : At(T2, B2, n, t).name \in Names
    BY <1>4, <1>5 DEF Tree, Headed
  <2> QED BY <1>3, <2>1, <2>2 DEF Tree, Headed
<1>8. Rooted(ib, T2, B2, {})
  BY <1>3 DEF Tree, Rooted
<1>9. Linked(ib, T2, B2, {})
  <2>1. new # ROOT_INODE
    BY DEF Tree, Rooted
  <2>2. ASSUME NEW n \in D, NEW t \in LinksOf(T2, B2, n)
        PROVE  /\ At(T2, B2, n, t).inode_num \in ib \ {ROOT_INODE}
               /\ At(T2, B2, n, t).inode_num \in D =>
                    At(T2, B2, At(T2, B2, n, t).inode_num, <<0, 1>>) = Entry(DotDot, n)
    <3>1. CASE t \in LinksOf(T, B, n) /\ At(T2, B2, n, t) = At(T, B, n, t)
      BY <1>3, <2>2, <3>1 DEF Tree, Linked
    <3>2. CASE n = dir /\ t = s
      BY <1>3, <1>4, <2>1, <3>2
    <3> QED BY <1>5, <2>2, <3>1, <3>2
  <2>3. ASSUME NEW c \in ib \ {ROOT_INODE}
        PROVE  \E n \in D : \E t \in LinksOf(T2, B2, n) : At(T2, B2, n, t).inode_num = c
    <3>1. CASE c = new
      <4>1. s \in LinksOf(T2, B2, dir)
        BY <1>3
      <4> QED BY <1>4, <3>1, <4>1
    <3>2. CASE c # new
      <4>1. PICK n \in D : \E t \in LinksOf(T, B, n) : At(T, B, n, t).inode_num = c
        BY <3>2 DEF Tree, Linked
      <4>2. PICK t \in LinksOf(T, B, n) : At(T, B, n, t).inode_num = c
        BY <4>1
      <4>3. t \in LinksOf(T2, B2, n) /\ At(T2, B2, n, t).inode_num = c
        BY <1>3, <4>2
      <4> QED BY <4>3
    <3> QED BY <3>1, <3>2
  <2> QED BY <2>2, <2>3 DEF Linked
<1>10. Unique(ib, T2, B2)
  <2>1. \A n \in D : \A t \in LinksOf(T, B, n) : At(T, B, n, t).inode_num # new
    BY DEF Tree, Linked
  <2>2. \A t \in LinksOf(T, B, dir) : At(T, B, dir, t).name # name
    BY DEF LinksOf
  <2>3. ASSUME NEW m \in D, NEW n \in D,
               NEW t \in LinksOf(T2, B2, m), NEW u \in LinksOf(T2, B2, n)
        PROVE  /\ At(T2, B2, m, t).inode_num = At(T2, B2, n, u).inode_num => m = n /\ t = u
               /\ m = n /\ At(T2, B2, m, t).name = At(T2, B2, n, u).name => t = u
    <3>1. CASE m = dir /\ t = s
      BY <1>4, <1>5, <2>1, <2>2, <2>3, <3>1
    <3>2. CASE n = dir /\ u = s
      BY <1>4, <1>5, <2>1, <2>2, <2>3, <3>2
    <3>3. CASE ~(m = dir /\ t = s) /\ ~(n = dir /\ u = s)
      BY <1>5, <2>3, <3>3 DEF Tree, Unique
    <3> QED BY <3>1, <3>2, <3>3
  <2> QED BY <2>3 DEF Unique
<1>11. Grounded(ib, T2, B2, {})
  <2> SUFFICES ASSUME NEW S \in SUBSET (ib \ {ROOT_INODE}), S # {}
               PROVE  \E n \in D \ S : \E t \in LinksOf(T2, B2, n) :
                        At(T2, B2, n, t).inode_num \in S
    BY DEF Grounded
  <2>1. CASE new \in S /\ dir \notin S
    <3>1. s \in LinksOf(T2, B2, dir) /\ At(T2, B2, dir, s).inode_num \in S
      BY <1>3, <1>4, <2>1
    <3> QED BY <2>1, <3>1
  <2>2. CASE ~(new \in S /\ dir \notin S)
    <3> DEFINE R == S \ {new}
    <3>1. R \in SUBSET (ib \ ({ROOT_INODE} \cup {new})) /\ R # {}
      BY <2>2
    <3>2. PICK n \in D \ (R \cup {new}) : \E t \in LinksOf(T, B, n) :
            At(T, B, n, t).inode_num \in R
      BY <3>1 DEF Tree, Grounded
    <3>3. PICK t \in LinksOf(T, B, n) : At(T, B, n, t).inode_num \in R
      BY <3>2
    <3>4. n \in D \ S /\ t \in LinksOf(T2, B2, n) /\ At(T2, B2, n, t).inode_num \in S
      BY <1>3, <3>2, <3>3
    <3> QED BY <3>4
  <2> QED BY <2>1, <2>2
<1> QED BY <1>7, <1>8, <1>9, <1>10, <1>11 DEF Tree

\* The entry of a file is cleared: the file is in no directory.
LEMMA TreeUnlinked ==
    ASSUME NEW ib \in SUBSET Inodes, NEW T \in InodeTable, NEW B,
           NEW T2, NEW B2, Tree(ib, T, B, {}),
           NEW dir \in Directories(ib, T), NEW s \in LinksOf(T, B, dir),
           At(T, B, dir, s).inode_num \notin Directories(ib, T),
           Directories(ib, T2) = Directories(ib, T),
           \A n \in Directories(ib, T) :
             /\ T2[n].blocks_used = T[n].blocks_used
             /\ T2[n].size = IF n = dir THEN T[n].size - 1 ELSE T[n].size
             /\ Taken(T2, B2, n) = IF n = dir THEN Taken(T, B, n) \ {s} ELSE Taken(T, B, n)
             /\ \A t \in Taken(T2, B2, n) : At(T2, B2, n, t) = At(T, B, n, t)
    PROVE  Tree(ib, T2, B2, {At(T, B, dir, s).inode_num})
<1> DEFINE D == Directories(ib, T)
           child == At(T, B, dir, s).inode_num
<1>1. \A n \in D : Heads \subseteq Taken(T, B, n)
  BY HeadsAreTaken DEF Tree
<1>2. s \notin Heads /\ s \in Taken(T, B, dir)
  BY DEF LinksOf
<1>3. ASSUME NEW n \in D
      PROVE  /\ LinksOf(T2, B2, n) =
                  IF n = dir THEN LinksOf(T, B, n) \ {s} ELSE LinksOf(T, B, n)
             /\ \A t \in LinksOf(T2, B2, n) : At(T2, B2, n, t) = At(T, B, n, t)
             /\ At(T2, B2, n, <<0, 0>>) = At(T, B, n, <<0, 0>>)
             /\ At(T2, B2, n, <<0, 1>>) = At(T, B, n, <<0, 1>>)
  BY <1>1, <1>2, <1>3 DEF LinksOf, Heads
<1>4. \A n \in D : LinksOf(T2, B2, n) \subseteq LinksOf(T, B, n)
  BY <1>3
<1>5. child \in ib \ {ROOT_INODE}
  BY DEF Tree, Linked
<1>6. \A n \in D : \A t \in LinksOf(T2, B2, n) : At(T, B, n, t).inode_num # child
  BY <1>3 DEF Tree, Unique
<1> HIDE DEF child
<1>7. Headed(ib, T2, B2)
  <2>1. ASSUME NEW n \in D
        PROVE  T2[n].size = Cardinality(Taken(T2, B2, n))
    <3>1. IsFiniteSet(Taken(T, B, n)) /\ T[n].size = Cardinality(Taken(T, B, n))
      BY TakenIsFinite DEF Tree, Headed, Directories
    <3> QED BY <1>2, <3>1, FS_RemoveElement
  <2>2. \A n \in D : \A t \in LinksOf(T2, B2, n) : At(T2, B2, n, t).name \in Names
    BY <1>3, <1>4 DEF Tree, Headed
  <2> QED BY <1>3, <2>1, <2>2 DEF Tree, Headed
<1>8. Rooted(ib, T2, B2, {child})
  BY <1>3, <1>5 DEF Tree, Rooted
<1>9. Linked(ib, T2, B2, {child})
  <2>1. ASSUME NEW n \in D, NEW t \in LinksOf(T2, B2, n)
        PROVE  /\ At(T2, B2, n, t).inode_num \in ib \ ({ROOT_INODE} \cup {child})
               /\ At(T2, B2, n, t).inode_num \in D =>
                    At(T2, B2, At(T2, B2, n, t).inode_num, <<0, 1>>) = Entry(DotDot, n)
    BY <1>3, <1>4, <1>6, <2>1 DEF Tree, Linked
  <2>2. ASSUME NEW c \in ib \ ({ROOT_INODE} \cup {child})
        PROVE  \E n \in D : \E t \in LinksOf(T2, B2, n) : At(T2, B2, n, t).inode_num = c
    <3>1. PICK n \in D : \E t \in LinksOf(T, B, n) : At(T, B, n, t).inode_num = c
      BY DEF Tree, Linked
    <3>2. PICK t \in LinksOf(T, B, n) : At(T, B, n, t).inode_num = c
      BY <3>1
    <3>3. ~(n = dir /\ t = s)
      BY <3>2 DEF child
    <3>4. t \in LinksOf(T2, B2, n) /\ At(T2, B2, n, t).inode_num = c
      BY <1>3, <3>2, <3>3
    <3> QED BY <3>4
  <2> QED BY <2>1, <2>2 DEF Linked
<1>10. Unique(ib, T2, B2)
  <2>1. ASSUME NEW m \in D, NEW n \in D,
               NEW t \in LinksOf(T2, B2, m), NEW u \in LinksOf(T2, B2, n)
        PROVE  /\ At(T2, B2, m, t).inode_num = At(T2, B2, n, u).inode_num => m = n /\ t = u
               /\ m = n /\ At(T2, B2, m, t).name = At(T2, B2, n, u).name => t = u
    BY <1>3, <1>4, <2>1 DEF Tree, Unique
  <2> QED BY <2>1 DEF Unique
<1>11. Grounded(ib, T2, B2, {child})
  <2> SUFFICES ASSUME NEW S \in SUBSET (ib \ ({ROOT_INODE} \cup {child})), S # {}
               PROVE  \E n \in D \ (S \cup {child}) : \E t \in LinksOf(T2, B2, n) :
                        At(T2, B2, n, t).inode_num \in S
    BY DEF Grounded
  <2>1. PICK n \in D \ S : \E t \in LinksOf(T, B, n) : At(T, B, n, t).inode_num \in S
    BY DEF Tree, Grounded
  <2>2. PICK t \in LinksOf(T, B, n) : At(T, B, n, t).inode_num \in S
    BY <2>1
  <2>3. ~(n = dir /\ t = s) /\ n # child
    BY <2>2 DEF child
  <2>4. t \in LinksOf(T2, B2, n) /\ At(T2, B2, n, t).inode_num \in S
    BY <1>3, <2>2, <2>3
  <2> QED BY <2>1, <2>3, <2>4
<1>12. Tree(ib, T2, B2, {child})
  BY <1>7, <1>8, <1>9, <1>10, <1>11 DEF Tree
<1> QED BY <1>12 DEF child

\* The directories and their entries are as they were.
Keeps(ib, T, B, T2, B2) ==
    \A n \in Directories(ib, T) :
        /\ T2[n] = T[n]
        /\ Taken(T2, B2, n) = Taken(T, B, n)
        /\ Heads \subseteq Taken(T, B, n)
        /\ \A t \in Taken(T, B, n) : At(T2, B2, n, t) = At(T, B, n, t)

\* Inode n has the entries "." and "..", and no others.
IsEmptyDirectory(T, B, n, parent) ==
    /\ T[n].blocks_used > 0 /\ T[n].size = 2
    /\ Taken(T, B, n) = Heads
    /\ At(T, B, n, <<0, 0>>) = Entry(Dot, n)
    /\ At(T, B, n, <<0, 1>>) = Entry(DotDot, parent)

\* A directory without entries but "." and ".." is allocated.
LEMMA TreeNew ==
    ASSUME NEW ib \in SUBSET Inodes, NEW T, NEW B, NEW T2, NEW B2,
           Tree(ib, T, B, {}), NEW new \in Inodes \ ib, NEW parent \in Inodes,
           Directories(ib \cup {new}, T2) = Directories(ib, T) \cup {new},
           Keeps(ib, T, B, T2, B2), IsEmptyDirectory(T2, B2, new, parent)
    PROVE  Tree(ib \cup {new}, T2, B2, {new})
<1> DEFINE D == Directories(ib, T)
<1>1. ASSUME NEW n \in D
      PROVE  /\ n # new
             /\ LinksOf(T2, B2, n) = LinksOf(T, B, n)
             /\ \A s \in LinksOf(T, B, n) : At(T2, B2, n, s) = At(T, B, n, s)
             /\ At(T2, B2, n, <<0, 0>>) = At(T, B, n, <<0, 0>>)
             /\ At(T2, B2, n, <<0, 1>>) = At(T, B, n, <<0, 1>>)
  BY <1>1 DEF LinksOf, Heads, Directories, Keeps
<1>2. LinksOf(T2, B2, new) = {}
  BY DEF LinksOf, IsEmptyDirectory
<1>3. Headed(ib \cup {new}, T2, B2)
  <2>1. /\ At(T2, B2, new, <<0, 1>>).name = DotDot
        /\ At(T2, B2, new, <<0, 1>>).inode_num \in Inodes
    BY EntryIs DEF IsEmptyDirectory
  <2>2. T2[new].size = Cardinality(Taken(T2, B2, new))
    BY HeadsAreTwo DEF IsEmptyDirectory
  <2> QED BY <1>1, <1>2, <2>1, <2>2 DEF Tree, Headed, Keeps, IsEmptyDirectory
<1>4. ROOT_INODE \in ib /\ ROOT_INODE # new
  BY DEF Tree, Rooted, Directories
<1>5. Rooted(ib \cup {new}, T2, B2, {new})
  BY <1>1, <1>4 DEF Tree, Rooted
<1>6. Linked(ib \cup {new}, T2, B2, {new})
  <2>1. ASSUME NEW n \in D, NEW t \in LinksOf(T, B, n)
        PROVE  /\ At(T2, B2, n, t).inode_num \in ib \ {ROOT_INODE}
               /\ At(T2, B2, n, t).inode_num \in D =>
                    At(T2, B2, At(T2, B2, n, t).inode_num, <<0, 1>>) = Entry(DotDot, n)
    BY <1>1, <2>1 DEF Tree, Linked
  <2>2. ASSUME NEW c \in ib \ {ROOT_INODE}
        PROVE  \E n \in D : \E s \in LinksOf(T2, B2, n) : At(T2, B2, n, s).inode_num = c
    <3>1. PICK n \in D : \E s \in LinksOf(T, B, n) : At(T, B, n, s).inode_num = c
      BY DEF Tree, Linked
    <3> QED BY <1>1, <3>1
  <2>3. new \notin ib
    OBVIOUS
  <2>4. ASSUME NEW n \in D \cup {new}, NEW t \in LinksOf(T2, B2, n)
        PROVE  n \in D /\ t \in LinksOf(T, B, n)
    BY <1>1, <1>2
  <2>5. Directories(ib \cup {new}, T2) = D \cup {new}
    OBVIOUS
  <2>6. \A n \in D \cup {new} : \A t \in LinksOf(T2, B2, n) :
         /\ At(T2, B2, n, t).inode_num \in (ib \cup {new}) \ ({ROOT_INODE} \cup {new})
         /\ At(T2, B2, n, t).inode_num \in D \cup {new} =>
              At(T2, B2, At(T2, B2, n, t).inode_num, <<0, 1>>) = Entry(DotDot, n)
    BY <2>1, <2>3, <2>4
  <2>7. \A c \in (ib \cup {new}) \ ({ROOT_INODE} \cup {new}) :
          \E n \in D \cup {new} : \E s \in LinksOf(T2, B2, n) : At(T2, B2, n, s).inode_num = c
    BY <2>2
  <2> HIDE DEF D
  <2> QED BY <2>5, <2>6, <2>7 DEF Linked
<1>7. Unique(ib \cup {new}, T2, B2)
  BY <1>1, <1>2 DEF Tree, Unique
<1>8. Grounded(ib \cup {new}, T2, B2, {new})
  <2> SUFFICES ASSUME NEW S \in SUBSET ((ib \cup {new}) \ ({ROOT_INODE} \cup {new})), S # {}
               PROVE  \E n \in (D \cup {new}) \ (S \cup {new}) : \E t \in LinksOf(T2, B2, n) :
                        At(T2, B2, n, t).inode_num \in S
    BY DEF Grounded
  <2>1. PICK n \in D \ S : \E t \in LinksOf(T, B, n) : At(T, B, n, t).inode_num \in S
    BY DEF Tree, Grounded
  <2>2. PICK t \in LinksOf(T, B, n) : At(T, B, n, t).inode_num \in S
    BY <2>1
  <2>3. n # new /\ t \in LinksOf(T2, B2, n) /\ At(T2, B2, n, t).inode_num \in S
    BY <1>1, <2>1, <2>2
  <2> QED BY <2>1, <2>3
<1> QED BY <1>3, <1>5, <1>6, <1>7, <1>8 DEF Tree

-----------------------------------------------------------------------------
(* The steps of the operations keep the disk sound.                         *)

\* Places are in allocated blocks.
LEMMA PlacesAreAllocated ==
    ASSUME NEW ib, NEW db, NEW T, NEW B, Typed(ib, db, T, B), Accounted(ib, db, T),
           NEW n \in ib
    PROVE  /\ n \in Inodes /\ T[n] \in Inode
           /\ \A i \in Indices(T[n]) : T[n].direct_blocks[i] \in db /\ T[n].direct_blocks[i] \in Blocks
           /\ \A s \in Places(T[n]) :
                /\ s[1] \in Indices(T[n]) /\ s[2] \in 0..Slots - 1
                /\ s = <<s[1], s[2]>>
                /\ T[n].direct_blocks[s[1]] \in db
                /\ T[n].direct_blocks[s[1]] \in Blocks
                /\ At(T, B, n, s) \in DirectoryEntry
<1>1. /\ n \in Inodes /\ T[n] \in Inode
      /\ \A i \in Indices(T[n]) : T[n].direct_blocks[i] \in db /\ T[n].direct_blocks[i] \in Blocks
  BY DEF Typed, Accounted, InodeTable
<1>2. ASSUME NEW s \in Places(T[n])
      PROVE  /\ s[1] \in Indices(T[n]) /\ s[2] \in 0..Slots - 1
             /\ s = <<s[1], s[2]>>
  BY <1>2 DEF Places
<1>3. ASSUME NEW s \in Places(T[n])
      PROVE  At(T, B, n, s) \in DirectoryEntry
  <2>1. B[T[n].direct_blocks[s[1]]] \in Block
    BY <1>1, <1>2 DEF Typed, Disk
  <2>2. B[T[n].direct_blocks[s[1]]].entries \in [0..Slots - 1 -> DirectoryEntry]
    BY <2>1, BlockFields
  <2> QED BY <1>2, <2>2 DEF At
<1> QED BY <1>1, <1>2, <1>3

\* The blocks that inode n has in table T hold in B2, under T2, what they held.
Holds(T, B, T2, B2, n) ==
    \A i \in Indices(T[n]) : B2[T2[n].direct_blocks[i]] = B[T[n].direct_blocks[i]]

\* A directory whose blocks hold what they held has the entries it had.
LEMMA SameEntries ==
    ASSUME NEW T, NEW B, NEW n, NEW T2, NEW B2, Holds(T, B, T2, B2, n)
    PROVE  \A s \in Places(T[n]) : At(T2, B2, n, s) = At(T, B, n, s)
<1> TAKE s \in Places(T[n])
<1>1. s[1] \in Indices(T[n])
  BY DEF Places
<1>2. B2[T2[n].direct_blocks[s[1]]] = B[T[n].direct_blocks[s[1]]]
  BY <1>1 DEF Holds
<1> QED BY <1>2 DEF At

\* Inode n is as it was, and so is what its blocks hold.
Untouched(T, B, T2, B2, n) == T2[n] = T[n] /\ Holds(T, B, T2, B2, n)

\* Two steps that leave an inode alone.
LEMMA UntouchedTwice ==
    ASSUME NEW T, NEW B, NEW T1, NEW B1, NEW T2, NEW B2, NEW n,
           Untouched(T, B, T1, B1, n), Untouched(T1, B1, T2, B2, n)
    PROVE  Untouched(T, B, T2, B2, n)
  BY DEF Untouched, Holds

\* The entries of a directory, "." and ".." aside.
Listing(T, B, n) == {At(T, B, n, s) : s \in LinksOf(T, B, n)}

\* A directory left alone lists what it did.
LEMMA UntouchedListing ==
    ASSUME NEW T, NEW B, NEW T2, NEW B2, NEW n, Untouched(T, B, T2, B2, n)
    PROVE  Listing(T2, B2, n) = Listing(T, B, n)
<1>1. T2[n] = T[n] /\ \A s \in Places(T[n]) : At(T2, B2, n, s) = At(T, B, n, s)
  BY SameEntries DEF Untouched
<1>2. Taken(T2, B2, n) = Taken(T, B, n)
  BY <1>1 DEF Taken
<1> QED BY <1>1, <1>2 DEF Listing, LinksOf, Taken

\* Of what is allocated only directory dir differs: it has the entries L.
Relists(ib, T, B, T2, B2, dir, L) ==
    /\ \A n \in ib \ {dir} : Untouched(T, B, T2, B2, n)
    /\ T2[dir].type = "DIRECTORY"
    /\ Listing(T2, B2, dir) = L

\* Directories whose inodes and blocks are not touched keep the tree.
LEMMA TreeKept ==
    ASSUME NEW ib, NEW db, NEW T, NEW B, NEW O, NEW ib2, NEW T2, NEW B2, NEW O2,
           Typed(ib, db, T, B), Accounted(ib, db, T), Tree(ib, T, B, O),
           O2 \subseteq ib2, ib2 \ O2 = ib \ O,
           Directories(ib2, T2) = Directories(ib, T),
           \A n \in Directories(ib, T) :
             /\ T2[n] = T[n]
             /\ \A i \in Indices(T[n]) : B2[T[n].direct_blocks[i]] = B[T[n].direct_blocks[i]]
    PROVE  Tree(ib2, T2, B2, O2)
<1>1. ASSUME NEW n \in Directories(ib, T)
      PROVE  /\ T2[n].blocks_used > 0
             /\ T2[n].size = T[n].size
             /\ Taken(T2, B2, n) = Taken(T, B, n)
             /\ Heads \subseteq Taken(T, B, n)
             /\ \A s \in Taken(T, B, n) : At(T2, B2, n, s) = At(T, B, n, s)
  <2>1. n \in ib
    BY DEF Directories
  <2>2. \A s \in Places(T[n]) : At(T2, B2, n, s) = At(T, B, n, s)
    <3>1. Holds(T, B, T2, B2, n)
      BY <1>1 DEF Holds
    <3> QED BY <3>1, SameEntries
  <2>3. Taken(T2, B2, n) = Taken(T, B, n)
    BY <1>1, <2>2 DEF Taken
  <2>4. Heads \subseteq Taken(T, B, n)
    BY <1>1, HeadsAreTaken DEF Typed, Tree
  <2>5. T2[n].blocks_used > 0 /\ T2[n].size = T[n].size
    BY <1>1 DEF Tree, Headed
  <2> QED BY <2>2, <2>3, <2>4, <2>5 DEF Taken
<1> QED BY <1>1, TreeSame

\* What is written to free inodes and blocks does not matter.
LEMMA SoundUnused ==
    ASSUME NEW ib, NEW db, NEW T, NEW B, NEW O, Sound(ib, db, T, B, O),
           NEW T2 \in InodeTable, NEW B2 \in Disk,
           \A n \in ib : T2[n] = T[n],
           \A b \in db : B2[b] = B[b]
    PROVE  Sound(ib, db, T2, B2, O)
<1>1. Typed(ib, db, T2, B2)
  BY DEF Sound, Typed
<1>2. Accounted(ib, db, T2)
  BY AccountedSame DEF Sound
<1>3. Directories(ib, T2) = Directories(ib, T) /\ Directories(ib, T) \subseteq ib
  BY DEF Directories
<1>4. \A n \in Directories(ib, T) :
        /\ T2[n] = T[n]
        /\ \A i \in Indices(T[n]) : B2[T[n].direct_blocks[i]] = B[T[n].direct_blocks[i]]
  BY <1>3, PlacesAreAllocated DEF Sound
<1>5. O \subseteq ib
  BY DEF Sound, Tree, Rooted
<1>6. Tree(ib, T2, B2, O)
  BY <1>3, <1>4, <1>5, TreeKept DEF Sound
<1>7. Covered(ib, T2)
  BY <1>3 DEF Sound, Covered
<1> QED BY <1>1, <1>2, <1>6, <1>7 DEF Sound

\* A new file is allocated.
LEMMA SoundNewFile ==
    ASSUME NEW ib, NEW db, NEW T, NEW B, Sound(ib, db, T, B, {}), NEW new \in Inodes \ ib
    PROVE  Sound(ib \cup {new}, db, With(T, new, NewInode("REGULAR")), B, {new})
<1> DEFINE T2 == With(T, new, NewInode("REGULAR"))
<1>1. /\ NewInode("REGULAR") \in Inode
      /\ NewInode("REGULAR").type = "REGULAR"
      /\ NewInode("REGULAR").size = 0
      /\ NewInode("REGULAR").blocks_used = 0
      /\ Indices(NewInode("REGULAR")) = {}
  BY NewInodeIs
<1>2. /\ T2 \in InodeTable
      /\ T2[new] = NewInode("REGULAR")
      /\ \A n \in ib : T2[n] = T[n]
  BY <1>1, TableWith DEF Sound, Typed
<1> HIDE DEF T2
<1>3. Typed(ib \cup {new}, db, T2, B)
  BY <1>2 DEF Sound, Typed
<1>4. Accounted(ib \cup {new}, db, T2)
  BY <1>1, <1>2, AccountedNew DEF Sound
<1>5. Directories(ib \cup {new}, T2) = Directories(ib, T)
  BY <1>1, <1>2 DEF Directories
<1>6. Tree(ib \cup {new}, T2, B, {new})
  <2>1. \A n \in Directories(ib, T) : T2[n] = T[n]
    BY <1>2 DEF Directories
  <2>2. (ib \cup {new}) \ {new} = ib \ {} /\ {new} \subseteq ib \cup {new}
    OBVIOUS
  <2> QED BY <1>5, <2>1, <2>2, TreeKept DEF Sound
<1>7. Covered(ib \cup {new}, T2)
  BY <1>1, <1>2, <1>5 DEF Sound, Covered
<1>8. Sound(ib \cup {new}, db, T2, B, {new})
  BY <1>3, <1>4, <1>6, <1>7 DEF Sound
<1> QED BY <1>8 DEF T2

\* A file gets one more block.
LEMMA SoundLongerFile ==
    ASSUME NEW ib, NEW db, NEW T, NEW B, NEW O, Sound(ib, db, T, B, O),
           NEW n \in ib \ Directories(ib, T), T[n].blocks_used < DirectBlocks,
           NEW b \in Blocks \ db
    PROVE  Sound(ib, db \cup {b}, With(T, n, Longer(T[n], b)), B, O)
<1> DEFINE T2 == With(T, n, Longer(T[n], b))
<1>1. n \in Inodes /\ T[n] \in Inode
  BY DEF Sound, Typed, InodeTable
<1>2. /\ Longer(T[n], b) \in Inode
      /\ Longer(T[n], b).size = T[n].size
      /\ Longer(T[n], b).type = T[n].type
      /\ Longer(T[n], b).blocks_used = T[n].blocks_used + 1
      /\ Longer(T[n], b).direct_blocks[T[n].blocks_used] = b
      /\ \A i \in Indices(T[n]) : Longer(T[n], b).direct_blocks[i] = T[n].direct_blocks[i]
      /\ Indices(Longer(T[n], b)) = Indices(T[n]) \cup {T[n].blocks_used}
  BY <1>1, LongerIs
<1>3. /\ T2 \in InodeTable
      /\ T2[n] = Longer(T[n], b)
      /\ \A m \in ib \ {n} : T2[m] = T[m]
  BY <1>1, <1>2, TableWith DEF Sound, Typed
<1> HIDE DEF T2
<1>4. Typed(ib, db \cup {b}, T2, B)
  BY <1>3 DEF Sound, Typed
<1>5. Accounted(ib, db \cup {b}, T2)
  <2>1. T[n].blocks_used \notin Indices(T[n])
    BY <1>1, InodeFields DEF Indices
  <2>2. Gains(ib, T, T2, n, T[n].blocks_used, b)
    BY <1>2, <1>3, <2>1 DEF Gains
  <2>3. Accounted(ib \cup {n}, db \cup {b}, T2)
    BY <2>2, AccountedMore DEF Sound
  <2>4. ib \cup {n} = ib
    OBVIOUS
  <2> QED BY <2>3, <2>4
<1>6. Directories(ib, T2) = Directories(ib, T)
  BY <1>2, <1>3 DEF Directories
<1>7. Tree(ib, T2, B, O)
  <2>1. \A m \in Directories(ib, T) : T2[m] = T[m]
    BY <1>3 DEF Directories
  <2>2. O \subseteq ib
    BY DEF Sound, Tree, Rooted
  <2> QED BY <1>6, <2>1, <2>2, TreeKept DEF Sound
<1>8. Covered(ib, T2)
  <2>1. T[n].blocks_used \in Nat /\ T[n].size \in Nat
    BY <1>1, InodeFields
  <2>2. T[n].size <= (T[n].blocks_used + 1) * BlockSize
    <3>1. T[n].size <= T[n].blocks_used * BlockSize
      BY DEF Sound, Covered
    <3>2. (T[n].blocks_used + 1) * BlockSize = T[n].blocks_used * BlockSize + BlockSize
      BY <2>1
    <3>3. T[n].blocks_used * BlockSize \in Nat
      BY <2>1
    <3> QED BY <2>1, <3>1, <3>2, <3>3
  <2> QED BY <1>2, <1>3, <1>6, <2>2 DEF Sound, Covered
<1>9. Sound(ib, db \cup {b}, T2, B, O)
  BY <1>4, <1>5, <1>7, <1>8 DEF Sound
<1> QED BY <1>9 DEF T2

\* A block of a file is written, and the size of the file.
LEMMA SoundFilled ==
    ASSUME NEW ib, NEW db, NEW T, NEW B, NEW O, Sound(ib, db, T, B, O),
           NEW n \in ib \ Directories(ib, T), NEW size \in Nat,
           size <= T[n].blocks_used * BlockSize,
           NEW u \in Indices(T[n]), NEW block \in Block
    PROVE  Sound(ib, db, With(T, n, Resized(T[n], size)),
                 With(B, T[n].direct_blocks[u], block), O)
<1> DEFINE T2 == With(T, n, Resized(T[n], size))
           b == T[n].direct_blocks[u]
           B2 == With(B, b, block)
<1>1. n \in Inodes /\ T[n] \in Inode /\ b \in Blocks
  BY PlacesAreAllocated DEF Sound
<1>2. /\ Resized(T[n], size) \in Inode
      /\ Resized(T[n], size).size = size
      /\ Resized(T[n], size).type = T[n].type
      /\ Resized(T[n], size).blocks_used = T[n].blocks_used
      /\ Resized(T[n], size).direct_blocks = T[n].direct_blocks
  BY <1>1, ResizedIs
<1>3. /\ T2 \in InodeTable
      /\ T2[n] = Resized(T[n], size)
      /\ \A m \in ib \ {n} : T2[m] = T[m]
  BY <1>1, <1>2, TableWith DEF Sound, Typed
<1>4. /\ B2 \in Disk
      /\ \A c \in Blocks \ {b} : B2[c] = B[c]
  <2> HIDE DEF b
  <2> QED BY <1>1, DiskWith DEF Sound, Typed
<1> HIDE DEF T2, B2
<1>5. Typed(ib, db, T2, B2)
  BY <1>3, <1>4 DEF Sound, Typed
<1>6. Accounted(ib, db, T2)
  <2>1. \A m \in ib : Indices(T2[m]) = Indices(T[m]) /\
          \A i \in Indices(T[m]) : T2[m].direct_blocks[i] = T[m].direct_blocks[i]
    BY <1>2, <1>3 DEF Indices
  <2> QED BY <2>1, AccountedSame DEF Sound
<1>7. Directories(ib, T2) = Directories(ib, T)
  BY <1>2, <1>3 DEF Directories
<1>8. Tree(ib, T2, B2, O)
  <2>1. ASSUME NEW m \in Directories(ib, T)
        PROVE  /\ T2[m] = T[m]
               /\ \A i \in Indices(T[m]) : B2[T[m].direct_blocks[i]] = B[T[m].direct_blocks[i]]
    <3>1. m \in ib /\ m # n
      BY DEF Directories
    <3>2. \A i \in Indices(T[m]) : T[m].direct_blocks[i] # b /\ T[m].direct_blocks[i] \in Blocks
      BY <3>1, PlacesAreAllocated DEF Sound, Accounted
    <3> QED BY <1>3, <1>4, <3>1, <3>2
  <2>2. O \subseteq ib
    BY DEF Sound, Tree, Rooted
  <2> QED BY <1>7, <2>1, <2>2, TreeKept DEF Sound
<1>9. Covered(ib, T2)
  BY <1>2, <1>3, <1>7 DEF Sound, Covered
<1>10. Sound(ib, db, T2, B2, O)
  BY <1>5, <1>6, <1>8, <1>9 DEF Sound
<1> QED BY <1>10 DEF T2, B2

\* A directory gets one more block, without entries.
LEMMA SoundLongerDirectory ==
    ASSUME NEW ib, NEW db, NEW T, NEW B, NEW O, Sound(ib, db, T, B, O),
           NEW n \in Directories(ib, T), T[n].blocks_used < DirectBlocks,
           NEW b \in Blocks \ db
    PROVE  Sound(ib, db \cup {b}, With(T, n, Longer(T[n], b)),
                 With(B, b, NewDirectoryBlock(FreeEntry, FreeEntry)), O)
<1> DEFINE T2 == With(T, n, Longer(T[n], b))
           block == NewDirectoryBlock(FreeEntry, FreeEntry)
           B2 == With(B, b, block)
           u == T[n].blocks_used
<1>1. n \in Inodes /\ n \in ib /\ T[n] \in Inode
  BY DEF Sound, Typed, InodeTable, Directories
<1>2. /\ Longer(T[n], b) \in Inode
      /\ Longer(T[n], b).size = T[n].size
      /\ Longer(T[n], b).type = T[n].type
      /\ Longer(T[n], b).blocks_used = u + 1
      /\ Longer(T[n], b).direct_blocks[u] = b
      /\ \A i \in Indices(T[n]) : Longer(T[n], b).direct_blocks[i] = T[n].direct_blocks[i]
      /\ Indices(Longer(T[n], b)) = Indices(T[n]) \cup {u}
  BY <1>1, LongerIs
<1>3. /\ T2 \in InodeTable
      /\ T2[n] = Longer(T[n], b)
      /\ \A m \in ib \ {n} : T2[m] = T[m]
  BY <1>1, <1>2, TableWith DEF Sound, Typed
<1>4. /\ block \in Block
      /\ \A j \in 0..Slots - 1 : block.entries[j] = FreeEntry
  BY NewDirectoryBlockIs, FreeEntryIs
<1> HIDE DEF T2, block
<1>5. /\ B2 \in Disk /\ B2[b] = block
      /\ \A c \in db : B2[c] = B[c]
  BY <1>4, DiskWith DEF Sound, Typed
<1> HIDE DEF B2
<1>6. Typed(ib, db \cup {b}, T2, B2)
  BY <1>3, <1>5 DEF Sound, Typed
<1>7. u \notin Indices(T[n])
  BY <1>1, InodeFields DEF Indices
<1>8. Accounted(ib, db \cup {b}, T2)
  <2>1. Gains(ib, T, T2, n, u, b)
    BY <1>1, <1>2, <1>3, <1>7 DEF Gains
  <2>2. Accounted(ib \cup {n}, db \cup {b}, T2)
    BY <2>1, AccountedMore DEF Sound
  <2>3. ib \cup {n} = ib
    BY <1>1
  <2> QED BY <2>2, <2>3
<1>9. Directories(ib, T2) = Directories(ib, T)
  BY <1>2, <1>3 DEF Directories
<1>10. ASSUME NEW m \in Directories(ib, T)
       PROVE  /\ T2[m].blocks_used > 0
              /\ T2[m].size = T[m].size
              /\ Taken(T2, B2, m) = Taken(T, B, m)
              /\ Heads \subseteq Taken(T, B, m)
              /\ \A s \in Taken(T, B, m) : At(T2, B2, m, s) = At(T, B, m, s)
  <2>1. m \in ib /\ T[m] \in Inode
    BY DEF Directories, Sound, Typed, InodeTable
  <2>2. \A s \in Places(T[m]) : s \in Places(T2[m]) /\ At(T2, B2, m, s) = At(T, B, m, s)
    <3>1. ASSUME NEW s \in Places(T[m])
          PROVE  s \in Places(T2[m]) /\ At(T2, B2, m, s) = At(T, B, m, s)
      <4>1. /\ s[1] \in Indices(T[m]) /\ s[2] \in 0..Slots - 1 /\ s = <<s[1], s[2]>>
            /\ T[m].direct_blocks[s[1]] \in db
        BY <2>1, PlacesAreAllocated DEF Sound
      <4>2. s[1] \in Indices(T2[m]) /\ T2[m].direct_blocks[s[1]] = T[m].direct_blocks[s[1]]
        BY <1>2, <1>3, <2>1, <4>1
      <4>3. s \in Places(T2[m])
        BY <4>1, <4>2 DEF Places
      <4> QED BY <1>5, <4>1, <4>2, <4>3 DEF At
    <3> QED BY <3>1
  <2>3. ASSUME NEW s \in Places(T2[m]) \ Places(T[m])
        PROVE  At(T2, B2, m, s).inode_num = INVALID_INODE
    <3>1. m = n
      BY <1>3, <2>1, <2>3
    <3>2. s[1] \in Indices(T2[m]) /\ s[2] \in 0..Slots - 1 /\ s = <<s[1], s[2]>>
      BY <2>3 DEF Places
    <3>3. s[1] \notin Indices(T[m])
      BY <2>3, <3>2 DEF Places
    <3>4. s[1] = u
      BY <1>2, <1>3, <3>1, <3>2, <3>3
    <3>5. B2[T2[m].direct_blocks[s[1]]] = block
      BY <1>2, <1>3, <1>5, <3>1, <3>4
    <3>6. At(T2, B2, m, s) = FreeEntry
      BY <1>4, <3>2, <3>5 DEF At
    <3> QED BY <3>6, FreeEntryIs
  <2>4. Taken(T2, B2, m) = Taken(T, B, m)
    BY <2>2, <2>3 DEF Taken
  <2>5. Heads \subseteq Taken(T, B, m)
    BY HeadsAreTaken DEF Sound, Typed, Tree
  <2>6. T2[m].blocks_used > 0 /\ T2[m].size = T[m].size
    <3>1. T[m].blocks_used > 0 /\ T[m].blocks_used \in Nat
      BY <2>1, InodeFields DEF Sound, Tree, Headed
    <3> QED BY <1>2, <1>3, <2>1, <3>1
  <2> QED BY <2>2, <2>4, <2>5, <2>6 DEF Taken
<1>11. Tree(ib, T2, B2, O)
  <2>1. O \subseteq ib
    BY DEF Sound, Tree, Rooted
  <2> QED BY <1>9, <1>10, <2>1, TreeSame DEF Sound
<1>12. Covered(ib, T2)
  BY <1>1, <1>3, <1>9 DEF Sound, Covered
<1>13. Sound(ib, db \cup {b}, T2, B2, O)
  BY <1>6, <1>8, <1>11, <1>12 DEF Sound
<1> QED BY <1>13 DEF T2, B2, block

\* A file that is in no directory any more is freed with its blocks.
LEMMA SoundFreed ==
    ASSUME NEW ib, NEW db, NEW T, NEW B, NEW n, Sound(ib, db, T, B, {n}),
           n \notin Directories(ib, T)
    PROVE  Sound(ib \ {n}, db \ Freed(T[n]), T, B, {})
<1>1. n \in ib
  BY DEF Sound, Tree, Rooted
<1>2. Typed(ib \ {n}, db \ Freed(T[n]), T, B)
  BY DEF Sound, Typed
<1>3. Accounted(ib \ {n}, db \ Freed(T[n]), T)
  BY <1>1, AccountedFreed DEF Sound
<1>4. Directories(ib \ {n}, T) = Directories(ib, T)
  BY DEF Directories
<1>5. Tree(ib \ {n}, T, B, {})
  <2>1. {} \subseteq ib \ {n} /\ (ib \ {n}) \ {} = ib \ {n}
    OBVIOUS
  <2> QED BY <1>4, <2>1, TreeKept DEF Sound
<1>6. Covered(ib \ {n}, T)
  BY <1>4 DEF Sound, Covered
<1> QED BY <1>2, <1>3, <1>5, <1>6 DEF Sound

\* A new directory is allocated, with its first block.
LEMMA SoundNewDirectory ==
    ASSUME NEW ib, NEW db, NEW T, NEW B, Sound(ib, db, T, B, {}),
           NEW new \in Inodes \ ib, NEW parent \in Inodes, NEW b \in Blocks \ db
    PROVE  /\ Sound(ib \cup {new}, db \cup {b}, With(T, new, NewDirectoryInode(b)),
                    With(B, b, NewDirectoryBlock(Entry(Dot, new), Entry(DotDot, parent))), {new})
           /\ Listing(With(T, new, NewDirectoryInode(b)),
                      With(B, b, NewDirectoryBlock(Entry(Dot, new), Entry(DotDot, parent))),
                      new) = {}
<1> DEFINE T2 == With(T, new, NewDirectoryInode(b))
           block == NewDirectoryBlock(Entry(Dot, new), Entry(DotDot, parent))
           B2 == With(B, b, block)
<1>1. /\ NewDirectoryInode(b) \in Inode
      /\ NewDirectoryInode(b).type = "DIRECTORY"
      /\ NewDirectoryInode(b).size = 2
      /\ NewDirectoryInode(b).blocks_used = 1
      /\ NewDirectoryInode(b).direct_blocks[0] = b
      /\ Indices(NewDirectoryInode(b)) = {0}
  BY NewDirectoryInodeIs
<1>2. /\ T2 \in InodeTable
      /\ T2[new] = NewDirectoryInode(b)
      /\ \A n \in ib : T2[n] = T[n]
  BY <1>1, TableWith DEF Sound, Typed
<1>3. Entry(Dot, new) \in DirectoryEntry /\ Entry(DotDot, parent) \in DirectoryEntry
  BY EntryType
<1>4. /\ block \in Block
      /\ block.entries[0] = Entry(Dot, new)
      /\ block.entries[1] = Entry(DotDot, parent)
      /\ \A j \in 0..Slots - 1 : j \notin {0, 1} => block.entries[j] = FreeEntry
  BY <1>3, NewDirectoryBlockIs
<1> HIDE DEF T2, block
<1>5. /\ B2 \in Disk /\ B2[b] = block
      /\ \A c \in db : B2[c] = B[c]
  BY <1>4, DiskWith DEF Sound, Typed
<1> HIDE DEF B2
<1>6. Typed(ib \cup {new}, db \cup {b}, T2, B2)
  BY <1>2, <1>5 DEF Sound, Typed
<1>7. Accounted(ib \cup {new}, db \cup {b}, T2)
  <2>1. Gains(ib, T, T2, new, 0, b)
    BY <1>1, <1>2 DEF Gains
  <2> QED BY <2>1, AccountedMore DEF Sound
<1>8. Directories(ib \cup {new}, T2) = Directories(ib, T) \cup {new}
  BY <1>1, <1>2 DEF Directories
<1>9. Keeps(ib, T, B, T2, B2)
  <2> SUFFICES ASSUME NEW n \in Directories(ib, T)
               PROVE  /\ T2[n] = T[n]
                      /\ Taken(T2, B2, n) = Taken(T, B, n)
                      /\ Heads \subseteq Taken(T, B, n)
                      /\ \A t \in Taken(T, B, n) : At(T2, B2, n, t) = At(T, B, n, t)
    BY DEF Keeps
  <2>1. n \in ib
    BY DEF Directories
  <2>2. \A s \in Places(T[n]) : At(T2, B2, n, s) = At(T, B, n, s)
    <3>1. \A i \in Indices(T[n]) : T[n].direct_blocks[i] \in db
      BY <2>1, PlacesAreAllocated DEF Sound
    <3>2. Holds(T, B, T2, B2, n)
      BY <1>2, <1>5, <2>1, <3>1 DEF Holds
    <3> QED BY <3>2, SameEntries
  <2>3. Taken(T2, B2, n) = Taken(T, B, n)
    BY <1>2, <2>1, <2>2 DEF Taken
  <2>4. Heads \subseteq Taken(T, B, n)
    BY HeadsAreTaken DEF Sound, Typed, Tree
  <2> QED BY <1>2, <2>1, <2>2, <2>3, <2>4 DEF Taken
<1>10. /\ At(T2, B2, new, <<0, 0>>) = Entry(Dot, new)
       /\ At(T2, B2, new, <<0, 1>>) = Entry(DotDot, parent)
  BY <1>1, <1>2, <1>4, <1>5 DEF At
<1>11. Taken(T2, B2, new) = Heads
  <2>1. Places(T2[new]) = {0} \X (0..Slots - 1)
    BY <1>1, <1>2 DEF Places
  <2>2. Heads \subseteq Places(T2[new])
    BY <2>1, Numbers DEF Heads
  <2>3. \A s \in Heads : At(T2, B2, new, s).inode_num # INVALID_INODE
    BY <1>10, EntryIs, Numbers DEF Heads
  <2>4. ASSUME NEW s \in Places(T2[new]) \ Heads
        PROVE  At(T2, B2, new, s).inode_num = INVALID_INODE
    <3>1. s[1] = 0 /\ s[2] \in 0..Slots - 1 /\ s = <<s[1], s[2]>>
      BY <2>1
    <3>2. s[2] \notin {0, 1}
      BY <2>4, <3>1 DEF Heads
    <3> QED BY <1>1, <1>2, <1>4, <1>5, <3>1, <3>2, FreeEntryIs DEF At
  <2> QED BY <2>2, <2>3, <2>4 DEF Taken
<1>12. Tree(ib \cup {new}, T2, B2, {new})
  <2>1. IsEmptyDirectory(T2, B2, new, parent)
    BY <1>1, <1>2, <1>10, <1>11 DEF IsEmptyDirectory
  <2>2. ib \in SUBSET Inodes /\ Tree(ib, T, B, {})
    BY DEF Sound, Typed
  <2> QED BY <1>8, <1>9, <2>1, <2>2, TreeNew
<1>13. Covered(ib \cup {new}, T2)
  BY <1>2, <1>8 DEF Sound, Covered
<1>14. Sound(ib \cup {new}, db \cup {b}, T2, B2, {new})
  BY <1>6, <1>7, <1>12, <1>13 DEF Sound
<1>15. Listing(T2, B2, new) = {}
  BY <1>11 DEF Listing, LinksOf
<1> QED BY <1>14, <1>15 DEF T2, B2, block

\* One place of a directory holds the entry, its inode the size; no other place
\* and no other inode differs.
Rewritten(ib, db, T, B, T2, B2, dir, s, entry, size) ==
    /\ Typed(ib, db, T2, B2) /\ Accounted(ib, db, T2) /\ Covered(ib, T2)
    /\ \A n \in ib \ {dir} : Untouched(T, B, T2, B2, n)
    /\ Directories(ib, T2) = Directories(ib, T)
    /\ \A n \in ib :
         /\ T2[n].blocks_used = T[n].blocks_used
         /\ T2[n].size = IF n = dir THEN size ELSE T[n].size
         /\ Places(T2[n]) = Places(T[n])
         /\ \A t \in Places(T[n]) :
              At(T2, B2, n, t) = IF n = dir /\ t = s THEN entry ELSE At(T, B, n, t)

\* One entry of a directory is written: that place changes, and no other.
LEMMA EntryWritten ==
    ASSUME NEW ib, NEW db, NEW T, NEW B, NEW O, Sound(ib, db, T, B, O),
           NEW dir \in Directories(ib, T), NEW s \in Places(T[dir]),
           NEW entry \in DirectoryEntry, NEW size \in Nat,
           NEW T2, T2 = With(T, dir, Resized(T[dir], size)),
           NEW B2, B2 = With(B, T[dir].direct_blocks[s[1]],
                             Holding(B[T[dir].direct_blocks[s[1]]], s[2], entry))
    PROVE  Rewritten(ib, db, T, B, T2, B2, dir, s, entry, size)
<1> DEFINE b == T[dir].direct_blocks[s[1]]
           block == Holding(B[b], s[2], entry)
<1>1. /\ dir \in Inodes /\ dir \in ib /\ T[dir] \in Inode
      /\ s[1] \in Indices(T[dir]) /\ s[2] \in 0..Slots - 1 /\ s = <<s[1], s[2]>>
      /\ b \in Blocks
  BY PlacesAreAllocated DEF Directories, Sound
<1>2. B[b] \in Block
  BY <1>1 DEF Sound, Typed, Disk
<1>3. /\ block \in Block
      /\ \A k \in 0..Slots - 1 : block.entries[k] = IF k = s[2] THEN entry ELSE B[b].entries[k]
  <2> HIDE DEF b
  <2> QED BY <1>1, <1>2, HoldingIs
<1>4. /\ Resized(T[dir], size) \in Inode
      /\ Resized(T[dir], size).size = size
      /\ Resized(T[dir], size).type = T[dir].type
      /\ Resized(T[dir], size).blocks_used = T[dir].blocks_used
      /\ Resized(T[dir], size).direct_blocks = T[dir].direct_blocks
  BY <1>1, ResizedIs
<1>5. /\ T2 \in InodeTable
      /\ T2[dir] = Resized(T[dir], size)
      /\ \A m \in ib \ {dir} : T2[m] = T[m]
  BY <1>1, <1>4, TableWith DEF Sound, Typed
<1>6. /\ B2 \in Disk /\ B2[b] = block
      /\ \A c \in Blocks \ {b} : B2[c] = B[c]
  <2>1. B2 = With(B, b, block)
    OBVIOUS
  <2> HIDE DEF b, block
  <2> QED BY <1>1, <1>3, <2>1, DiskWith DEF Sound, Typed
<1>7. \A n \in ib :
        /\ T2[n].type = T[n].type
        /\ T2[n].blocks_used = T[n].blocks_used
        /\ T2[n].size = IF n = dir THEN size ELSE T[n].size
        /\ T2[n].direct_blocks = T[n].direct_blocks
        /\ Indices(T2[n]) = Indices(T[n])
        /\ Places(T2[n]) = Places(T[n])
  BY <1>4, <1>5 DEF Indices, Places
<1>8. Directories(ib, T2) = Directories(ib, T)
  BY <1>7 DEF Directories
<1>9. Typed(ib, db, T2, B2)
  BY <1>5, <1>6 DEF Sound, Typed
<1>10. Accounted(ib, db, T2)
  BY <1>7, AccountedSame DEF Sound
<1>11. Covered(ib, T2)
  BY <1>1, <1>7, <1>8 DEF Sound, Covered
<1>12. ASSUME NEW n \in ib, NEW t \in Places(T[n])
       PROVE  At(T2, B2, n, t) = IF n = dir /\ t = s THEN entry ELSE At(T, B, n, t)
  <2>1. /\ t[1] \in Indices(T[n]) /\ t[2] \in 0..Slots - 1 /\ t = <<t[1], t[2]>>
        /\ T[n].direct_blocks[t[1]] \in Blocks
    BY PlacesAreAllocated DEF Sound
  <2>2. At(T2, B2, n, t) = B2[T[n].direct_blocks[t[1]]].entries[t[2]]
    BY <1>7 DEF At
  <2>3. CASE T[n].direct_blocks[t[1]] = b
    <3>1. n = dir /\ t[1] = s[1]
      BY <1>1, <2>1, <2>3 DEF Sound, Accounted
    <3>2. t = s <=> t[2] = s[2]
      BY <1>1, <2>1, <3>1
    <3>3. At(T, B, n, t) = B[b].entries[t[2]]
      BY <2>3 DEF At
    <3>4. At(T2, B2, n, t) = block.entries[t[2]]
      BY <1>6, <2>2, <2>3
    <3> HIDE DEF b, block
    <3> QED BY <1>3, <2>1, <3>1, <3>2, <3>3, <3>4
  <2>4. CASE T[n].direct_blocks[t[1]] # b
    <3>1. ~(n = dir /\ t = s)
      BY <2>4
    <3> QED BY <1>6, <2>1, <2>2, <2>4, <3>1 DEF At
  <2> QED BY <2>3, <2>4
<1>13. ASSUME NEW n \in ib \ {dir}
       PROVE  Untouched(T, B, T2, B2, n)
  <2>1. ASSUME NEW i \in Indices(T[n])
        PROVE  B2[T2[n].direct_blocks[i]] = B[T[n].direct_blocks[i]]
    <3>1. T[n].direct_blocks[i] \in Blocks
      BY PlacesAreAllocated DEF Sound
    <3>2. T[n].direct_blocks[i] # b
      BY <1>1 DEF Sound, Accounted
    <3> QED BY <1>6, <1>7, <3>1, <3>2
  <2> QED BY <1>5, <2>1 DEF Untouched, Holds
<1> QED BY <1>7, <1>8, <1>9, <1>10, <1>11, <1>12, <1>13 DEF Rewritten

\* The inode that is in no directory gets a name in one, in a free slot.
LEMMA SoundLinked ==
    ASSUME NEW ib, NEW db, NEW T, NEW B, NEW new, Sound(ib, db, T, B, {new}),
           NEW dir \in Directories(ib, T) \ {new}, NEW s \in Places(T[dir]) \ Taken(T, B, dir),
           NEW name \in Names, \A t \in Taken(T, B, dir) : At(T, B, dir, t).name # name,
           new \in Directories(ib, T) => At(T, B, new, <<0, 1>>) = Entry(DotDot, dir),
           NEW T2, NEW B2,
           Rewritten(ib, db, T, B, T2, B2, dir, s, Entry(name, new), T[dir].size + 1)
    PROVE  /\ Sound(ib, db, T2, B2, {})
           /\ Relists(ib, T, B, T2, B2, dir, Listing(T, B, dir) \cup {Entry(name, new)})
<1>1. ib \in SUBSET Inodes /\ T \in InodeTable /\ Tree(ib, T, B, {new})
  BY DEF Sound, Typed
<1>2. new \in ib /\ new \in Inodes
  BY <1>1 DEF Tree, Rooted
<1>3. Entry(name, new) \in DirectoryEntry /\ Entry(name, new).inode_num # INVALID_INODE
  BY <1>2, EntryType, EntryIs, Numbers
<1>4. T[dir] \in Inode /\ dir \in ib
  BY <1>1 DEF Directories, InodeTable
<1>5. /\ Typed(ib, db, T2, B2) /\ Accounted(ib, db, T2) /\ Covered(ib, T2)
      /\ Directories(ib, T2) = Directories(ib, T)
      /\ \A n \in ib :
           /\ T2[n].blocks_used = T[n].blocks_used
           /\ T2[n].size = IF n = dir THEN T[dir].size + 1 ELSE T[n].size
           /\ Places(T2[n]) = Places(T[n])
           /\ \A t \in Places(T[n]) :
                At(T2, B2, n, t) = IF n = dir /\ t = s THEN Entry(name, new) ELSE At(T, B, n, t)
      /\ \A n \in ib \ {dir} : Untouched(T, B, T2, B2, n)
  BY DEF Rewritten
<1>6. ASSUME NEW n \in Directories(ib, T)
      PROVE  /\ T2[n].blocks_used = T[n].blocks_used
             /\ T2[n].size = IF n = dir THEN T[n].size + 1 ELSE T[n].size
             /\ Taken(T2, B2, n) = IF n = dir THEN Taken(T, B, n) \cup {s} ELSE Taken(T, B, n)
             /\ \A t \in Taken(T, B, n) : At(T2, B2, n, t) = At(T, B, n, t)
  <2>1. n \in ib
    BY DEF Directories
  <2>2. Taken(T2, B2, n) = IF n = dir THEN Taken(T, B, n) \cup {s} ELSE Taken(T, B, n)
    BY <1>3, <1>5, <2>1 DEF Taken
  <2>3. \A t \in Taken(T, B, n) : At(T2, B2, n, t) = At(T, B, n, t)
    BY <1>5, <2>1 DEF Taken
  <2> QED BY <1>5, <2>1, <2>2, <2>3
<1>7. At(T2, B2, dir, s) = Entry(name, new)
  BY <1>4, <1>5
<1>8. s \notin Taken(T, B, dir)
  OBVIOUS
<1>9. Tree(ib, T2, B2, {})
  <2>1. dir \in Directories(ib, T) /\ dir # new
    OBVIOUS
  <2>2. Directories(ib, T2) = Directories(ib, T)
    BY <1>5
  <2> QED BY <1>1, <1>2, <1>6, <1>7, <1>8, <2>1, <2>2, TreeLinked
<1>10. Sound(ib, db, T2, B2, {})
  BY <1>5, <1>9 DEF Sound
<1>11. LinksOf(T2, B2, dir) = LinksOf(T, B, dir) \cup {s} /\ s \notin LinksOf(T, B, dir)
  <2>1. Heads \subseteq Taken(T, B, dir)
    BY <1>1, HeadsAreTaken DEF Tree
  <2> QED BY <1>6, <1>8, <2>1 DEF LinksOf
<1>12. Listing(T2, B2, dir) = Listing(T, B, dir) \cup {Entry(name, new)}
  <2>1. \A t \in LinksOf(T, B, dir) : At(T2, B2, dir, t) = At(T, B, dir, t)
    BY <1>6 DEF LinksOf
  <2> QED BY <1>7, <1>11, <2>1 DEF Listing
<1>13. T2[dir].type = "DIRECTORY"
  BY <1>5 DEF Directories
<1> QED BY <1>5, <1>10, <1>12, <1>13 DEF Relists

\* A directory with an entry has a size to be decreased.
LEMMA SizeIsPositive ==
    ASSUME NEW ib, NEW db, NEW T, NEW B, NEW O, Sound(ib, db, T, B, O),
           NEW dir \in Directories(ib, T), NEW s \in Taken(T, B, dir)
    PROVE  T[dir].size - 1 \in Nat
<1>1. T[dir] \in Inode
  BY DEF Sound, Typed, InodeTable, Directories
<1>2. IsFiniteSet(Taken(T, B, dir)) /\ T[dir].size = Cardinality(Taken(T, B, dir))
  <2>1. Headed(ib, T, B) /\ T \in InodeTable /\ dir \in Inodes
    BY DEF Sound, Typed, Tree, Directories
  <2> QED BY <1>1, <2>1, TakenIsFinite DEF Headed
<1>3. Cardinality(Taken(T, B, dir)) # 0 /\ Cardinality(Taken(T, B, dir)) \in Nat
  BY <1>2, FS_EmptySet, FS_CardinalityType
<1> QED BY <1>2, <1>3

\* A file loses its name in a directory.
LEMMA SoundUnlinked ==
    ASSUME NEW ib, NEW db, NEW T, NEW B, Sound(ib, db, T, B, {}),
           NEW dir \in Directories(ib, T), NEW s \in LinksOf(T, B, dir),
           At(T, B, dir, s).inode_num \notin Directories(ib, T),
           NEW T2, NEW B2,
           Rewritten(ib, db, T, B, T2, B2, dir, s, FreeEntry, T[dir].size - 1)
    PROVE  /\ Sound(ib, db, T2, B2, {At(T, B, dir, s).inode_num})
           /\ Relists(ib, T, B, T2, B2, dir, Listing(T, B, dir) \ {At(T, B, dir, s)})
<1>1. ib \in SUBSET Inodes /\ T \in InodeTable /\ Tree(ib, T, B, {})
  BY DEF Sound, Typed
<1>2. FreeEntry \in DirectoryEntry /\ FreeEntry.inode_num = INVALID_INODE
  BY FreeEntryIs
<1>3. /\ Typed(ib, db, T2, B2) /\ Accounted(ib, db, T2) /\ Covered(ib, T2)
      /\ Directories(ib, T2) = Directories(ib, T)
      /\ \A n \in ib :
           /\ T2[n].blocks_used = T[n].blocks_used
           /\ T2[n].size = IF n = dir THEN T[dir].size - 1 ELSE T[n].size
           /\ Places(T2[n]) = Places(T[n])
           /\ \A t \in Places(T[n]) :
                At(T2, B2, n, t) = IF n = dir /\ t = s THEN FreeEntry ELSE At(T, B, n, t)
      /\ \A n \in ib \ {dir} : Untouched(T, B, T2, B2, n)
  BY DEF Rewritten
<1>4. ASSUME NEW n \in Directories(ib, T)
      PROVE  /\ T2[n].blocks_used = T[n].blocks_used
             /\ T2[n].size = IF n = dir THEN T[n].size - 1 ELSE T[n].size
             /\ Taken(T2, B2, n) = IF n = dir THEN Taken(T, B, n) \ {s} ELSE Taken(T, B, n)
             /\ \A t \in Taken(T2, B2, n) : At(T2, B2, n, t) = At(T, B, n, t)
  <2>1. n \in ib
    BY DEF Directories
  <2>2. Taken(T2, B2, n) = IF n = dir THEN Taken(T, B, n) \ {s} ELSE Taken(T, B, n)
    BY <1>2, <1>3, <2>1 DEF Taken
  <2>3. \A t \in Taken(T2, B2, n) : At(T2, B2, n, t) = At(T, B, n, t)
    BY <1>3, <2>1, <2>2 DEF Taken
  <2> QED BY <1>3, <2>1, <2>2, <2>3
<1>5. Tree(ib, T2, B2, {At(T, B, dir, s).inode_num})
  BY <1>1, <1>3, <1>4, TreeUnlinked
<1>6. Sound(ib, db, T2, B2, {At(T, B, dir, s).inode_num})
  BY <1>3, <1>5 DEF Sound
<1>7. LinksOf(T2, B2, dir) = LinksOf(T, B, dir) \ {s}
  BY <1>4 DEF LinksOf
<1>8. Listing(T2, B2, dir) = Listing(T, B, dir) \ {At(T, B, dir, s)}
  <2>1. \A t \in LinksOf(T, B, dir) \ {s} :
          At(T2, B2, dir, t) = At(T, B, dir, t) /\ At(T, B, dir, t) # At(T, B, dir, s)
    <3> SUFFICES ASSUME NEW t \in LinksOf(T, B, dir) \ {s}
                 PROVE  At(T2, B2, dir, t) = At(T, B, dir, t) /\ At(T, B, dir, t) # At(T, B, dir, s)
      OBVIOUS
    <3>1. Unique(ib, T, B)
      BY <1>1 DEF Tree
    <3>2. At(T, B, dir, t) # At(T, B, dir, s)
      BY <3>1 DEF Unique
    <3>3. t \in Taken(T2, B2, dir)
      BY <1>7 DEF LinksOf
    <3> QED BY <1>4, <3>2, <3>3
  <2> QED BY <1>7, <2>1 DEF Listing
<1>9. T2[dir].type = "DIRECTORY"
  BY <1>3 DEF Directories
<1> QED BY <1>3, <1>6, <1>8, <1>9 DEF Relists

\* The formatted disk.
LEMMA SoundFormatted ==
    ASSUME NEW B \in Disk
    PROVE  Sound({ROOT_INODE}, {0}, FormattedInodes, With(B, 0, RootBlock), {})
<1> DEFINE T2 == FormattedInodes
           B2 == With(B, 0, RootBlock)
           ib == {ROOT_INODE}
<1>1. 0 \in Blocks /\ ROOT_INODE \in Inodes
  BY Numbers
<1>2. /\ NewDirectoryInode(0) \in Inode
      /\ NewDirectoryInode(0).type = "DIRECTORY"
      /\ NewDirectoryInode(0).size = 2
      /\ NewDirectoryInode(0).blocks_used = 1
      /\ NewDirectoryInode(0).direct_blocks[0] = 0
      /\ Indices(NewDirectoryInode(0)) = {0}
  BY <1>1, NewDirectoryInodeIs
<1>3. T2 \in InodeTable /\ T2[ROOT_INODE] = NewDirectoryInode(0)
  <2>1. T2 = [n \in Inodes |-> IF n # ROOT_INODE THEN NewInode("NONE") ELSE NewDirectoryInode(0)]
    BY DEF FormattedInodes, NewDirectoryInode
  <2>2. NewInode("NONE") \in Inode
    BY NewInodeIs
  <2> QED BY <1>1, <1>2, <2>1, <2>2 DEF InodeTable
<1>4. /\ RootBlock \in Block
      /\ RootBlock.entries[0] = Entry(Dot, ROOT_INODE)
      /\ RootBlock.entries[1] = Entry(DotDot, ROOT_INODE)
      /\ \A j \in 0..Slots - 1 : j \notin {0, 1} => RootBlock.entries[j] = FreeEntry
  BY <1>1, EntryType, NewDirectoryBlockIs DEF RootBlock
<1>5. B2 \in Disk /\ B2[0] = RootBlock
  BY <1>1, <1>4, DiskWith
<1> HIDE DEF T2, B2
<1>6. Typed(ib, {0}, T2, B2)
  BY <1>1, <1>3, <1>5 DEF Typed
<1>7. Accounted(ib, {0}, T2)
  BY <1>2, <1>3 DEF Accounted
<1>8. Directories(ib, T2) = {ROOT_INODE}
  BY <1>2, <1>3 DEF Directories
<1>9. /\ At(T2, B2, ROOT_INODE, <<0, 0>>) = Entry(Dot, ROOT_INODE)
      /\ At(T2, B2, ROOT_INODE, <<0, 1>>) = Entry(DotDot, ROOT_INODE)
  BY <1>2, <1>3, <1>4, <1>5 DEF At
<1>10. Taken(T2, B2, ROOT_INODE) = Heads
  <2>1. Places(T2[ROOT_INODE]) = {0} \X (0..Slots - 1)
    BY <1>2, <1>3 DEF Places
  <2>2. Heads \subseteq Places(T2[ROOT_INODE])
    BY <2>1, Numbers DEF Heads
  <2>3. \A s \in Heads : At(T2, B2, ROOT_INODE, s).inode_num # INVALID_INODE
    BY <1>1, <1>9, EntryIs, Numbers DEF Heads
  <2>4. ASSUME NEW s \in Places(T2[ROOT_INODE]) \ Heads
        PROVE  At(T2, B2, ROOT_INODE, s).inode_num = INVALID_INODE
    <3>1. s[1] = 0 /\ s[2] \in 0..Slots - 1 /\ s = <<s[1], s[2]>>
      BY <2>1
    <3>2. s[2] \notin {0, 1}
      BY <2>4, <3>1 DEF Heads
    <3> QED BY <1>2, <1>3, <1>4, <1>5, <3>1, <3>2, FreeEntryIs DEF At
  <2> QED BY <2>2, <2>3, <2>4 DEF Taken
<1>11. LinksOf(T2, B2, ROOT_INODE) = {}
  BY <1>10 DEF LinksOf
<1>12. Headed(ib, T2, B2)
  BY <1>1, <1>2, <1>3, <1>8, <1>9, <1>10, <1>11, HeadsAreTwo, EntryIs DEF Headed
<1>13. Rooted(ib, T2, B2, {})
  BY <1>8, <1>9 DEF Rooted
<1>14. Linked(ib, T2, B2, {}) /\ Unique(ib, T2, B2)
  BY <1>8, <1>11 DEF Linked, Unique
<1>15. Covered(ib, T2)
  BY <1>8 DEF Covered
<1>16. Grounded(ib, T2, B2, {})
  BY DEF Grounded
<1>17. Sound(ib, {0}, T2, B2, {})
  BY <1>6, <1>7, <1>12, <1>13, <1>14, <1>15, <1>16 DEF Sound, Tree
<1> QED BY <1>17 DEF T2, B2

-----------------------------------------------------------------------------
(* Positions and searches in directories.                                   *)

PlaceOf(k) == <<k \div Slots, k % Slots>>

\* Quotient and remainder of a position.
LEMMA Division ==
    ASSUME NEW k \in Nat, NEW S \in Nat, S > 0
    PROVE  /\ k \div S \in Nat /\ k % S \in 0..S - 1
           /\ \A u \in Nat : k \in 0..u * S - 1 => k \div S \in 0..u - 1
           /\ \A q \in Nat, r \in 0..S - 1 : k = q * S + r => q = k \div S /\ r = k % S
           /\ k = (k \div S) * S + (k % S)
<1>1. k \div S \in Nat /\ k % S \in 0..S - 1
  OBVIOUS
<1>2. ASSUME NEW u \in Nat, k \in 0..u * S - 1
      PROVE  k \div S \in 0..u - 1
  BY <1>2
<1>3. ASSUME NEW q \in Nat, NEW r \in 0..S - 1, k = q * S + r
      PROVE  q = k \div S /\ r = k % S
  <2>1. q = k \div S
    BY <1>3
  <2>2. r = k % S
    BY <1>3
  <2> QED BY <2>1, <2>2
<1>4. ASSUME NEW q, q = k \div S, NEW r, r = k % S
      PROVE  k = q * S + r
  BY <1>4
<1> QED BY <1>1, <1>2, <1>3, <1>4

\* The position with a number is a place, and every place has one number.
LEMMA PositionsArePlaces ==
    ASSUME NEW dir, inodes[dir] \in Inode
    PROVE  /\ Positions(dir) \subseteq 0..(inodes[dir].blocks_used * Slots)
           /\ inodes[dir].blocks_used * Slots \in Nat
           /\ \A k \in Positions(dir) :
                /\ PlaceOf(k) \in Places(inodes[dir])
                /\ EntryAt(dir, k) = At(inodes, blocks, dir, PlaceOf(k))
           /\ \A s \in Places(inodes[dir]) : \E k \in Positions(dir) : PlaceOf(k) = s
           /\ \A k, l \in Positions(dir) : PlaceOf(k) = PlaceOf(l) => k = l
<1> DEFINE u == inodes[dir].blocks_used
<1>1. u \in Nat /\ Slots \in Nat /\ Slots > 0
  BY InodeFields
<1>2. u * Slots \in Nat
  BY <1>1
<1>3. Positions(dir) = 0..u * Slots - 1
  BY DEF Positions
<1>4. Places(inodes[dir]) = (0..u - 1) \X (0..Slots - 1)
  BY DEF Places, Indices
<1> HIDE DEF u
<1>5. Positions(dir) \subseteq 0..(u * Slots) /\ Positions(dir) \subseteq Nat
  BY <1>2, <1>3
<1>6. ASSUME NEW k \in Positions(dir)
      PROVE  /\ PlaceOf(k) \in Places(inodes[dir])
             /\ EntryAt(dir, k) = At(inodes, blocks, dir, PlaceOf(k))
  <2>1. k \div Slots \in 0..u - 1 /\ k % Slots \in 0..Slots - 1
    BY <1>1, <1>3, <1>5, Division
  <2> QED BY <1>4, <2>1 DEF PlaceOf, EntryAt, At
<1>7. ASSUME NEW s \in Places(inodes[dir])
      PROVE  \E k \in Positions(dir) : PlaceOf(k) = s
  <2>1. PICK q \in 0..u - 1, r \in 0..Slots - 1 : s = <<q, r>>
    BY <1>4
  <2>2. q * Slots + r \in 0..u * Slots - 1
    BY <1>1
  <2> DEFINE k == q * Slots + r
  <2>3. k \in Nat /\ k \in Positions(dir)
    BY <1>1, <1>3, <2>2
  <2>4. q \in Nat
    BY <1>1
  <2>5. k = q * Slots + r
    OBVIOUS
  <2> HIDE DEF k
  <2>6. q = k \div Slots /\ r = k % Slots
    BY <1>1, <2>3, <2>4, <2>5, Division
  <2> QED BY <2>1, <2>3, <2>6 DEF PlaceOf
<1>8. ASSUME NEW k \in Positions(dir), NEW l \in Positions(dir), PlaceOf(k) = PlaceOf(l)
      PROVE  k = l
  <2>1. k \in Nat /\ l \in Nat
    BY <1>5
  <2>2. k \div Slots = l \div Slots /\ k % Slots = l % Slots
    BY <1>8 DEF PlaceOf
  <2>3. k = (k \div Slots) * Slots + (k % Slots) /\ l = (l \div Slots) * Slots + (l % Slots)
    BY <1>1, <2>1, Division
  <2> QED BY <2>2, <2>3
<1> QED BY <1>2, <1>5, <1>6, <1>7, <1>8 DEF u

\* The positions in use are the places that are taken.
LEMMA UsedIsTaken ==
    ASSUME NEW dir, inodes[dir] \in Inode
    PROVE  /\ \A k \in Positions(dir) :
                k \in Used(dir) <=> PlaceOf(k) \in Taken(inodes, blocks, dir)
           /\ Used(dir) \subseteq Positions(dir)
  BY PositionsArePlaces DEF Used, Taken

\* Lookups need the state to be sound for some allocated inodes and blocks, but
\* for the sizes of directories.
Shape(ib, db) == Shaped(ib, db, inodes, blocks)

\* An allocated inode is in the table.
LEMMA InodeIsThere ==
    ASSUME NEW ib, NEW db, Shape(ib, db), NEW dir \in ib
    PROVE  dir \in Inodes /\ inodes[dir] \in Inode
  BY DEF Shape, Shaped, Typed, InodeTable

\* A name that is found in a directory is that of a link.
LEMMA NamedIsLinkIn ==
    ASSUME NEW ib, NEW db, Shape(ib, db), NEW dir \in Directories(ib, inodes), NEW name \in Names,
           NEW k \in Named(dir, name)
    PROVE  /\ k \in Positions(dir)
           /\ PlaceOf(k) \in LinksOf(inodes, blocks, dir)
           /\ EntryAt(dir, k) = At(inodes, blocks, dir, PlaceOf(k))
           /\ EntryAt(dir, k).inode_num \in ib
<1>1. dir \in ib /\ inodes[dir] \in Inode
  BY InodeIsThere DEF Directories
<1>2. k \in Used(dir) /\ EntryAt(dir, k).name = name
  BY DEF Named, Firsts
<1>3. /\ k \in Positions(dir)
      /\ PlaceOf(k) \in Taken(inodes, blocks, dir)
      /\ EntryAt(dir, k) = At(inodes, blocks, dir, PlaceOf(k))
  BY <1>1, <1>2, UsedIsTaken, PositionsArePlaces
<1>4. PlaceOf(k) \notin Heads
  <2>1. /\ At(inodes, blocks, dir, <<0, 0>>).name = Dot
        /\ At(inodes, blocks, dir, <<0, 1>>).name = DotDot
    BY EntryIs DEF Shape, Shaped, Begun
  <2> QED BY <1>2, <1>3, <2>1, Numbers DEF Heads
<1>5. PlaceOf(k) \in LinksOf(inodes, blocks, dir)
  BY <1>3, <1>4 DEF LinksOf
<1>6. EntryAt(dir, k).inode_num \in ib
  BY <1>3, <1>5 DEF Shape, Shaped, Linked
<1> QED BY <1>3, <1>5, <1>6

\* A name leads to an allocated inode, if anywhere.
LEMMA LookupInIsIn ==
    ASSUME NEW ib, NEW db, Shape(ib, db), NEW dir \in ib, NEW name \in Names
    PROVE  LookupIn(dir, name) \subseteq ib
<1>1. CASE inodes[dir].type = "DIRECTORY"
  <2>1. dir \in Directories(ib, inodes)
    BY <1>1 DEF Directories
  <2>2. LookupIn(dir, name) = {EntryAt(dir, k).inode_num : k \in Named(dir, name)}
    BY <1>1 DEF LookupIn
  <2> QED BY <2>1, <2>2, NamedIsLinkIn
<1>2. CASE inodes[dir].type # "DIRECTORY"
  BY <1>2 DEF LookupIn
<1> QED BY <1>1, <1>2

\* A name that a directory does not find is not in it.
LEMMA NotFoundIsNotIn ==
    ASSUME NEW ib, NEW db, Shape(ib, db), NEW dir \in Directories(ib, inodes), NEW name,
           LookupIn(dir, name) = {}
    PROVE  \A s \in Taken(inodes, blocks, dir) : At(inodes, blocks, dir, s).name # name
<1>1. dir \in ib /\ inodes[dir] \in Inode /\ inodes[dir].type = "DIRECTORY"
  BY InodeIsThere DEF Directories
<1>2. Named(dir, name) = {}
  BY <1>1 DEF LookupIn
<1> DEFINE A == {k \in Used(dir) : EntryAt(dir, k).name = name}
           n == inodes[dir].blocks_used * Slots
<1>3. n \in Nat /\ A \in SUBSET (0..n)
  BY <1>1, PositionsArePlaces, UsedIsTaken
<1>4. Firsts(A) = {}
  BY <1>2 DEF Named
<1>5. A = {}
  <2> HIDE DEF A, n
  <2> QED BY <1>3, <1>4, FirstExists
<1> SUFFICES ASSUME NEW s \in Taken(inodes, blocks, dir),
                    At(inodes, blocks, dir, s).name = name
             PROVE  FALSE
  OBVIOUS
<1>6. PICK k \in Positions(dir) : PlaceOf(k) = s
  BY <1>1, PositionsArePlaces DEF Taken
<1>7. k \in Used(dir) /\ EntryAt(dir, k).name = name
  BY <1>1, <1>6, PositionsArePlaces, UsedIsTaken
<1> QED BY <1>5, <1>7

\* "." and ".." are each in one position of a directory.
LEMMA HeadIsFoundIn ==
    ASSUME NEW ib, NEW db, Shape(ib, db), NEW dir \in Directories(ib, inodes),
           NEW s \in Heads, NEW name \in {Dot, DotDot},
           At(inodes, blocks, dir, s).name = name
    PROVE  LookupIn(dir, name) = {At(inodes, blocks, dir, s).inode_num}
<1>1. /\ dir \in ib /\ dir \in Inodes /\ inodes[dir] \in Inode
      /\ inodes[dir].type = "DIRECTORY"
  BY InodeIsThere DEF Directories
<1>2. Begun(ib, inodes, blocks) /\ ib \in SUBSET Inodes
      /\ inodes \in InodeTable
  BY DEF Shape, Shaped, Typed
<1>3. s \in Taken(inodes, blocks, dir)
  BY <1>2, HeadsAreTaken
<1>4. ASSUME NEW t \in Taken(inodes, blocks, dir), At(inodes, blocks, dir, t).name = name
      PROVE  t = s
  <2>1. /\ At(inodes, blocks, dir, <<0, 0>>).name = Dot
        /\ At(inodes, blocks, dir, <<0, 1>>).name = DotDot
        /\ \A u \in LinksOf(inodes, blocks, dir) : At(inodes, blocks, dir, u).name \in Names
    BY <1>2, EntryIs DEF Begun
  <2>2. t \in Heads
    BY <1>4, <2>1, Numbers DEF LinksOf
  <2> QED BY <1>4, <2>1, <2>2, Numbers DEF Heads
<1>5. PICK k \in Positions(dir) : PlaceOf(k) = s
  BY <1>1, <1>3, PositionsArePlaces DEF Taken
<1>6. k \in Used(dir) /\ EntryAt(dir, k) = At(inodes, blocks, dir, s) /\ k \in Nat
  BY <1>1, <1>3, <1>5, PositionsArePlaces, UsedIsTaken
<1>7. ASSUME NEW l \in Used(dir), EntryAt(dir, l).name = name
      PROVE  l = k
  <2>1. /\ l \in Positions(dir) /\ PlaceOf(l) \in Taken(inodes, blocks, dir)
        /\ EntryAt(dir, l) = At(inodes, blocks, dir, PlaceOf(l))
    BY <1>1, UsedIsTaken, PositionsArePlaces
  <2>2. PlaceOf(l) = s
    BY <1>4, <1>7, <2>1
  <2> QED BY <1>1, <1>5, <2>1, <2>2, PositionsArePlaces
<1>8. {l \in Used(dir) : EntryAt(dir, l).name = name} = {k}
  BY <1>6, <1>7
<1>9. Firsts({k}) = {k}
  BY <1>6 DEF Firsts
<1>10. Named(dir, name) = {k}
  BY <1>8, <1>9 DEF Named
<1> QED BY <1>1, <1>6, <1>10 DEF LookupIn

\* A step of a walk, from the inodes in D.
Step(D, name) == UNION {LookupIn(dir, name) : dir \in D}

IsWalk(w, D, path) ==
    w = [n \in 0..Len(path) |-> IF n = 0 THEN D ELSE Step(w[n - 1], path[n])]
Walk(D, path) == CHOOSE w : IsWalk(w, D, path)

\* A walk along a path goes step by step, and stays in what steps do not leave.
LEMMA WalkIs ==
    ASSUME NEW V, NEW N, NEW D \in V, NEW path \in Seq(N),
           \A E \in V : \A name \in N : Step(E, name) \in V
    PROVE  /\ Walk(D, path)[0] = D
           /\ \A i \in 1..Len(path) : Walk(D, path)[i] = Step(Walk(D, path)[i - 1], path[i])
           /\ \A i \in 0..Len(path) : Walk(D, path)[i] \in V
<1> DEFINE n == Len(path)
           step == [i \in 1..n |-> [E \in V |-> Step(E, path[i])]]
           w == Walk(D, path)
<1>1. n \in Nat /\ \A i \in 1..n : path[i] \in N
  OBVIOUS
<1>2. step \in [1..n -> [V -> V]]
  BY <1>1
<1>3. \E g : IsWalk(g, D, path)
  <2>1. \A i \in 1..n : \A E \in V : step[i][E] = Step(E, path[i])
    OBVIOUS
  <2> HIDE DEF n, step
  <2>2. PICK f \in [0..n -> V] : Iterates(f, n, D, step)
    BY <1>1, <1>2, IterationExists
  <2>3. ASSUME NEW i \in 0..n
        PROVE  f[i] = IF i = 0 THEN D ELSE Step(f[i - 1], path[i])
    <3>1. CASE i = 0
      BY <2>2, <3>1 DEF Iterates
    <3>2. CASE i # 0
      <4>1. i \in 1..n /\ i - 1 \in 0..n
        BY <1>1, <3>2
      <4>2. f[i - 1] \in V
        BY <4>1
      <4> QED BY <2>1, <2>2, <3>2, <4>1, <4>2 DEF Iterates
    <3> QED BY <3>1, <3>2
  <2>4. f = [i \in 0..n |-> IF i = 0 THEN D ELSE Step(f[i - 1], path[i])]
    BY <2>3
  <2>5. IsWalk(f, D, path)
    BY <2>4 DEF IsWalk, n
  <2> QED BY <2>5
<1>4. IsWalk(w, D, path)
  <2>1. w = CHOOSE g : IsWalk(g, D, path)
    BY DEF Walk
  <2> HIDE DEF w
  <2> QED BY <1>3, <2>1, Zenon
<1> HIDE DEF w, step
<1>5. w = [i \in 0..n |-> IF i = 0 THEN D ELSE Step(w[i - 1], path[i])]
  BY <1>4 DEF IsWalk
<1> HIDE DEF n
<1>6. /\ w[0] = D
      /\ \A i \in 1..n : w[i] = Step(w[i - 1], path[i])
  <2>1. 0 \in 0..n /\ \A i \in 1..n : i \in 0..n /\ i # 0
    BY <1>1
  <2>2. \A i \in 0..n : w[i] = IF i = 0 THEN D ELSE Step(w[i - 1], path[i])
    BY <1>5, Zenon
  <2> QED BY <2>1, <2>2
<1> DEFINE S == {i \in 0..n : w[i] \in V}
<1>7. 0 \in S
  <2>1. w[0] \in V
    BY <1>6, Zenon
  <2> QED BY <1>1, <2>1
<1>8. ASSUME NEW i \in 0..n - 1, i \in S
      PROVE  i + 1 \in S
  <2>1. i + 1 \in 1..n /\ i + 1 \in 0..n /\ (i + 1) - 1 = i
    BY <1>1
  <2>2. w[i + 1] = Step(w[i], path[i + 1])
    BY <1>6, <2>1
  <2> QED BY <1>1, <1>8, <2>1, <2>2
<1>9. 0..n \subseteq S
  <2> HIDE DEF S
  <2> QED BY <1>1, <1>7, <1>8, InductionUpTo
<1> QED BY <1>6, <1>9 DEF w, n

\* The sets that a walk goes through.
AtMostOneOf(ib) == {D \in SUBSET ib : \A x, y \in D : x = y}

\* A path leads to one allocated inode, if anywhere, and each of its steps does.
LEMMA LookupIsIn ==
    ASSUME NEW ib, NEW db, Shape(ib, db), NEW path \in Seq(Names)
    PROVE  /\ Lookup(path) \in AtMostOneOf(ib) /\ Lookup(path) \subseteq ib
           /\ Lookup(path) = Walk({ROOT_INODE}, path)[Len(path)]
           /\ Walk({ROOT_INODE}, path)[0] = {ROOT_INODE}
           /\ \A i \in 1..Len(path) :
                Walk({ROOT_INODE}, path)[i] = Step(Walk({ROOT_INODE}, path)[i - 1], path[i])
<1>1. {ROOT_INODE} \in AtMostOneOf(ib)
  BY DEF Shape, Shaped, Rooted, Directories, AtMostOneOf
<1>2. ASSUME NEW D \in AtMostOneOf(ib), NEW name \in Names
      PROVE  Step(D, name) \in AtMostOneOf(ib)
  <2>1. ASSUME NEW dir \in D, NEW x \in LookupIn(dir, name), NEW y \in LookupIn(dir, name)
        PROVE  x = y
    <3>1. dir \in ib /\ inodes[dir] \in Inode
      BY InodeIsThere DEF AtMostOneOf
    <3>2. Used(dir) \subseteq Int
      BY <3>1, UsedIsTaken, PositionsArePlaces
    <3>3. \A k, l \in Named(dir, name) : k = l
      BY <3>2, FirstIsUnique DEF Named
    <3> QED BY <3>3 DEF LookupIn
  <2>2. \A dir \in D : LookupIn(dir, name) \subseteq ib
    BY LookupInIsIn DEF AtMostOneOf
  <2> QED BY <2>1, <2>2 DEF Step, AtMostOneOf
<1>3. Lookup(path) = Walk({ROOT_INODE}, path)[Len(path)]
  BY DEF Lookup, Walk, IsWalk, Step
<1>4. /\ Walk({ROOT_INODE}, path)[0] = {ROOT_INODE}
      /\ \A i \in 1..Len(path) :
           Walk({ROOT_INODE}, path)[i] = Step(Walk({ROOT_INODE}, path)[i - 1], path[i])
      /\ \A i \in 0..Len(path) : Walk({ROOT_INODE}, path)[i] \in AtMostOneOf(ib)
  BY <1>1, <1>2, WalkIs
<1>5. Lookup(path) \in AtMostOneOf(ib)
  <2>1. Len(path) \in 0..Len(path)
    OBVIOUS
  <2> QED BY <1>3, <1>4, <2>1
<1> QED BY <1>3, <1>4, <1>5 DEF AtMostOneOf

-----------------------------------------------------------------------------
(* The same between operations, when the bitmaps in memory are right.       *)

SoundNow == Sound(inode_bitmap, data_bitmap, inodes, blocks, {})

AtMostOne == {D \in SUBSET inode_bitmap : \A x, y \in D : x = y}

\* A sound state has the shape.
LEMMA NowIsShaped == SoundNow => Shape(inode_bitmap, data_bitmap)
  BY SoundIsShaped DEF SoundNow, Shape

\* An allocated inode is in the table.
LEMMA DirectoryFacts ==
    ASSUME SoundNow, NEW dir \in inode_bitmap
    PROVE  dir \in Inodes /\ inodes[dir] \in Inode
  BY NowIsShaped, InodeIsThere

\* A name that is found in a directory is that of a link.
LEMMA NamedIsLink ==
    ASSUME SoundNow, NEW dir \in Directories(inode_bitmap, inodes), NEW name \in Names,
           NEW k \in Named(dir, name)
    PROVE  /\ k \in Positions(dir)
           /\ PlaceOf(k) \in LinksOf(inodes, blocks, dir)
           /\ EntryAt(dir, k) = At(inodes, blocks, dir, PlaceOf(k))
           /\ EntryAt(dir, k).inode_num \in inode_bitmap
  BY NowIsShaped, NamedIsLinkIn

\* A name leads to an allocated inode, if anywhere.
LEMMA LookupInIsAllocated ==
    ASSUME SoundNow, NEW dir \in inode_bitmap, NEW name \in Names
    PROVE  LookupIn(dir, name) \subseteq inode_bitmap
  BY NowIsShaped, LookupInIsIn

\* A name that a directory does not find is not in it.
LEMMA NotFoundIsNotTaken ==
    ASSUME SoundNow, NEW dir \in Directories(inode_bitmap, inodes), NEW name,
           LookupIn(dir, name) = {}
    PROVE  \A s \in Taken(inodes, blocks, dir) : At(inodes, blocks, dir, s).name # name
  BY NowIsShaped, NotFoundIsNotIn

\* "." and ".." are each in one position of a directory.
LEMMA HeadIsFound ==
    ASSUME SoundNow, NEW dir \in Directories(inode_bitmap, inodes),
           NEW s \in Heads, NEW name \in {Dot, DotDot},
           At(inodes, blocks, dir, s).name = name
    PROVE  LookupIn(dir, name) = {At(inodes, blocks, dir, s).inode_num}
  BY NowIsShaped, HeadIsFoundIn

\* A path leads to one allocated inode, if anywhere, and each of its steps does.
LEMMA LookupIsAllocated ==
    ASSUME SoundNow, NEW path \in Seq(Names)
    PROVE  /\ Lookup(path) \in AtMostOne /\ Lookup(path) \subseteq inode_bitmap
           /\ Lookup(path) = Walk({ROOT_INODE}, path)[Len(path)]
           /\ Walk({ROOT_INODE}, path)[0] = {ROOT_INODE}
           /\ \A i \in 1..Len(path) :
                Walk({ROOT_INODE}, path)[i] = Step(Walk({ROOT_INODE}, path)[i - 1], path[i])
  BY NowIsShaped, LookupIsIn DEF AtMostOne, AtMostOneOf

\* The paths in use, and the paths to their parents.
LEMMA PathsAre ==
    ASSUME NEW path \in Paths
    PROVE  /\ path \in Seq(Names)
           /\ path # <<>> => Name(path) \in Names /\ Parent(path) \in Seq(Names)
<1>1. PICK n \in 0..MaxDepth : path \in [1..n -> Names]
  BY DEF Paths
<1>2. n \in Nat /\ path \in Seq(Names) /\ Len(path) = n
  BY <1>1
<1>3. ASSUME path # <<>>
      PROVE  Name(path) \in Names /\ Parent(path) \in Seq(Names)
  <2>1. n >= 1
    BY <1>2, <1>3
  <2>2. Name(path) \in Names
    BY <1>2, <2>1 DEF Name
  <2>3. Parent(path) \in Seq(Names)
    <3>1. SubSeq(path, 1, n - 1) \in Seq(Names)
      BY <1>2, <2>1
    <3> QED BY <1>2, <3>1 DEF Parent
  <2> QED BY <2>2, <2>3
<1> QED BY <1>2, <1>3

\* A free bit is in range, and clear.
LEMMA FreeBitIs ==
    ASSUME NEW bitmap, NEW max, NEW n \in FreeBit(bitmap, max)
    PROVE  n \in 0..max - 1 /\ n \notin bitmap
  BY DEF FreeBit, Firsts

-----------------------------------------------------------------------------
(* The operations.                                                          *)

\* add_directory_entry() makes a sound disk of one that lacks only the entry.
LEMMA AddedIsSound ==
    ASSUME SoundNow, NEW ib, NEW used, NEW T, NEW B, NEW new, Sound(ib, used, T, B, {new}),
           NEW dir \in Directories(inode_bitmap, inodes) \ {new}, dir \in ib,
           T[dir] = inodes[dir], \A b \in data_bitmap : B[b] = blocks[b],
           NEW name \in Names, LookupIn(dir, name) = {},
           new \in Directories(ib, T) => At(T, B, new, <<0, 1>>) = Entry(DotDot, dir),
           NEW a \in Added(dir, Entry(name, new), used, T, B)
    PROVE  /\ Sound(ib, used \cup a.taken, a.inodes, a.blocks, {})
           /\ Relists(ib, T, B, a.inodes, a.blocks, dir,
                      Listing(T, B, dir) \cup {Entry(name, new)})
<1> DEFINE free == Positions(dir) \ Used(dir)
           n == T[dir].blocks_used
<1>1. dir \in inode_bitmap /\ dir \in Inodes /\ inodes[dir] \in Inode
  BY DirectoryFacts DEF Directories
<1>2. dir \in Directories(ib, T)
  BY DEF Directories
<1>3. /\ T \in InodeTable /\ B \in Disk
      /\ new \in Inodes
  BY DEF Sound, Typed, Tree, Rooted
<1>4. \A s \in Places(inodes[dir]) : At(T, B, dir, s) = At(inodes, blocks, dir, s)
  <2>1. \A i \in Indices(inodes[dir]) : inodes[dir].direct_blocks[i] \in data_bitmap
    BY <1>1, PlacesAreAllocated DEF SoundNow, Sound
  <2>2. Holds(inodes, blocks, T, B, dir)
    BY <2>1 DEF Holds
  <2> QED BY <2>2, SameEntries
<1>5. Taken(T, B, dir) = Taken(inodes, blocks, dir)
  BY <1>4 DEF Taken
<1>6. \A s \in Taken(T, B, dir) : At(T, B, dir, s).name # name
  BY <1>4, <1>5, NotFoundIsNotTaken DEF Taken
<1>7. CASE free # {}
  <2>1. PICK k \in Firsts(free) :
          a = [inodes |-> [T EXCEPT ![dir].size = @ + 1],
               blocks |-> [B EXCEPT ![T[dir].direct_blocks[k \div Slots]].entries[k % Slots]
                                    = Entry(name, new)],
               taken  |-> {},
               order  |-> AddOrder(dir, T[dir].direct_blocks[k \div Slots])]
    BY <1>7, Zenon DEF Added
  <2> DEFINE s == PlaceOf(k)
             b == T[dir].direct_blocks[s[1]]
  <2>2. k \in Positions(dir) /\ k \notin Used(dir)
    BY DEF Firsts
  <2>3. s \in Places(T[dir]) \ Taken(T, B, dir)
    BY <1>1, <1>5, <2>2, PositionsArePlaces, UsedIsTaken
  <2>4. s[1] = k \div Slots /\ s[2] = k % Slots
    BY DEF PlaceOf
  <2>5. a.inodes = With(T, dir, Resized(T[dir], T[dir].size + 1))
    <3>1. a.inodes = [T EXCEPT ![dir].size = @ + 1]
      BY <2>1
    <3> QED BY <3>1, Zenon DEF With, Resized
  <2>6. a.blocks = With(B, b, Holding(B[b], s[2], Entry(name, new)))
    <3>1. a.blocks = [B EXCEPT ![T[dir].direct_blocks[k \div Slots]].entries[k % Slots]
                               = Entry(name, new)]
      BY <2>1
    <3>2. a.blocks = [B EXCEPT ![b].entries[s[2]] = Entry(name, new)]
      BY <2>4, <3>1
    <3> HIDE DEF b, s
    <3> QED BY <3>2, Zenon DEF With, Holding
  <2>7. a.taken = {}
    BY <2>1
  <2>8. Rewritten(ib, used, T, B, a.inodes, a.blocks, dir, s, Entry(name, new), T[dir].size + 1)
    <3>1. Entry(name, new) \in DirectoryEntry /\ T[dir].size + 1 \in Nat
      BY <1>1, <1>3, EntryType, InodeFields
    <3> HIDE DEF s
    <3> QED BY <1>2, <2>3, <2>5, <2>6, <3>1, EntryWritten
  <2>9. /\ Sound(ib, used, a.inodes, a.blocks, {})
        /\ Relists(ib, T, B, a.inodes, a.blocks, dir, Listing(T, B, dir) \cup {Entry(name, new)})
    <3>1. dir \in Directories(ib, T) \ {new}
      BY <1>2
    <3> HIDE DEF s
    <3> QED BY <1>6, <2>3, <2>8, <3>1, SoundLinked
  <2>10. used \cup a.taken = used
    BY <2>7
  <2> QED BY <2>9, <2>10
<1>8. CASE free = {}
  <2>1. PICK b \in FreeBit(used, NumBlocks) :
          /\ n < DirectBlocks
          /\ a = [inodes |-> [T EXCEPT ![dir].size = @ + 1,
                                       ![dir].blocks_used = n + 1,
                                       ![dir].direct_blocks[n] = b],
                  blocks |-> [B EXCEPT ![b] = NewDirectoryBlock(Entry(name, new), FreeEntry)],
                  taken  |-> {b},
                  order  |-> AddOrder(dir, b)]
    BY <1>8, Zenon DEF Added
  <2>2. b \in Blocks \ used
    BY FreeBitIs DEF Blocks
  <2> DEFINE T1 == With(T, dir, Longer(T[dir], b))
             B1 == With(B, b, NewDirectoryBlock(FreeEntry, FreeEntry))
             s == <<n, 0>>
  <2>3. Sound(ib, used \cup {b}, T1, B1, {new})
    BY <1>2, <2>1, <2>2, SoundLongerDirectory
  <2>4. /\ T[dir] \in Inode
        /\ Longer(T[dir], b) \in Inode
        /\ Longer(T[dir], b).size = T[dir].size
        /\ Longer(T[dir], b).type = T[dir].type
        /\ Longer(T[dir], b).direct_blocks[n] = b
        /\ \A i \in Indices(T[dir]) : Longer(T[dir], b).direct_blocks[i] = T[dir].direct_blocks[i]
        /\ Indices(Longer(T[dir], b)) = Indices(T[dir]) \cup {n}
    BY <1>1, <2>1, <2>2, LongerIs
  <2>5. /\ T1 \in InodeTable /\ T1[dir] = Longer(T[dir], b)
        /\ \A m \in Inodes \ {dir} : T1[m] = T[m]
    <3> DEFINE e == Longer(T[dir], b)
    <3> HIDE DEF e
    <3>1. e \in Inode /\ T1 = With(T, dir, e)
      BY <2>4 DEF e
    <3>2. /\ With(T, dir, e) \in InodeTable
          /\ \A m \in Inodes : With(T, dir, e)[m] = IF m = dir THEN e ELSE T[m]
      BY <1>1, <1>3, <3>1, TableWith
    <3> HIDE DEF T1
    <3> QED BY <1>1, <3>1, <3>2 DEF e
  <2>6. /\ NewDirectoryBlock(FreeEntry, FreeEntry) \in Block
        /\ \A j \in 0..Slots - 1 : NewDirectoryBlock(FreeEntry, FreeEntry).entries[j] = FreeEntry
    BY NewDirectoryBlockIs, FreeEntryIs
  <2>7. /\ B1 \in Disk /\ B1[b] = NewDirectoryBlock(FreeEntry, FreeEntry)
        /\ \A c \in used : B1[c] = B[c]
    BY <1>3, <2>2, <2>6, DiskWith DEF Sound, Typed
  <2> HIDE DEF T1, B1
  <2>8. dir \in Directories(ib, T1) /\ Directories(ib, T1) = Directories(ib, T)
    BY <1>2, <2>4, <2>5 DEF Directories, Sound, Typed
  <2>9. \A m \in ib : \A t \in Places(T[m]) : At(T1, B1, m, t) = At(T, B, m, t)
    <3> TAKE m \in ib
    <3>1. \A i \in Indices(T[m]) : T[m].direct_blocks[i] \in used
      BY PlacesAreAllocated DEF Sound
    <3>2. \A i \in Indices(T[m]) : T1[m].direct_blocks[i] = T[m].direct_blocks[i]
      <4>1. CASE m = dir
        BY <2>4, <2>5, <4>1
      <4>2. CASE m # dir
        <5>1. m \in Inodes
          BY DEF Sound, Typed
        <5> QED BY <2>5, <4>2, <5>1
      <4> QED BY <4>1, <4>2
    <3>3. Holds(T, B, T1, B1, m)
      BY <2>7, <3>1, <3>2 DEF Holds
    <3> QED BY <3>3, SameEntries
  <2>10. At(T1, B1, dir, s) = FreeEntry
    BY <2>4, <2>5, <2>6, <2>7, Numbers DEF At
  <2>11. s \in Places(T1[dir])
    BY <2>4, <2>5, Numbers DEF Places
  <2>12. s \notin Taken(T1, B1, dir)
    BY <2>10, FreeEntryIs DEF Taken
  <2>13. \A t \in Taken(T1, B1, dir) : At(T1, B1, dir, t).name # name
    <3> SUFFICES ASSUME NEW t \in Taken(T1, B1, dir)
                 PROVE  At(T1, B1, dir, t).name # name
      OBVIOUS
    <3>1. /\ t \in Places(T1[dir]) /\ At(T1, B1, dir, t).inode_num # INVALID_INODE
      BY DEF Taken
    <3>2. CASE t \in Places(T[dir])
      BY <1>2, <1>6, <2>9, <3>1, <3>2 DEF Taken, Directories
    <3>3. CASE t \notin Places(T[dir])
      <4>1. t[1] = n /\ t[2] \in 0..Slots - 1
        BY <2>4, <2>5, <3>1, <3>3 DEF Places
      <4>2. At(T1, B1, dir, t) = FreeEntry
        BY <2>4, <2>5, <2>6, <2>7, <4>1 DEF At
      <4> QED BY <3>1, <4>2, FreeEntryIs
    <3> QED BY <3>2, <3>3
  <2>14. new \in Directories(ib, T1) => At(T1, B1, new, <<0, 1>>) = Entry(DotDot, dir)
    <3> SUFFICES ASSUME new \in Directories(ib, T1)
                 PROVE  At(T1, B1, new, <<0, 1>>) = Entry(DotDot, dir)
      OBVIOUS
    <3>1. new \in Directories(ib, T) /\ new \in ib
      BY <2>8 DEF Directories
    <3>2. <<0, 1>> \in Places(T[new])
      <4>1. Heads \subseteq Taken(T, B, new)
        BY <3>1, HeadsAreTaken DEF Sound, Typed, Tree
      <4> QED BY <4>1 DEF Heads, Taken
    <3> QED BY <2>9, <3>1, <3>2
  <2> DEFINE T2 == With(T1, dir, Resized(T1[dir], T1[dir].size + 1))
             c == T1[dir].direct_blocks[s[1]]
             B2 == With(B1, c, Holding(B1[c], s[2], Entry(name, new)))
  <2>15. /\ Sound(ib, used \cup {b}, T2, B2, {})
         /\ Relists(ib, T1, B1, T2, B2, dir, Listing(T1, B1, dir) \cup {Entry(name, new)})
    <3>1. Rewritten(ib, used \cup {b}, T1, B1, T2, B2, dir, s, Entry(name, new), T1[dir].size + 1)
      <4>1. Entry(name, new) \in DirectoryEntry /\ T1[dir].size + 1 \in Nat
        BY <1>3, <2>4, <2>5, EntryType, InodeFields
      <4> HIDE DEF s
      <4> QED BY <2>3, <2>8, <2>11, <4>1, EntryWritten
    <3> HIDE DEF s, T2, B2
    <3> QED BY <2>3, <2>8, <2>11, <2>12, <2>13, <2>14, <3>1, SoundLinked
  <2>16. a.inodes = T2
    <3>1. a.inodes = DirectoryGrown(T, dir, b)
      BY <2>1 DEF DirectoryGrown
    <3>2. dir \in Inodes /\ b \in Blocks /\ T[dir].blocks_used < DirectBlocks
      BY <1>1, <2>1, <2>2
    <3>3. a.inodes = With(With(T, dir, Longer(T[dir], b)), dir,
                    Resized(With(T, dir, Longer(T[dir], b))[dir],
                            With(T, dir, Longer(T[dir], b))[dir].size + 1))
      BY <1>3, <3>1, <3>2, LongerAndResized
    <3> QED BY <3>3 DEF T1
  <2>17. a.blocks = B2
    <3>1. s[1] = n /\ s[2] = 0 /\ c = b
      BY <2>4, <2>5
    <3>2. Entry(name, new) \in DirectoryEntry
      BY <1>3, EntryType
    <3> DEFINE old == NewDirectoryBlock(FreeEntry, FreeEntry)
               block == NewDirectoryBlock(Entry(name, new), FreeEntry)
    <3>3. Holding(B1[c], s[2], Entry(name, new)) = block
      BY <2>7, <3>1, <3>2, FirstEntryHeld
    <3>4. block \in Block
      BY <3>2, FreeEntryIs, NewDirectoryBlockIs
    <3>5. B2 = With(With(B, b, old), b, block)
      BY <3>1, <3>3 DEF B1
    <3>6. a.blocks = With(B, b, block)
      BY <2>1, Zenon DEF With
    <3>7. With(With(B, b, old), b, block) = With(B, b, block)
      <4>1. B \in [Blocks -> Block] /\ old \in Block /\ b \in Blocks
        BY <1>3, <2>2, <2>6 DEF Disk
      <4> HIDE DEF block, old
      <4> QED BY <3>4, <4>1, WithTwice
    <3> HIDE DEF B2, block, old
    <3> QED BY <3>5, <3>6, <3>7
  <2>18. a.taken = {b}
    BY <2>1
  <2>19. Listing(T1, B1, dir) = Listing(T, B, dir)
    <3>1. Taken(T1, B1, dir) = Taken(T, B, dir)
      <4>1. Places(T[dir]) \subseteq Places(T1[dir])
        BY <2>4, <2>5 DEF Places
      <4>2. ASSUME NEW t \in Places(T1[dir]) \ Places(T[dir])
            PROVE  At(T1, B1, dir, t).inode_num = INVALID_INODE
        <5>1. t[1] = n /\ t[2] \in 0..Slots - 1
          BY <2>4, <2>5, <4>2 DEF Places
        <5>2. At(T1, B1, dir, t) = FreeEntry
          BY <2>4, <2>5, <2>6, <2>7, <5>1 DEF At
        <5> QED BY <5>2, FreeEntryIs
      <4>3. \A t \in Places(T[dir]) : At(T1, B1, dir, t) = At(T, B, dir, t)
        BY <1>2, <2>9 DEF Directories
      <4> QED BY <4>1, <4>2, <4>3 DEF Taken
    <3>2. \A t \in LinksOf(T, B, dir) : At(T1, B1, dir, t) = At(T, B, dir, t)
      BY <1>2, <2>9 DEF Directories, LinksOf, Taken
    <3> QED BY <3>1, <3>2 DEF Listing, LinksOf
  <2>20. \A m \in ib \ {dir} : Untouched(T, B, T1, B1, m)
    <3> TAKE m \in ib \ {dir}
    <3>1. T1[m] = T[m]
      BY <2>5 DEF Sound, Typed
    <3>2. \A i \in Indices(T[m]) : T[m].direct_blocks[i] \in used
      BY PlacesAreAllocated DEF Sound
    <3> QED BY <2>7, <3>1, <3>2 DEF Untouched, Holds
  <2> HIDE DEF T2, B2
  <2>21. Relists(ib, T, B, T2, B2, dir, Listing(T, B, dir) \cup {Entry(name, new)})
    BY <2>15, <2>19, <2>20, UntouchedTwice DEF Relists
  <2> QED BY <2>15, <2>16, <2>17, <2>18, <2>21
<1> QED BY <1>7, <1>8

\* The disk an outcome leaves is sound.
Fine(o) == Sound(o.inode_bitmap, o.data_bitmap, o.inodes, o.blocks, {})

\* The files but those in X stay as they are, directories aside.
Spares(o, X) ==
    \A n \in inode_bitmap \ X : inodes[n].type = "REGULAR" =>
        n \in o.inode_bitmap /\ o.inodes[n] = inodes[n]

\* Nothing that is allocated differs, and nothing else is allocated.
ChangesNothing(o) ==
    /\ o.inode_bitmap = inode_bitmap
    /\ \A n \in inode_bitmap : Untouched(inodes, blocks, o.inodes, o.blocks, n)

\* Inode new is allocated and has a name in directory dir; that is all.
Adds(o, dir, name, new) ==
    /\ o.inode_bitmap = inode_bitmap \cup {new}
    /\ Relists(inode_bitmap, inodes, blocks, o.inodes, o.blocks, dir,
               Listing(inodes, blocks, dir) \cup {Entry(name, new)})

\* A file is freed and loses its name in directory dir; that is all.
Drops(o, dir, name, file) ==
    /\ o.inode_bitmap = inode_bitmap \ {file}
    /\ Relists(inode_bitmap \ {file}, inodes, blocks, o.inodes, o.blocks, dir,
               Listing(inodes, blocks, dir) \ {Entry(name, file)})

\* The parts of an outcome.
LEMMA OutcomeIs ==
    ASSUME NEW ib, NEW db, NEW T, NEW B, NEW order, NEW saves
    PROVE  /\ Outcome(ib, db, T, B, order, saves).inode_bitmap = ib
           /\ Outcome(ib, db, T, B, order, saves).data_bitmap = db
           /\ Outcome(ib, db, T, B, order, saves).inodes = T
           /\ Outcome(ib, db, T, B, order, saves).blocks = B
           /\ Outcome(ib, db, T, B, order, saves).saves = saves
  BY DEF Outcome

\* Adding an entry changes no inode but the directory's.
LEMMA AddedSpares ==
    ASSUME NEW dir, NEW entry, NEW used, NEW T \in InodeTable, NEW B,
           NEW a \in Added(dir, entry, used, T, B), NEW m \in Inodes \ {dir}
    PROVE  a.inodes[m] = T[m]
<1>1. \/ a.inodes = [T EXCEPT ![dir].size = @ + 1]
      \/ \E b : a.inodes = DirectoryGrown(T, dir, b)
  <2> DEFINE free == Positions(dir) \ Used(dir)
  <2>1. CASE free # {}
    <3>1. PICK k \in Firsts(free) :
          a = [inodes |-> [T EXCEPT ![dir].size = @ + 1],
               blocks |-> [B EXCEPT ![T[dir].direct_blocks[k \div Slots]].entries[k % Slots]
                                    = entry],
               taken  |-> {},
               order  |-> AddOrder(dir, T[dir].direct_blocks[k \div Slots])]
      BY <2>1, Zenon DEF Added
    <3> QED BY <3>1
  <2>2. CASE free = {}
    <3>1. \E b :
          a = [inodes |-> DirectoryGrown(T, dir, b),
               blocks |-> [B EXCEPT ![b] = NewDirectoryBlock(entry, FreeEntry)],
               taken  |-> {b},
               order  |-> AddOrder(dir, b)]
      BY <2>2, Zenon DEF Added, DirectoryGrown
    <3> QED BY <3>1
  <2> QED BY <2>1, <2>2
<1>2. CASE a.inodes = [T EXCEPT ![dir].size = @ + 1]
  BY <1>2 DEF InodeTable
<1>3. CASE \E b : a.inodes = DirectoryGrown(T, dir, b)
  BY <1>3 DEF InodeTable, DirectoryGrown
<1> QED BY <1>1, <1>2, <1>3

\* Where a name can be added.
LEMMA CanAddFacts ==
    ASSUME SoundNow, NEW path \in Paths, NEW parent, CanAdd(path, parent)
    PROVE  /\ parent \in Directories(inode_bitmap, inodes)
           /\ Name(path) \in Names
           /\ LookupIn(parent, Name(path)) = {}
  BY PathsAre, LookupIsAllocated DEF CanAdd, Directories

\* The end of a creation, successful or not, leaves a sound disk.
LEMMA FinishedIsSound ==
    ASSUME SoundNow, NEW path \in Paths, NEW parent, CanAdd(path, parent),
           NEW new \in Inodes \ inode_bitmap, NEW used, NEW table, NEW data,
           Sound(inode_bitmap \cup {new}, used, table, data, {new}),
           \A n \in inode_bitmap : table[n] = inodes[n],
           \A b \in data_bitmap : data[b] = blocks[b],
           new \in Directories(inode_bitmap \cup {new}, table) =>
             At(table, data, new, <<0, 1>>) = Entry(DotDot, parent),
           NEW order, NEW o \in Finished(path, parent, new, used, table, data, order)
    PROVE  /\ Fine(o) /\ Spares(o, {})
           /\ \/ ChangesNothing(o)
              \/ /\ Adds(o, parent, Name(path), new)
                 /\ Untouched(table, data, o.inodes, o.blocks, new)
<1> DEFINE added == Added(parent, Entry(Name(path), new), used, table, data)
           ib == inode_bitmap \cup {new}
<1>1. /\ parent \in Directories(inode_bitmap, inodes)
      /\ Name(path) \in Names
      /\ LookupIn(parent, Name(path)) = {}
  BY CanAddFacts
<1>2. table \in InodeTable /\ data \in Disk
  BY DEF Sound, Typed
<1>3. parent \in inode_bitmap /\ inodes[parent].type = "DIRECTORY" /\ inode_bitmap \subseteq Inodes
  BY <1>1 DEF Directories, SoundNow, Sound, Typed
<1>4. /\ \A n \in inode_bitmap : Untouched(inodes, blocks, table, data, n)
      /\ Listing(table, data, parent) = Listing(inodes, blocks, parent)
  <2>1. \A n \in inode_bitmap : Untouched(inodes, blocks, table, data, n)
    <3> SUFFICES ASSUME NEW n \in inode_bitmap
                 PROVE  Untouched(inodes, blocks, table, data, n)
      OBVIOUS
    <3>1. \A i \in Indices(inodes[n]) : inodes[n].direct_blocks[i] \in data_bitmap
      BY PlacesAreAllocated DEF SoundNow, Sound
    <3> QED BY <3>1 DEF Untouched, Holds
  <2>2. Untouched(inodes, blocks, table, data, parent)
    BY <1>3, <2>1
  <2> QED BY <2>1, <2>2, UntouchedListing
<1>5. CASE added = {}
  <2>1. o = Outcome(inode_bitmap, data_bitmap, table, data, order, FALSE)
    BY <1>5 DEF Finished
  <2>2. /\ o.inode_bitmap = inode_bitmap /\ o.data_bitmap = data_bitmap
        /\ o.inodes = table /\ o.blocks = data
    BY <2>1, Zenon DEF Outcome
  <2>3. Sound(inode_bitmap, data_bitmap, table, data, {})
    BY <1>2, SoundUnused DEF SoundNow
  <2>4. ChangesNothing(o)
    BY <1>4, <2>2 DEF ChangesNothing
  <2> QED BY <2>2, <2>3, <2>4 DEF Fine, Spares
<1>6. CASE added # {}
  <2>1. PICK a \in added :
          o = Outcome(inode_bitmap \cup {new}, used \cup a.taken,
                      a.inodes, a.blocks, order \o a.order, TRUE)
    BY <1>6 DEF Finished
  <2>2. /\ o.inode_bitmap = inode_bitmap \cup {new} /\ o.data_bitmap = used \cup a.taken
        /\ o.inodes = a.inodes /\ o.blocks = a.blocks
    BY <2>1, Zenon DEF Outcome
  <2>3. /\ Sound(ib, used \cup a.taken, a.inodes, a.blocks, {})
        /\ Relists(ib, table, data, a.inodes, a.blocks, parent,
                   Listing(table, data, parent) \cup {Entry(Name(path), new)})
    <3>1. parent \in ib /\ parent # new /\ table[parent] = inodes[parent]
      BY <1>3
    <3> HIDE DEF ib
    <3> QED BY <1>1, <3>1, AddedIsSound DEF ib
  <2>4. \A n \in inode_bitmap \ {parent} : a.inodes[n] = inodes[n]
    BY <1>2, <1>3, AddedSpares
  <2>5. Spares(o, {})
    BY <1>3, <2>2, <2>4 DEF Spares
  <2>6. Adds(o, parent, Name(path), new)
    <3>1. \A n \in inode_bitmap \ {parent} : Untouched(inodes, blocks, a.inodes, a.blocks, n)
      BY <1>4, <2>3, UntouchedTwice DEF Relists
    <3> QED BY <1>4, <2>2, <2>3, <3>1 DEF Adds, Relists
  <2>7. Untouched(table, data, o.inodes, o.blocks, new)
    BY <1>3, <2>2, <2>3 DEF Relists
  <2> QED BY <2>2, <2>3, <2>5, <2>6, <2>7 DEF Fine
<1> QED BY <1>5, <1>6

\* create_file() leaves a sound disk.
LEMMA CreatedIsSound ==
    ASSUME SoundNow, NEW path \in Paths, NEW o \in Created(path)
    PROVE  /\ Fine(o) /\ Spares(o, {})
           /\ \/ ChangesNothing(o)
              \/ \E parent, new :
                   /\ CanAdd(path, parent) /\ new \in Inodes \ inode_bitmap
                   /\ Adds(o, parent, Name(path), new)
                   /\ o.inodes[new] = NewInode("REGULAR")
<1>1. PICK at \in Placements(path) :
        o \in Finished(path, at[1], at[2], data_bitmap,
                       [inodes EXCEPT ![at[2]] = NewInode("REGULAR")], blocks,
                       <<InodeWrite(at[2])>>)
  BY DEF Created
<1> DEFINE parent == at[1]
           new == at[2]
           table == With(inodes, new, NewInode("REGULAR"))
<1>2. CanAdd(path, parent) /\ new \in FreeBit(inode_bitmap, NumInodes)
  BY DEF Placements
<1>3. new \in Inodes \ inode_bitmap
  BY <1>2, FreeBitIs DEF Inodes
<1>4. o \in Finished(path, parent, new, data_bitmap, table, blocks, <<InodeWrite(new)>>)
  BY <1>1, Zenon DEF With
<1> HIDE DEF parent, new
<1>5. Sound(inode_bitmap \cup {new}, data_bitmap, table, blocks, {new})
  BY <1>3, SoundNewFile DEF SoundNow
<1>6. NewInode("REGULAR") \in Inode /\ NewInode("REGULAR").type = "REGULAR"
  BY NewInodeIs
<1>7. \A n \in Inodes : table[n] = IF n = new THEN NewInode("REGULAR") ELSE inodes[n]
  BY <1>3, <1>6, TableWith DEF SoundNow, Sound, Typed
<1> HIDE DEF table
<1>8. \A n \in inode_bitmap : table[n] = inodes[n]
  BY <1>3, <1>7 DEF SoundNow, Sound, Typed
<1>9. new \notin Directories(inode_bitmap \cup {new}, table)
  BY <1>3, <1>6, <1>7 DEF Directories
<1>10. \A b \in data_bitmap : blocks[b] = blocks[b]
  OBVIOUS
<1>11. /\ Fine(o) /\ Spares(o, {})
       /\ \/ ChangesNothing(o)
          \/ /\ Adds(o, parent, Name(path), new)
             /\ Untouched(table, blocks, o.inodes, o.blocks, new)
  BY <1>2, <1>3, <1>4, <1>5, <1>8, <1>9, <1>10, FinishedIsSound
<1>12. Untouched(table, blocks, o.inodes, o.blocks, new) => o.inodes[new] = NewInode("REGULAR")
  BY <1>3, <1>7 DEF Untouched
<1> QED BY <1>2, <1>3, <1>11, <1>12

\* create_directory() leaves a sound disk.
LEMMA MadeDirectoryIsSound ==
    ASSUME SoundNow, NEW path \in Paths, NEW o \in MadeDirectory(path)
    PROVE  /\ Fine(o) /\ Spares(o, {})
           /\ \/ ChangesNothing(o)
              \/ \E parent, new :
                   /\ CanAdd(path, parent) /\ new \in Inodes \ inode_bitmap
                   /\ Adds(o, parent, Name(path), new)
                   /\ o.inodes[new].type = "DIRECTORY"
                   /\ Listing(o.inodes, o.blocks, new) = {}
<1> DEFINE room == FreeBit(data_bitmap, NumBlocks)
<1>1. PICK at \in Placements(path) :
        o \in IF room = {}
              THEN {Outcome(inode_bitmap, data_bitmap, inodes, blocks, <<>>, FALSE)}
              ELSE UNION {
                 Finished(path, at[1], at[2], data_bitmap \cup {b},
                          [inodes EXCEPT ![at[2]] =
                             [NewInode("DIRECTORY") EXCEPT
                                !.size = 2, !.blocks_used = 1, !.direct_blocks[0] = b]],
                          [blocks EXCEPT ![b] =
                             NewDirectoryBlock(Entry(Dot, at[2]), Entry(DotDot, at[1]))],
                          <<BlockWrite(b), InodeWrite(at[2])>>) : b \in room}
  BY DEF MadeDirectory
<1> DEFINE parent == at[1]
           new == at[2]
<1>2. CanAdd(path, parent) /\ new \in FreeBit(inode_bitmap, NumInodes)
  BY DEF Placements
<1>3. new \in Inodes \ inode_bitmap
  BY <1>2, FreeBitIs DEF Inodes
<1>4. CASE room = {}
  <2>1. o = Outcome(inode_bitmap, data_bitmap, inodes, blocks, <<>>, FALSE)
    BY <1>1, <1>4
  <2>2. /\ o.inode_bitmap = inode_bitmap /\ o.data_bitmap = data_bitmap
        /\ o.inodes = inodes /\ o.blocks = blocks
    BY <2>1, Zenon DEF Outcome
  <2> QED BY <2>2 DEF Fine, Spares, SoundNow, ChangesNothing, Untouched, Holds
<1>5. CASE room # {}
  <2>1. PICK b \in room :
          o \in Finished(path, parent, new, data_bitmap \cup {b},
                          With(inodes, new, NewDirectoryInode(b)),
                          With(blocks, b, NewDirectoryBlock(Entry(Dot, new), Entry(DotDot, parent))),
                          <<BlockWrite(b), InodeWrite(new)>>)
    BY <1>1, <1>5, Zenon DEF With, NewDirectoryInode
  <2> DEFINE table == With(inodes, new, NewDirectoryInode(b))
             data == With(blocks, b, NewDirectoryBlock(Entry(Dot, new), Entry(DotDot, parent)))
  <2>2. b \in Blocks \ data_bitmap
    BY FreeBitIs DEF Blocks
  <2>3. parent \in inode_bitmap /\ parent \in Inodes
    BY <1>2, CanAddFacts DEF Directories, SoundNow, Sound, Typed
  <2> HIDE DEF parent, new
  <2>4. /\ Sound(inode_bitmap \cup {new}, data_bitmap \cup {b}, table, data, {new})
        /\ Listing(table, data, new) = {}
    <3>1. Sound(inode_bitmap, data_bitmap, inodes, blocks, {}) /\ new \in Inodes \ inode_bitmap
      BY <1>3 DEF SoundNow
    <3>2. Sound(inode_bitmap \cup {new}, data_bitmap \cup {b}, table, data, {new})
      BY <2>2, <2>3, <3>1, SoundNewDirectory
    <3>3. Listing(table, data, new) = {}
      BY <2>2, <2>3, <3>1, SoundNewDirectory
    <3> QED BY <3>2, <3>3
  <2>5. /\ NewDirectoryInode(b) \in Inode
        /\ NewDirectoryInode(b).direct_blocks[0] = b
        /\ NewDirectoryInode(b).type = "DIRECTORY"
    BY <2>2, NewDirectoryInodeIs
  <2>6. \A n \in Inodes : table[n] = IF n = new THEN NewDirectoryInode(b) ELSE inodes[n]
    BY <1>3, <2>5, TableWith DEF SoundNow, Sound, Typed
  <2>7. /\ NewDirectoryBlock(Entry(Dot, new), Entry(DotDot, parent)) \in Block
        /\ NewDirectoryBlock(Entry(Dot, new), Entry(DotDot, parent)).entries[1]
             = Entry(DotDot, parent)
    BY <1>3, <2>3, EntryType, NewDirectoryBlockIs
  <2>8. /\ \A c \in data_bitmap : data[c] = blocks[c]
        /\ data[b] = NewDirectoryBlock(Entry(Dot, new), Entry(DotDot, parent))
    BY <2>2, <2>7, DiskWith DEF SoundNow, Sound, Typed
  <2>9. o \in Finished(path, parent, new, data_bitmap \cup {b}, table, data,
                       <<BlockWrite(b), InodeWrite(new)>>)
    BY <2>1
  <2> HIDE DEF table, data
  <2>10. \A n \in inode_bitmap : table[n] = inodes[n]
    BY <1>3, <2>6 DEF SoundNow, Sound, Typed
  <2>11. At(table, data, new, <<0, 1>>) = Entry(DotDot, parent)
    BY <1>3, <2>5, <2>6, <2>7, <2>8 DEF At
  <2>12. /\ Fine(o) /\ Spares(o, {})
         /\ \/ ChangesNothing(o)
            \/ /\ Adds(o, parent, Name(path), new)
               /\ Untouched(table, data, o.inodes, o.blocks, new)
    BY <1>2, <1>3, <2>4, <2>8, <2>9, <2>10, <2>11, FinishedIsSound
  <2>13. Untouched(table, data, o.inodes, o.blocks, new) =>
           o.inodes[new].type = "DIRECTORY" /\ Listing(o.inodes, o.blocks, new) = {}
    BY <1>3, <2>4, <2>5, <2>6, UntouchedListing DEF Untouched
  <2> QED BY <1>2, <1>3, <2>12, <2>13
<1> QED BY <1>4, <1>5

\* The file at position k of directory parent is removed.
RemovesAt(o, path, parent, k) ==
    /\ parent \in {n \in Lookup(Parent(path)) : inodes[n].type = "DIRECTORY"}
    /\ k \in Named(parent, Name(path))
    /\ Removable(EntryAt(parent, k).inode_num)
    /\ o = Outcome(inode_bitmap \ {EntryAt(parent, k).inode_num},
                   data_bitmap \ Freed(inodes[EntryAt(parent, k).inode_num]),
                   [inodes EXCEPT ![parent].size = @ - 1],
                   [blocks EXCEPT ![inodes[parent].direct_blocks[k \div Slots]].entries[k % Slots]
                                  = FreeEntry],
                   AddOrder(parent, inodes[parent].direct_blocks[k \div Slots]), TRUE)

\* What remove_file() finds.
LEMMA RemovedIs ==
    ASSUME NEW path, NEW o \in Removed(path)
    PROVE  \E parent, k : RemovesAt(o, path, parent, k)
<1>1. PICK at \in {at \in UNION {{<<parent, k>> : k \in Named(parent, Name(path))} :
                             parent \in {n \in Lookup(Parent(path)) :
                                           inodes[n].type = "DIRECTORY"}} :
               Removable(EntryAt(at[1], at[2]).inode_num)} :
        o = Outcome(inode_bitmap \ {EntryAt(at[1], at[2]).inode_num},
                     data_bitmap \ Freed(inodes[EntryAt(at[1], at[2]).inode_num]),
                     [inodes EXCEPT ![at[1]].size = @ - 1],
                     [blocks EXCEPT ![inodes[at[1]].direct_blocks[at[2] \div Slots]].entries[at[2] % Slots]
                                    = FreeEntry],
                     AddOrder(at[1], inodes[at[1]].direct_blocks[at[2] \div Slots]), TRUE)
  BY Zenon DEF Removed
<1>2. PICK parent, k :
        /\ parent \in {n \in Lookup(Parent(path)) : inodes[n].type = "DIRECTORY"}
        /\ k \in Named(parent, Name(path))
        /\ at = <<parent, k>>
  OBVIOUS
<1>3. at[1] = parent /\ at[2] = k
  BY <1>2
<1>4. Removable(EntryAt(at[1], at[2]).inode_num)
  OBVIOUS
<1> QED BY <1>1, <1>2, <1>3, <1>4, Zenon DEF RemovesAt

\* Removing a file that may be removed leaves a sound disk, and spares the
\* files that are open.
LEMMA RemovedIsSound ==
    ASSUME SoundNow, NEW path \in Paths, path # <<>>, NEW o \in Removed(path)
    PROVE  /\ Fine(o)
           /\ \E file, parent :
                /\ Removable(file) /\ Spares(o, {file})
                /\ parent \in Lookup(Parent(path)) /\ Drops(o, parent, Name(path), file)
                /\ parent \in Directories(inode_bitmap, inodes)
                /\ Entry(Name(path), file) \in Listing(inodes, blocks, parent)
<1>0. PICK parent, k : RemovesAt(o, path, parent, k)
  BY RemovedIs
<1>1. /\ parent \in {n \in Lookup(Parent(path)) : inodes[n].type = "DIRECTORY"}
      /\ k \in Named(parent, Name(path))
      /\ Removable(EntryAt(parent, k).inode_num)
      /\ o = Outcome(inode_bitmap \ {EntryAt(parent, k).inode_num},
                     data_bitmap \ Freed(inodes[EntryAt(parent, k).inode_num]),
                     [inodes EXCEPT ![parent].size = @ - 1],
                     [blocks EXCEPT ![inodes[parent].direct_blocks[k \div Slots]].entries[k % Slots]
                                    = FreeEntry],
                     AddOrder(parent, inodes[parent].direct_blocks[k \div Slots]), TRUE)
  BY <1>0, Zenon DEF RemovesAt
<1> DEFINE s == PlaceOf(k)
           file == At(inodes, blocks, parent, s).inode_num
           b == inodes[parent].direct_blocks[s[1]]
           table == With(inodes, parent, Resized(inodes[parent], inodes[parent].size - 1))
           data == With(blocks, b, Holding(blocks[b], s[2], FreeEntry))
<1>2. parent \in Directories(inode_bitmap, inodes) /\ Name(path) \in Names
  BY <1>1, PathsAre, LookupIsAllocated DEF Directories
<1>3. /\ s \in LinksOf(inodes, blocks, parent)
      /\ EntryAt(parent, k).inode_num = file
  BY <1>1, <1>2, NamedIsLink
<1>4. Removable(file)
  BY <1>1, <1>3
<1>5. file \notin Directories(inode_bitmap, inodes)
  BY <1>4 DEF Removable, Directories
<1>6. /\ Sound(inode_bitmap, data_bitmap, table, data, {file})
      /\ Relists(inode_bitmap, inodes, blocks, table, data, parent,
                 Listing(inodes, blocks, parent) \ {At(inodes, blocks, parent, s)})
  <2>1. s \in Taken(inodes, blocks, parent) /\ s \in Places(inodes[parent])
    BY <1>3 DEF LinksOf, Taken
  <2>2. inodes[parent].size - 1 \in Nat
    <3> HIDE DEF s
    <3> QED BY <1>2, <2>1, SizeIsPositive DEF SoundNow
  <2>3. Rewritten(inode_bitmap, data_bitmap, inodes, blocks, table, data, parent, s,
                  FreeEntry, inodes[parent].size - 1)
    <3> HIDE DEF s
    <3> QED BY <1>2, <2>1, <2>2, FreeEntryIs, EntryWritten DEF SoundNow
  <2> HIDE DEF s, table, data
  <2> QED BY <1>2, <1>3, <1>5, <2>3, SoundUnlinked DEF SoundNow
<1>7. /\ o.inode_bitmap = inode_bitmap \ {file}
      /\ o.data_bitmap = data_bitmap \ Freed(inodes[file])
      /\ o.inodes = table /\ o.blocks = data
  <2>1. /\ o.inode_bitmap = inode_bitmap \ {EntryAt(parent, k).inode_num}
        /\ o.data_bitmap = data_bitmap \ Freed(inodes[EntryAt(parent, k).inode_num])
        /\ o.inodes = [inodes EXCEPT ![parent].size = @ - 1]
        /\ o.blocks = [blocks EXCEPT
              ![inodes[parent].direct_blocks[k \div Slots]].entries[k % Slots] = FreeEntry]
    BY <1>1, Zenon DEF Outcome
  <2>2. s[1] = k \div Slots /\ s[2] = k % Slots
    BY DEF PlaceOf
  <2>3. o.inodes = table
    BY <2>1, Zenon DEF With, Resized
  <2>4. o.blocks = [blocks EXCEPT ![b].entries[s[2]] = FreeEntry]
    BY <2>1, <2>2
  <2>5. o.blocks = data
    <3> HIDE DEF b, s
    <3> QED BY <2>4, Zenon DEF With, Holding
  <2> QED BY <1>3, <2>1, <2>3, <2>5
<1>8. /\ parent \in Inodes /\ inodes \in InodeTable
      /\ file # parent /\ file \in inode_bitmap
  BY <1>1, <1>2, <1>3, <1>5, NamedIsLink DEF SoundNow, Sound, Typed, Directories
<1>9. \A n \in Inodes \ {parent} : table[n] = inodes[n]
  BY <1>8 DEF With, InodeTable
<1>10. /\ At(inodes, blocks, parent, s) = Entry(Name(path), file)
       /\ Entry(Name(path), file) \in Listing(inodes, blocks, parent)
  <2>1. EntryAt(parent, k).name = Name(path) /\ EntryAt(parent, k) = At(inodes, blocks, parent, s)
    BY <1>1, <1>2, NamedIsLink DEF Named, Firsts
  <2>2. At(inodes, blocks, parent, s) \in DirectoryEntry
    <3>1. s \in Places(inodes[parent]) /\ parent \in inode_bitmap
      BY <1>2, <1>3 DEF LinksOf, Taken, Directories
    <3> HIDE DEF s
    <3> QED BY <3>1, PlacesAreAllocated DEF SoundNow, Sound
  <2> HIDE DEF s
  <2>3. At(inodes, blocks, parent, s) = Entry(Name(path), file)
    BY <2>1, <2>2 DEF Entry, DirectoryEntry, file
  <2> QED BY <1>3, <2>3 DEF Listing
<1> HIDE DEF s, b, table, data, file
<1>11. Sound(inode_bitmap \ {file}, data_bitmap \ Freed(inodes[file]), table, data, {})
  <2>1. inode_bitmap \subseteq Inodes
    BY DEF SoundNow, Sound, Typed
  <2>2. table[file] = inodes[file]
    BY <1>8, <1>9, <2>1
  <2>3. file \notin Directories(inode_bitmap, table)
    BY <1>5, <1>8, <2>2 DEF Directories
  <2>4. Sound(inode_bitmap \ {file}, data_bitmap \ Freed(table[file]), table, data, {})
    BY <1>6, <2>3, SoundFreed
  <2> QED BY <2>2, <2>4
<1>12. Spares(o, {file})
  <2>1. inode_bitmap \subseteq Inodes /\ inodes[parent].type = "DIRECTORY"
    BY <1>1 DEF SoundNow, Sound, Typed
  <2> QED BY <1>7, <1>9, <2>1 DEF Spares
<1>13. Fine(o)
  BY <1>7, <1>11 DEF Fine
<1>14. Drops(o, parent, Name(path), file)
  BY <1>6, <1>7, <1>10 DEF Drops, Relists
<1> QED BY <1>1, <1>2, <1>4, <1>12, <1>13, <1>14, <1>10

-----------------------------------------------------------------------------
(* Writing to a file.                                                       *)

\* The states of the loop of write_file(), and those in which the disk is
\* sound with the inode as far as it is: the offset is not past the end, and
\* the file has not become shorter; other files are not touched.
WriteState ==
    [inode : Inode, data : Disk, used : SUBSET Blocks,
     order : Seq({BlockWrite(b) : b \in Blocks}), offset : Nat, left : Nat]

Going(file) ==
    {w \in WriteState :
        /\ Sound(inode_bitmap, w.used, With(inodes, file, w.inode), w.data, {})
        /\ w.inode.type = inodes[file].type
        /\ w.offset <= w.inode.size
        /\ inodes[file].size <= w.inode.size
        /\ \A n \in inode_bitmap \ {file} :
             Untouched(inodes, blocks, With(inodes, file, w.inode), w.data, n)}

\* What the parts of the state of a write hold.
LEMMA WriteStateFields ==
    ASSUME NEW w \in WriteState
    PROVE  /\ w.inode \in Inode /\ w.data \in Disk /\ w.used \in SUBSET Blocks
           /\ w.order \in Seq({BlockWrite(b) : b \in Blocks})
           /\ w.offset \in Nat /\ w.left \in Nat
  BY DEF WriteState

\* A file that is written: allocated, and not a directory.
LEMMA GoingFile ==
    ASSUME SoundNow, NEW file \in inode_bitmap, inodes[file].type = "REGULAR",
           NEW w \in Going(file)
    PROVE  /\ file \in Inodes /\ inodes \in InodeTable
           /\ With(inodes, file, w.inode)[file] = w.inode
           /\ file \in inode_bitmap \ Directories(inode_bitmap, With(inodes, file, w.inode))
           /\ w.inode.size <= w.inode.blocks_used * BlockSize
<1>1. file \in Inodes /\ inodes \in InodeTable
  BY DEF SoundNow, Sound, Typed
<1>2. w.inode \in Inode /\ w.inode.type = "REGULAR"
  BY WriteStateFields DEF Going
<1>3. With(inodes, file, w.inode)[file] = w.inode
  BY <1>1, <1>2, TableWith
<1>4. file \in inode_bitmap \ Directories(inode_bitmap, With(inodes, file, w.inode))
  BY <1>2, <1>3 DEF Directories
<1>5. w.inode.size <= w.inode.blocks_used * BlockSize
  BY <1>3, <1>4 DEF Going, Sound, Covered
<1> QED BY <1>1, <1>3, <1>4, <1>5

\* With a state of the loop, replacing the inode again.
LEMMA GoingTwice ==
    ASSUME SoundNow, NEW file \in inode_bitmap, NEW e \in Inode, NEW f \in Inode
    PROVE  With(With(inodes, file, e), file, f) = With(inodes, file, f)
<1>1. inodes \in [Inodes -> Inode] /\ file \in Inodes
  BY DEF SoundNow, Sound, Typed, InodeTable
<1> QED BY <1>1, WithTwice

\* The other inodes are not touched by what a write does to its own.
LEMMA OthersUntouched ==
    ASSUME SoundNow, NEW file \in inode_bitmap, NEW e \in Inode, NEW f \in Inode, NEW B, NEW B2,
           NEW n \in inode_bitmap \ {file},
           Untouched(inodes, blocks, With(inodes, file, e), B, n),
           \A i \in Indices(inodes[n]) :
             B2[inodes[n].direct_blocks[i]] = B[inodes[n].direct_blocks[i]]
    PROVE  Untouched(inodes, blocks, With(inodes, file, f), B2, n)
<1>1. inodes \in InodeTable /\ file \in Inodes /\ n \in Inodes \ {file}
  BY DEF SoundNow, Sound, Typed
<1>2. With(inodes, file, e)[n] = inodes[n] /\ With(inodes, file, f)[n] = inodes[n]
  BY <1>1, TableWith
<1> QED BY <1>2 DEF Untouched, Holds

\* An offset within the size, or at it, is in a block of the file or the next.
LEMMA IndexIsNext ==
    ASSUME NEW offset \in Nat, NEW used \in Nat, offset <= used * BlockSize
    PROVE  /\ offset \div BlockSize \in Nat /\ offset % BlockSize \in 0..BlockSize - 1
           /\ offset = (offset \div BlockSize) * BlockSize + (offset % BlockSize)
           /\ offset \div BlockSize <= used
<1>1. BlockSize \in Nat /\ BlockSize > 0
  OBVIOUS
<1>2. /\ offset \div BlockSize \in Nat /\ offset % BlockSize \in 0..BlockSize - 1
      /\ offset = (offset \div BlockSize) * BlockSize + (offset % BlockSize)
      /\ \A u \in Nat : offset \in 0..u * BlockSize - 1 => offset \div BlockSize \in 0..u - 1
  BY <1>1, Division
<1>3. used + 1 \in Nat /\ offset \in 0..(used + 1) * BlockSize - 1
  BY <1>1
<1>4. offset \div BlockSize \in 0..(used + 1) - 1
  BY <1>2, <1>3
<1> QED BY <1>2, <1>4

\* A turn gets a block for the offset, a new one if the file ends there.
LEMMA EnsuredKeeps ==
    ASSUME SoundNow, NEW file \in inode_bitmap, inodes[file].type = "REGULAR",
           NEW w \in Going(file), NEW r \in Ensured(w, w.offset \div BlockSize)
    PROVE  r \in Going(file) /\ r.offset \div BlockSize \in Indices(r.inode)
<1> DEFINE index == w.offset \div BlockSize
           u == w.inode.blocks_used
<1>1. /\ w \in WriteState
      /\ w.inode \in Inode /\ w.data \in Disk /\ w.used \in SUBSET Blocks
      /\ w.order \in Seq({BlockWrite(b) : b \in Blocks})
      /\ w.offset \in Nat /\ w.left \in Nat
      /\ w.inode.type = inodes[file].type
      /\ w.offset <= w.inode.size
      /\ inodes[file].size <= w.inode.size
      /\ Sound(inode_bitmap, w.used, With(inodes, file, w.inode), w.data, {})
  BY WriteStateFields DEF Going
<1>2. /\ u \in Nat /\ w.inode.size \in Nat /\ w.inode.size <= u * BlockSize
      /\ u \in 0..DirectBlocks
  BY <1>1, GoingFile, InodeFields
<1>3. index \in Nat /\ index <= u
  <2>1. w.offset <= u * BlockSize /\ u * BlockSize \in Nat
    <3>1. BlockSize \in Nat
      OBVIOUS
    <3> HIDE DEF u
    <3>2. u * BlockSize \in Nat
      BY <1>2, <3>1
    <3> QED BY <1>1, <1>2, <3>2
  <2> HIDE DEF u
  <2> QED BY <1>1, <1>2, <2>1, IndexIsNext
<1>4. CASE index < u
  <2>1. r = w
    BY <1>4 DEF Ensured
  <2>2. index \in Indices(w.inode)
    BY <1>2, <1>3, <1>4 DEF Indices
  <2> QED BY <2>1, <2>2
<1>5. CASE ~(index < u)
  <2>1. index = u
    BY <1>2, <1>3, <1>5
  <2>2. PICK b \in FreeBit(w.used, NumBlocks) :
          /\ index < DirectBlocks
          /\ r = [w EXCEPT !.inode.direct_blocks[index] = b,
                           !.inode.blocks_used = @ + 1,
                           !.used = @ \cup {b}]
    BY <1>5, Zenon DEF Ensured
  <2>3. b \in Blocks \ w.used
    BY FreeBitIs DEF Blocks
  <2> DEFINE L == Longer(w.inode, b)
  <2>4. /\ L \in Inode
        /\ L.size = w.inode.size
        /\ L.type = w.inode.type
        /\ L.blocks_used = u + 1
        /\ Indices(L) = Indices(w.inode) \cup {u}
    BY <1>1, <2>1, <2>2, <2>3, LongerIs, SMTT(30)
  <2>5. /\ r \in WriteState
        /\ r.inode = L
        /\ r.data = w.data /\ r.used = w.used \cup {b} /\ r.offset = w.offset
    <3> DEFINE i == w.inode
               d == With(i.direct_blocks, index, b)
               i1 == [i EXCEPT !.direct_blocks = d]
               w1 == [w EXCEPT !.inode = i1]
               i2 == [w1.inode EXCEPT !.blocks_used = w1.inode.blocks_used + 1]
               w2 == [w1 EXCEPT !.inode = i2]
               w3 == [w2 EXCEPT !.used = w2.used \cup {b}]
    <3>1. r = w3
      BY <2>2, ZenonT(60) DEF With
    <3>2. L = [i EXCEPT !.blocks_used = i.blocks_used + 1, !.direct_blocks = d]
      BY <2>1 DEF Longer
    <3>3. index \in 0..DirectBlocks - 1 /\ u + 1 \in 0..DirectBlocks
      BY <1>2, <1>3, <2>1, <2>2
    <3>4. d \in [0..DirectBlocks - 1 -> Blocks \cup {INVALID_BLOCK}]
      <4> HIDE DEF i
      <4> HIDE DEF index
      <4> QED BY <1>1, <2>3, <3>3, InodeFields DEF With, i
    <3> HIDE DEF d
    <3>5. i1 \in Inode /\ i1.blocks_used = u
      <4>1. i \in Inode
        BY <1>1
      <4> HIDE DEF i
      <4> QED BY <3>4, <4>1 DEF Inode, i
    <3>6. L = [i1 EXCEPT !.blocks_used = i1.blocks_used + 1]
      <4>1. i \in Inode
        BY <1>1
      <4> HIDE DEF i, L
      <4> QED BY <3>2, <3>4, <4>1 DEF Inode
    <3> HIDE DEF i1
    <3>7. w1 \in WriteState /\ w1.inode = i1 /\ w1.data = w.data /\ w1.used = w.used
          /\ w1.offset = w.offset
      BY <1>1, <3>5 DEF WriteState
    <3>8. i2 = L
      BY <3>6, <3>7
    <3> HIDE DEF w1, i2, L
    <3>9. w2 \in WriteState /\ w2.inode = L /\ w2.data = w.data /\ w2.used = w.used
          /\ w2.offset = w.offset
      BY <2>4, <3>7, <3>8 DEF WriteState
    <3> HIDE DEF w2
    <3>10. w2.used \cup {b} \in SUBSET Blocks
      BY <1>1, <2>3, <3>9
    <3> QED BY <3>1, <3>9, <3>10 DEF WriteState
  <2>6. Sound(inode_bitmap, w.used \cup {b}, With(inodes, file, L), w.data, {})
    <3> DEFINE T == With(inodes, file, w.inode)
    <3>1. /\ T[file] = w.inode
          /\ file \in inode_bitmap \ Directories(inode_bitmap, T)
      BY GoingFile
    <3>2. With(T, file, Longer(T[file], b)) = With(inodes, file, L)
      <4>1. With(T, file, L) = With(inodes, file, L)
        <5> HIDE DEF L
        <5> QED BY <1>1, <2>4, GoingTwice
      <4> QED BY <3>1, <4>1
    <3>3. T[file].blocks_used < DirectBlocks /\ Sound(inode_bitmap, w.used, T, w.data, {})
      BY <1>1, <2>1, <2>2, <3>1
    <3>4. Sound(inode_bitmap, w.used \cup {b}, With(T, file, Longer(T[file], b)), w.data, {})
      <4> HIDE DEF T
      <4> QED BY <2>3, <3>1, <3>3, SoundLongerFile
    <3> QED BY <3>2, <3>4
  <2> HIDE DEF L
  <2>7. r \in Going(file)
    <3>1. \A n \in inode_bitmap \ {file} :
            Untouched(inodes, blocks, With(inodes, file, L), w.data, n)
      BY <1>1, <2>4, OthersUntouched DEF Going
    <3> QED BY <1>1, <2>4, <2>5, <2>6, <3>1 DEF Going
  <2>8. index \in Indices(r.inode)
    BY <2>1, <2>4, <2>5
  <2> QED BY <2>5, <2>7, <2>8
<1> QED BY <1>4, <1>5

\* A turn fills a part of the block, and the file grows to its end.
LEMMA FilledKeeps ==
    ASSUME SoundNow, NEW file \in inode_bitmap, inodes[file].type = "REGULAR",
           NEW w \in Going(file), w.offset \div BlockSize \in Indices(w.inode),
           NEW value \in Values
    PROVE  Filled(w, value) \in Going(file)
<1> DEFINE index == w.offset \div BlockSize
           within == w.offset % BlockSize
           chunk == IF w.left < BlockSize - within THEN w.left ELSE BlockSize - within
           b == w.inode.direct_blocks[index]
           block == Cells(Merged(w.data[b].cells, within..within + chunk - 1, value))
           size == Grown(w.inode.size, w.offset + chunk)
           T == With(inodes, file, w.inode)
           x == Filled(w, value)
           u == w.inode.blocks_used
<1>1. /\ w \in WriteState
      /\ w.inode \in Inode /\ w.data \in Disk /\ w.used \in SUBSET Blocks
      /\ w.order \in Seq({BlockWrite(c) : c \in Blocks})
      /\ w.offset \in Nat /\ w.left \in Nat
      /\ w.inode.type = inodes[file].type
      /\ w.offset <= w.inode.size
      /\ inodes[file].size <= w.inode.size
      /\ Sound(inode_bitmap, w.used, T, w.data, {})
  BY WriteStateFields DEF Going
<1>2. /\ T[file] = w.inode
      /\ file \in inode_bitmap \ Directories(inode_bitmap, T)
      /\ w.inode.size <= u * BlockSize
  BY GoingFile
<1>3. u \in Nat /\ w.inode.size \in Nat /\ inodes[file].size \in Nat
  <2>1. inodes[file] \in Inode
    BY DirectoryFacts
  <2> QED BY <1>1, <2>1, InodeFields
<1>4. /\ index \in Nat /\ within \in 0..BlockSize - 1 /\ index <= u - 1
      /\ w.offset = index * BlockSize + within
  <2>1. w.offset <= u * BlockSize
    <3>1. u * BlockSize \in Nat
      BY <1>3
    <3> HIDE DEF u
    <3> QED BY <1>1, <1>2, <1>3, <3>1
  <2>2. /\ index \in Nat /\ within \in 0..BlockSize - 1
        /\ w.offset = index * BlockSize + within
    <3> HIDE DEF u
    <3> QED BY <1>1, <1>3, <2>1, IndexIsNext
  <2>3. index <= u - 1
    BY DEF Indices
  <2> QED BY <2>2, <2>3
<1>5. chunk \in Nat /\ chunk <= w.left /\ within + chunk <= BlockSize
  <2> HIDE DEF within, index
  <2>1. within \in 0..BlockSize - 1 /\ w.left \in Nat /\ BlockSize \in Nat
    BY <1>1, <1>4
  <2> QED BY <2>1
<1>6. size \in Nat /\ size <= u * BlockSize /\ size >= w.inode.size /\ size >= w.offset + chunk
  <2> HIDE DEF chunk, within, index, u
  <2>1. w.offset + chunk <= (index + 1) * BlockSize
    BY <1>4, <1>5
  <2>2. (index + 1) * BlockSize <= u * BlockSize
    BY <1>3, <1>4
  <2>3. w.offset + chunk <= u * BlockSize
    <3>1. (index + 1) * BlockSize \in Nat /\ u * BlockSize \in Nat
      BY <1>3, <1>4
    <3> QED BY <1>1, <1>5, <2>1, <2>2, <3>1
  <2>4. u * BlockSize \in Nat
    BY <1>3
  <2>5. w.offset + chunk \in Nat /\ w.inode.size \in Nat /\ w.inode.size <= u * BlockSize
    BY <1>1, <1>2, <1>3, <1>5
  <2> QED BY <2>3, <2>4, <2>5 DEF Grown
<1>7. b \in Blocks
  <2>1. \A i \in Indices(T[file]) : T[file].direct_blocks[i] \in Blocks
    <3> HIDE DEF T
    <3> QED BY <1>1, <1>2, PlacesAreAllocated DEF Sound
  <2> QED BY <1>2, <2>1
<1>8. block \in Block
  <2> HIDE DEF b, index, chunk, within
  <2>1. w.data[b] \in Block
    BY <1>1, <1>7 DEF Disk
  <2>2. Merged(w.data[b].cells, within..within + chunk - 1, value)
          \in [0..BlockSize - 1 -> Values \cup {Junk}]
    BY <2>1, BlockFields DEF Merged
  <2> QED BY <2>2, CellsIs
<1>9. x = [w EXCEPT !.data = With(w.data, b, block),
                    !.offset = w.offset + chunk,
                    !.left = w.left - chunk,
                    !.order = Append(w.order, BlockWrite(b)),
                    !.inode = Resized(w.inode, size)]
  BY Zenon DEF Filled, With, Resized
<1>10. With(w.data, b, block) \in Disk
  <2> HIDE DEF b, block
  <2> QED BY <1>1, <1>7, <1>8, DiskWith
<1>11. Resized(w.inode, size) \in Inode /\ Resized(w.inode, size).size = size
       /\ Resized(w.inode, size).type = w.inode.type
  <2> HIDE DEF size
  <2>1. w.inode \in Inode /\ size \in Nat
    BY <1>1, <1>6
  <2> QED BY <2>1, ResizedIs
<1>12. Append(w.order, BlockWrite(b)) \in Seq({BlockWrite(c) : c \in Blocks})
  <2> DEFINE S == {BlockWrite(c) : c \in Blocks}
             y == BlockWrite(b)
  <2>1. y \in S
    BY <1>7
  <2>2. w.order \in Seq(S)
    BY <1>1
  <2> HIDE DEF S, y
  <2>3. Append(w.order, y) \in Seq(S)
    BY <2>1, <2>2
  <2> QED BY <2>3 DEF S, y
<1> HIDE DEF x, b, block, size, chunk, within, index
<1>13. /\ x \in WriteState
       /\ x.inode = Resized(w.inode, size)
       /\ x.data = With(w.data, b, block)
       /\ x.used = w.used
       /\ x.offset = w.offset + chunk
  <2>1. w.offset + chunk \in Nat /\ w.left - chunk \in Nat
    BY <1>1, <1>5
  <2> QED BY <1>1, <1>9, <1>10, <1>11, <1>12, <2>1 DEF WriteState
<1>14. Sound(inode_bitmap, x.used, With(inodes, file, x.inode), x.data, {})
  <2>1. index \in Indices(T[file]) /\ b = T[file].direct_blocks[index]
    BY <1>2 DEF b, index
  <2>2. size <= T[file].blocks_used * BlockSize
    BY <1>2, <1>6
  <2>3. Sound(inode_bitmap, w.used, With(T, file, Resized(T[file], size)),
              With(w.data, T[file].direct_blocks[index], block), {})
    <3> HIDE DEF T, u
    <3> QED BY <1>1, <1>2, <1>6, <1>8, <2>1, <2>2, SoundFilled
  <2>4. With(T, file, Resized(w.inode, size)) = With(inodes, file, Resized(w.inode, size))
    BY <1>1, <1>11, GoingTwice
  <2> QED BY <1>2, <1>13, <2>1, <2>3, <2>4
<1>15. x \in Going(file)
  <2>1. x.inode.size = size /\ x.inode.type = inodes[file].type
    BY <1>1, <1>11, <1>13
  <2>2. x.offset <= size /\ inodes[file].size <= size
    BY <1>1, <1>3, <1>6, <1>13
  <2>3. \A n \in inode_bitmap \ {file} :
          Untouched(inodes, blocks, With(inodes, file, x.inode), x.data, n)
    <3> SUFFICES ASSUME NEW n \in inode_bitmap \ {file}
                 PROVE  Untouched(inodes, blocks, With(inodes, file, x.inode), x.data, n)
      OBVIOUS
    <3>1. Untouched(inodes, blocks, T, w.data, n)
      BY DEF Going
    <3>2. \A i \in Indices(T[n]) : T[n].direct_blocks[i] \in Blocks \ {b}
      <4>1. index \in Indices(T[file]) /\ b = T[file].direct_blocks[index]
        BY <1>2 DEF b, index
      <4> HIDE DEF T
      <4> QED BY <1>1, <1>2, <4>1, PlacesAreAllocated, SMTT(30) DEF Sound, Accounted
    <3>3. \A i \in Indices(inodes[n]) : x.data[inodes[n].direct_blocks[i]]
                                          = w.data[inodes[n].direct_blocks[i]]
      BY <1>1, <1>7, <1>8, <1>13, <3>1, <3>2, DiskWith DEF Untouched
    <3>4. x.inode \in Inode
      BY <1>11, <1>13
    <3> QED BY <1>1, <3>1, <3>3, <3>4, OthersUntouched
  <2> QED BY <1>13, <1>14, <2>1, <2>2, <2>3 DEF Going
<1> QED BY <1>15 DEF x

\* A turn of the loop.
Turn(w, value) ==
    LET room == Ensured(w, w.offset \div BlockSize)
    IN  IF w.left = 0 \/ room = {} THEN w
        ELSE CHOOSE x \in {Filled(r, value) : r \in room} : TRUE

IsLoop(t, start, value) ==
    t = [k \in 0..DirectBlocks + 1 |-> IF k = 0 THEN start ELSE Turn(t[k - 1], value)]

\* A turn of the loop keeps the disk sound, whatever room it finds.
LEMMA TurnKeeps ==
    ASSUME SoundNow, NEW file \in inode_bitmap, inodes[file].type = "REGULAR",
           NEW w \in Going(file), NEW value \in Values
    PROVE  Turn(w, value) \in Going(file)
<1> DEFINE room == Ensured(w, w.offset \div BlockSize)
           filled == {Filled(r, value) : r \in room}
<1>1. filled \subseteq Going(file)
  <2>1. ASSUME NEW r \in room PROVE Filled(r, value) \in Going(file)
    BY EnsuredKeeps, FilledKeeps
  <2> QED BY <2>1
<1>2. CASE w.left = 0 \/ room = {}
  BY <1>2 DEF Turn
<1>3. CASE ~(w.left = 0 \/ room = {})
  <2>1. Turn(w, value) = CHOOSE x \in filled : TRUE
    BY <1>3 DEF Turn
  <2>2. filled # {}
    BY <1>3
  <2> HIDE DEF filled
  <2>3. (CHOOSE x \in filled : TRUE) \in filled
    BY <2>2
  <2> QED BY <1>1, <2>1, <2>3
<1> QED BY <1>2, <1>3

\* The loop of write_file() stays where its turns stay.
LEMMA LoopStays ==
    ASSUME NEW V, NEW start \in V, NEW value, \A w \in V : Turn(w, value) \in V
    PROVE  Written(start, value) \in V
<1> DEFINE n == DirectBlocks + 1
           step == [i \in 1..n |-> [w \in V |-> Turn(w, value)]]
           t == CHOOSE g : IsLoop(g, start, value)
<1>1. n \in Nat
  OBVIOUS
<1>2. \A w \in V : Turn(w, value) \in V
  OBVIOUS
<1>3. step \in [1..n -> [V -> V]]
  BY <1>2
<1>4. \E g : IsLoop(g, start, value)
  <2>1. \A i \in 1..n : \A w \in V : step[i][w] = Turn(w, value)
    OBVIOUS
  <2>2. start \in V
    OBVIOUS
  <2> HIDE DEF n, step
  <2>3. PICK f \in [0..n -> V] : Iterates(f, n, start, step)
    BY <1>1, <1>3, <2>2, IterationExists
  <2>4. ASSUME NEW i \in 0..n
        PROVE  f[i] = IF i = 0 THEN start ELSE Turn(f[i - 1], value)
    <3>1. CASE i = 0
      BY <2>3, <3>1 DEF Iterates
    <3>2. CASE i # 0
      <4>1. i \in 1..n /\ i - 1 \in 0..n
        BY <1>1, <3>2
      <4>2. f[i - 1] \in V
        BY <4>1
      <4> QED BY <2>1, <2>3, <3>2, <4>1, <4>2 DEF Iterates
    <3> QED BY <3>1, <3>2
  <2>5. f = [i \in 0..n |-> IF i = 0 THEN start ELSE Turn(f[i - 1], value)]
    BY <2>4
  <2>6. IsLoop(f, start, value)
    BY <2>5 DEF IsLoop, n
  <2> QED BY <2>6
<1>5. IsLoop(t, start, value)
  <2>1. t = CHOOSE g : IsLoop(g, start, value)
    OBVIOUS
  <2> HIDE DEF t
  <2> QED BY <1>4, <2>1, Zenon
<1>6. Written(start, value) = t[n]
  BY DEF Written, IsLoop, Turn
<1> HIDE DEF t, step
<1>7. t = [i \in 0..n |-> IF i = 0 THEN start ELSE Turn(t[i - 1], value)]
  BY <1>5 DEF IsLoop
<1> HIDE DEF n
<1>8. /\ t[0] = start
      /\ \A i \in 1..n : t[i] = Turn(t[i - 1], value)
  <2>1. 0 \in 0..n /\ \A i \in 1..n : i \in 0..n /\ i # 0
    BY <1>1
  <2>2. \A i \in 0..n : t[i] = IF i = 0 THEN start ELSE Turn(t[i - 1], value)
    BY <1>7, Zenon
  <2> QED BY <2>1, <2>2
<1> DEFINE S == {i \in 0..n : t[i] \in V}
<1>9. 0 \in S
  BY <1>1, <1>8
<1>10. ASSUME NEW i \in 0..n - 1, i \in S
       PROVE  i + 1 \in S
  <2>1. i + 1 \in 1..n /\ i + 1 \in 0..n /\ (i + 1) - 1 = i
    BY <1>1
  <2>2. t[i + 1] = Turn(t[i], value)
    BY <1>8, <2>1
  <2> QED BY <1>2, <1>10, <2>1, <2>2
<1>11. 0..n \subseteq S
  <2> HIDE DEF S
  <2> QED BY <1>1, <1>9, <1>10, InductionUpTo
<1>12. t[n] \in V
  BY <1>1, <1>11
<1> QED BY <1>6, <1>12

\* The whole loop of write_file() keeps the disk sound.
LEMMA WrittenKeeps ==
    ASSUME SoundNow, NEW file \in inode_bitmap, inodes[file].type = "REGULAR",
           NEW start \in Going(file), NEW value \in Values
    PROVE  Written(start, value) \in Going(file)
<1>1. \A w \in Going(file) : Turn(w, value) \in Going(file)
  BY TurnKeeps
<1> QED BY <1>1, LoopStays

\* Writing through a descriptor of a file leaves a sound disk, and a file
\* that is not shorter and reaches to the new offset; other files are spared.
LEMMA WrittenFileIsSound ==
    ASSUME SoundNow, NEW fd, NEW size \in Nat, NEW value \in Values,
           open_files[fd].inode_num \in inode_bitmap,
           inodes[open_files[fd].inode_num].type = "REGULAR",
           open_files[fd].offset \in Nat,
           open_files[fd].offset <= inodes[open_files[fd].inode_num].size,
           NEW w \in WrittenFile(fd, size, value)
    PROVE  LET file == open_files[fd].inode_num
           IN  /\ Fine(w.outcome) /\ Spares(w.outcome, {file})
               /\ w.outcome.inode_bitmap = inode_bitmap
               /\ \A n \in inode_bitmap \ {file} :
                    Untouched(inodes, blocks, w.outcome.inodes, w.outcome.blocks, n)
               /\ w.outcome.inodes[file].type = "REGULAR"
               /\ w.outcome.inodes[file].size >= inodes[file].size
               /\ w.offset \in Nat /\ w.offset <= w.outcome.inodes[file].size
<1> DEFINE file == open_files[fd].inode_num
           start == [inode  |-> inodes[file], data |-> blocks,
                     used   |-> data_bitmap, order |-> <<>>,
                     offset |-> open_files[fd].offset, left |-> size]
           x == Written(start, value)
           o == w.outcome
<1>1. /\ file \in Inodes /\ inodes \in InodeTable /\ inodes[file] \in Inode
      /\ blocks \in Disk /\ data_bitmap \in SUBSET Blocks
      /\ Sound(inode_bitmap, data_bitmap, inodes, blocks, {})
  BY DEF SoundNow, Sound, Typed, InodeTable
<1>2. w = [outcome |-> Outcome(inode_bitmap, x.used, [inodes EXCEPT ![file] = x.inode],
                               x.data, Append(x.order, InodeWrite(file)), TRUE),
           offset  |-> x.offset]
  BY Zenon DEF WrittenFile
<1>3. /\ o.inode_bitmap = inode_bitmap /\ o.data_bitmap = x.used
      /\ o.inodes = With(inodes, file, x.inode) /\ o.blocks = x.data
      /\ w.offset = x.offset
  <2> HIDE DEF x, file
  <2> QED BY <1>2, Zenon DEF Outcome, With
<1>4. start \in Going(file)
  <2>1. <<>> \in Seq({BlockWrite(b) : b \in Blocks})
    OBVIOUS
  <2>2. With(inodes, file, inodes[file]) = inodes
    BY <1>1 DEF With, InodeTable
  <2>3. inodes[file].size \in Nat
    BY <1>1, InodeFields
  <2> HIDE DEF file
  <2>4. start \in WriteState
    BY <1>1, <2>1 DEF WriteState, file
  <2>5. \A n \in inode_bitmap : Untouched(inodes, blocks, inodes, blocks, n)
    BY DEF Untouched, Holds
  <2> QED BY <1>1, <2>2, <2>3, <2>4, <2>5 DEF Going, file
<1>5. x \in Going(file)
  <2> HIDE DEF start
  <2> QED BY <1>4, WrittenKeeps
<1> HIDE DEF x, start
<1>6. /\ x.inode \in Inode /\ x.offset \in Nat
      /\ x.inode.type = inodes[file].type
      /\ x.offset <= x.inode.size
      /\ inodes[file].size <= x.inode.size
      /\ Sound(inode_bitmap, x.used, With(inodes, file, x.inode), x.data, {})
      /\ \A n \in inode_bitmap \ {file} :
           Untouched(inodes, blocks, With(inodes, file, x.inode), x.data, n)
  BY <1>5, WriteStateFields DEF Going
<1>7. /\ With(inodes, file, x.inode)[file] = x.inode
      /\ \A n \in Inodes \ {file} : With(inodes, file, x.inode)[n] = inodes[n]
  <2> HIDE DEF file
  <2> QED BY <1>1, <1>6, TableWith
<1>8. inode_bitmap \subseteq Inodes
  BY DEF SoundNow, Sound, Typed
<1>9. Fine(o)
  BY <1>3, <1>6 DEF Fine
<1>10. Spares(o, {file})
  BY <1>3, <1>7, <1>8 DEF Spares
<1>11. x.inode.size \in Nat /\ inodes[file].size \in Nat
  BY <1>1, <1>6, InodeFields
<1> QED BY <1>3, <1>6, <1>7, <1>9, <1>10, <1>11

-----------------------------------------------------------------------------
(* The file system as a whole.                                              *)

Descriptors ==
    /\ next_fd \in 3..MaxFd + 1
    /\ DOMAIN open_files \subseteq 3..next_fd - 1
    /\ open_files \in [DOMAIN open_files -> [inode_num : Inodes, offset : Nat]]

\* The inductive invariant, where open files are not removed.
Inv ==
    SoundNow /\ NothingIsUnsaved /\ bitmap_dirty \in BOOLEAN /\ Descriptors /\ OpenFilesAreLive

\* The file system starts formatted, without open files.
LEMMA FirstState == Init => Inv
<1> SUFFICES ASSUME Init PROVE Inv
  OBVIOUS
<1> DEFINE junk == Cells([i \in 0..BlockSize - 1 |-> Junk])
           B == [b \in Blocks |-> junk]
<1>1. junk \in Block
  <2>1. [i \in 0..BlockSize - 1 |-> Junk] \in [0..BlockSize - 1 -> Values \cup {Junk}]
    OBVIOUS
  <2> QED BY <2>1, CellsIs
<1>2. blocks = [b \in Blocks |-> IF b = 0 THEN RootBlock ELSE junk]
  BY DEF Init
<1> HIDE DEF junk
<1>3. B \in Disk
  BY <1>1 DEF Disk
<1>4. blocks = With(B, 0, RootBlock)
  BY <1>2 DEF With
<1>5. SoundNow
  <2> HIDE DEF B
  <2>1. Sound({ROOT_INODE}, {0}, FormattedInodes, With(B, 0, RootBlock), {})
    BY <1>3, SoundFormatted
  <2>2. inode_bitmap = {ROOT_INODE} /\ data_bitmap = {0} /\ inodes = FormattedInodes
    BY DEF Init
  <2> QED BY <1>4, <2>1, <2>2 DEF SoundNow
<1>6. NothingIsUnsaved /\ bitmap_dirty \in BOOLEAN
  BY DEF Init, NothingIsUnsaved
<1>7. Descriptors /\ OpenFilesAreLive
  BY DEF Init, Descriptors, OpenFilesAreLive
<1> QED BY <1>5, <1>6, <1>7 DEF Inv

\* An operation with a sound outcome that spares the open files keeps this.
LEMMA CompleteKeeps ==
    ASSUME Inv, NEW o, Complete(o), Fine(o), SavesWhatItChanges(o),
           NEW X, Spares(o, X), \A n \in X : ~IsOpen(n), UNCHANGED files
    PROVE  Inv'
<1>1. SoundNow'
  BY DEF Complete, Fine, SoundNow
<1>2. NothingIsUnsaved'
  BY CompleteSaves DEF Inv
<1>3. bitmap_dirty' \in BOOLEAN
  BY DEF Complete, Save
<1>4. Descriptors'
  BY DEF Inv, Descriptors, files
<1>5. OpenFilesAreLive'
  <2> SUFFICES ASSUME NEW fd \in DOMAIN open_files
               PROVE  LET n == open_files[fd].inode_num
                      IN  /\ n \in inode_bitmap'
                          /\ inodes'[n].type = "REGULAR"
                          /\ open_files[fd].offset <= inodes'[n].size
    BY DEF OpenFilesAreLive, files
  <2> DEFINE n == open_files[fd].inode_num
  <2>1. /\ n \in inode_bitmap /\ inodes[n].type = "REGULAR"
        /\ open_files[fd].offset <= inodes[n].size
    BY DEF Inv, OpenFilesAreLive
  <2>2. n \notin X
    BY DEF IsOpen
  <2>3. n \in o.inode_bitmap /\ o.inodes[n] = inodes[n]
    BY <2>1, <2>2 DEF Spares
  <2> QED BY <2>1, <2>3 DEF Complete
<1> QED BY <1>1, <1>2, <1>3, <1>4, <1>5 DEF Inv

\* The same where only descriptors change.
LEMMA DescriptorsKeep ==
    ASSUME Inv, UNCHANGED <<memory, saved, inodes, blocks>>, Descriptors', OpenFilesAreLive'
    PROVE  Inv'
  BY DEF Inv, SoundNow, NothingIsUnsaved, memory

\* A new descriptor starts at the beginning of a live file.
LEMMA OpenFileKeeps ==
    ASSUME Inv, NEW path \in Paths, OpenFile(path)
    PROVE  Inv'
<1>1. PICK file \in Lookup(path) :
        /\ inodes[file].type = "REGULAR"
        /\ open_files' =
             [fd \in DOMAIN open_files \cup {next_fd} |->
                IF fd = next_fd THEN [inode_num |-> file, offset |-> 0] ELSE open_files[fd]]
  BY DEF OpenFile
<1>2. file \in inode_bitmap /\ file \in Inodes /\ inodes[file] \in Inode
  <2>1. file \in inode_bitmap
    BY <1>1, PathsAre, LookupIsAllocated DEF Inv
  <2> QED BY <2>1, DirectoryFacts DEF Inv
<1>3. next_fd <= MaxFd /\ next_fd' = next_fd + 1
  BY DEF OpenFile
<1>4. UNCHANGED <<memory, saved, inodes, blocks>>
  BY DEF OpenFile
<1>5. [inode_num |-> file, offset |-> 0] \in [inode_num : Inodes, offset : Nat]
  BY <1>2
<1>6. Descriptors'
  <2>1. /\ next_fd \in 3..MaxFd + 1 /\ DOMAIN open_files \subseteq 3..next_fd - 1
        /\ open_files \in [DOMAIN open_files -> [inode_num : Inodes, offset : Nat]]
    BY DEF Inv, Descriptors
  <2>2. DOMAIN open_files' = DOMAIN open_files \cup {next_fd}
    BY <1>1
  <2>3. next_fd' \in 3..MaxFd + 1 /\ DOMAIN open_files' \subseteq 3..next_fd' - 1
    BY <1>3, <2>1, <2>2
  <2>4. open_files' \in [DOMAIN open_files' -> [inode_num : Inodes, offset : Nat]]
    BY <1>1, <1>5, <2>1, <2>2
  <2> QED BY <2>3, <2>4 DEF Descriptors
<1>7. OpenFilesAreLive'
  <2>1. inodes[file].size \in Nat
    BY <1>2, InodeFields
  <2>2. inode_bitmap' = inode_bitmap /\ inodes' = inodes
    BY <1>4 DEF memory
  <2> QED BY <1>1, <1>2, <2>1, <2>2 DEF OpenFilesAreLive, Inv
<1> QED BY <1>4, <1>6, <1>7, DescriptorsKeep

\* The other descriptors stay when one is closed.
LEMMA CloseFileKeeps ==
    ASSUME Inv, NEW fd, CloseFile(fd)
    PROVE  Inv'
<1>1. UNCHANGED <<memory, saved, inodes, blocks>>
  BY DEF CloseFile
<1>2. Descriptors'
  BY DEF CloseFile, Inv, Descriptors
<1>3. OpenFilesAreLive'
  BY DEF CloseFile, Inv, OpenFilesAreLive, memory
<1> QED BY <1>1, <1>2, <1>3, DescriptorsKeep

\* An offset is moved: the descriptors stay as they are.
LEMMA MovedDescriptors ==
    ASSUME Descriptors, NEW fd \in DOMAIN open_files, NEW offset \in Nat,
           open_files' = [open_files EXCEPT ![fd].offset = offset], UNCHANGED next_fd
    PROVE  /\ Descriptors'
           /\ DOMAIN open_files' = DOMAIN open_files
           /\ \A g \in DOMAIN open_files : open_files'[g].inode_num = open_files[g].inode_num
           /\ \A g \in DOMAIN open_files : g # fd => open_files'[g] = open_files[g]
           /\ open_files'[fd].offset = offset
<1> DEFINE R == [inode_num : Inodes, offset : Nat]
           D == DOMAIN open_files
           r == [open_files[fd] EXCEPT !.offset = offset]
<1>1. open_files \in [D -> R] /\ open_files[fd] \in R
  BY DEF Descriptors
<1>2. r \in R /\ r.inode_num = open_files[fd].inode_num /\ r.offset = offset
  BY <1>1
<1>3. open_files' = [open_files EXCEPT ![fd] = r]
  OBVIOUS
<1> HIDE DEF R, r, D
<1>4. open_files' \in [D -> R] /\ \A g \in D : open_files'[g] = IF g = fd THEN r ELSE open_files[g]
  BY <1>1, <1>2, <1>3 DEF D
<1>5. DOMAIN open_files' = D
  BY <1>4
<1>6. Descriptors'
  BY <1>4, <1>5 DEF Descriptors, R, D
<1> QED BY <1>2, <1>4, <1>5, <1>6 DEF D

\* A read does not get past the end of its file.
LEMMA ReadFileKeeps ==
    ASSUME Inv, NEW fd, NEW size \in Nat, ReadFile(fd, size)
    PROVE  Inv'
<1> DEFINE n == open_files[fd].inode_num
           offset == open_files[fd].offset
           inode == inodes[n]
           most == inode.blocks_used * BlockSize
           end == IF inode.size < most THEN inode.size ELSE most
           rest == IF offset < end THEN end - offset ELSE 0
           moved == offset + (IF size < rest THEN size ELSE rest)
<1>1. fd \in DOMAIN open_files
  BY DEF ReadFile
<1>2. /\ n \in inode_bitmap /\ inode.type = "REGULAR" /\ offset <= inode.size
  BY <1>1 DEF Inv, OpenFilesAreLive
<1>3. inode \in Inode /\ offset \in Nat
  BY <1>1, <1>2, DirectoryFacts DEF Inv, Descriptors
<1>4. inode.size \in Nat /\ inode.blocks_used \in Nat
  BY <1>3, InodeFields
<1>5. most \in Nat
  BY <1>4
<1>6. open_files' = [open_files EXCEPT ![fd].offset = moved]
  BY DEF ReadFile
<1>7. moved \in Nat /\ moved <= inode.size
  <2> HIDE DEF most, inode, offset
  <2> QED BY <1>2, <1>3, <1>4, <1>5
<1>8. UNCHANGED <<memory, saved, inodes, blocks, next_fd>>
  BY DEF ReadFile
<1> HIDE DEF moved
<1>9. /\ Descriptors'
      /\ DOMAIN open_files' = DOMAIN open_files
      /\ \A g \in DOMAIN open_files : open_files'[g].inode_num = open_files[g].inode_num
      /\ \A g \in DOMAIN open_files : g # fd => open_files'[g] = open_files[g]
      /\ open_files'[fd].offset = moved
  BY <1>1, <1>6, <1>7, <1>8, MovedDescriptors DEF Inv
<1>10. OpenFilesAreLive'
  BY <1>2, <1>7, <1>8, <1>9 DEF Inv, OpenFilesAreLive, memory
<1> QED BY <1>8, <1>9, <1>10, DescriptorsKeep

\* A write moves its own descriptor, and shrinks no file under another.
LEMMA WriteFileKeeps ==
    ASSUME Inv, NEW fd, NEW size \in Nat, NEW value \in Values, WriteFile(fd, size, value)
    PROVE  Inv'
<1> DEFINE file == open_files[fd].inode_num
<1>1. fd \in DOMAIN open_files /\ UNCHANGED next_fd
  BY DEF WriteFile
<1>2. PICK w \in WrittenFile(fd, size, value) :
        /\ Complete(w.outcome)
        /\ open_files' = [open_files EXCEPT ![fd].offset = w.offset]
  BY DEF WriteFile
<1>3. /\ file \in inode_bitmap /\ inodes[file].type = "REGULAR"
      /\ open_files[fd].offset <= inodes[file].size
  BY <1>1 DEF Inv, OpenFilesAreLive
<1>4. open_files[fd].offset \in Nat
  BY <1>1 DEF Inv, Descriptors
<1> DEFINE o == w.outcome
<1>5. /\ Fine(o) /\ Spares(o, {file})
      /\ file \in o.inode_bitmap /\ o.inode_bitmap = inode_bitmap
      /\ o.inodes[file].type = "REGULAR"
      /\ o.inodes[file].size >= inodes[file].size
      /\ w.offset \in Nat /\ w.offset <= o.inodes[file].size
  BY <1>3, <1>4, WrittenFileIsSound, SMTT(30) DEF Inv
<1>6. o.saves = TRUE
  BY DEF WrittenFile, Outcome
<1> HIDE DEF o
<1>7. SoundNow'
  BY <1>2, <1>5 DEF Complete, Fine, SoundNow, o
<1>8. NothingIsUnsaved'
  <2>1. SavesWhatItChanges(o)
    BY <1>6 DEF SavesWhatItChanges
  <2> QED BY <1>2, <2>1, CompleteSaves DEF Inv, o
<1>9. bitmap_dirty' \in BOOLEAN
  BY <1>2, <1>6 DEF Complete, Save, o
<1>10. /\ Descriptors'
       /\ DOMAIN open_files' = DOMAIN open_files
       /\ \A g \in DOMAIN open_files : open_files'[g].inode_num = open_files[g].inode_num
       /\ \A g \in DOMAIN open_files : g # fd => open_files'[g] = open_files[g]
       /\ open_files'[fd].offset = w.offset
  BY <1>1, <1>2, <1>5, MovedDescriptors DEF Inv
<1>11. OpenFilesAreLive'
  <2>1. inode_bitmap' = o.inode_bitmap /\ inodes' = o.inodes
    BY <1>2 DEF Complete, o
  <2> SUFFICES ASSUME NEW g \in DOMAIN open_files
               PROVE  LET n == open_files'[g].inode_num
                      IN  /\ n \in inode_bitmap'
                          /\ inodes'[n].type = "REGULAR"
                          /\ open_files'[g].offset <= inodes'[n].size
    BY <1>10 DEF OpenFilesAreLive
  <2> DEFINE n == open_files[g].inode_num
  <2>2. /\ n \in inode_bitmap /\ inodes[n].type = "REGULAR"
        /\ open_files[g].offset <= inodes[n].size
    BY DEF Inv, OpenFilesAreLive
  <2>3. open_files'[g].inode_num = n
    BY <1>10
  <2>4. CASE g = fd
    BY <1>5, <1>10, <2>1, <2>3, <2>4
  <2>5. CASE g # fd /\ n = file
    <3>1. open_files'[g] = open_files[g]
      BY <1>10, <2>5
    <3>2. open_files[g].offset \in Nat /\ inodes[file].size \in Nat
      BY <1>3, DirectoryFacts, InodeFields DEF Inv, Descriptors
    <3>3. o.inodes[file].size \in Nat
      <4>1. o.inodes \in InodeTable /\ o.inode_bitmap \subseteq Inodes
        BY <1>5 DEF Fine, Sound, Typed
      <4>2. o.inodes[file] \in Inode
        BY <1>5, <4>1 DEF InodeTable
      <4> QED BY <4>2, InodeFields
    <3>4. open_files[g].offset <= o.inodes[file].size
      BY <1>5, <2>2, <2>5, <3>2, <3>3
    <3> QED BY <1>5, <2>1, <2>3, <2>5, <3>1, <3>4
  <2>6. CASE g # fd /\ n # file
    <3>1. open_files'[g] = open_files[g]
      BY <1>10, <2>6
    <3>2. n \in o.inode_bitmap /\ o.inodes[n] = inodes[n]
      BY <1>5, <2>2, <2>6 DEF Spares
    <3> QED BY <2>1, <2>2, <3>1, <3>2
  <2> QED BY <2>4, <2>5, <2>6
<1> QED BY <1>7, <1>8, <1>9, <1>10, <1>11 DEF Inv

\* Whatever was there, formatting leaves an empty file system.
LEMMA FormatRestores ==
    ASSUME blocks \in Disk, Descriptors, open_files = <<>>, Format
    PROVE  Inv'
<1>1. open_files' = <<>> /\ next_fd' = next_fd
  BY DEF Format, files
<1>2. inode_bitmap' = {ROOT_INODE} /\ data_bitmap' = {0} /\ inodes' = FormattedInodes
  BY DEF Format
<1>3. blocks' = With(blocks, 0, RootBlock)
  BY DEF Format, With
<1>4. SoundNow'
  <2>1. Sound({ROOT_INODE}, {0}, FormattedInodes, With(blocks, 0, RootBlock), {})
    BY SoundFormatted
  <2> QED BY <1>2, <1>3, <2>1 DEF SoundNow
<1>5. NothingIsUnsaved' /\ bitmap_dirty' \in BOOLEAN
  BY DEF Format, Save, NothingIsUnsaved
<1>6. Descriptors' /\ OpenFilesAreLive'
  BY <1>1 DEF Descriptors, OpenFilesAreLive
<1> QED BY <1>4, <1>5, <1>6 DEF Inv

\* Formatting starts over, without open files.
LEMMA FormatKeeps ==
    ASSUME Inv, ~RemovesOpenFiles, Format
    PROVE  Inv'
<1>1. open_files = <<>>
  BY DEF Format
<1>2. blocks \in Disk /\ Descriptors
  BY DEF Inv, SoundNow, Sound, Typed
<1> QED BY <1>1, <1>2, FormatRestores

\* A mount or a restart reads back what memory had, for nothing was unsaved.
LEMMA MountKeeps ==
    ASSUME Inv, Mount
    PROVE  Inv'
<1>1. saved.inodes = inode_bitmap /\ saved.blocks = data_bitmap
  BY DEF Inv, NothingIsUnsaved
<1>2. /\ inode_bitmap' = inode_bitmap /\ data_bitmap' = data_bitmap
      /\ inodes' = inodes /\ blocks' = blocks
      /\ open_files' = open_files /\ next_fd' = next_fd
  BY <1>1 DEF Mount, files
<1>3. SoundNow'
  BY <1>2 DEF Inv, SoundNow
<1>4. NothingIsUnsaved' /\ bitmap_dirty' \in BOOLEAN
  BY DEF Mount, Inv, NothingIsUnsaved
<1>5. Descriptors' /\ OpenFilesAreLive'
  BY <1>2 DEF Inv, Descriptors, OpenFilesAreLive
<1> QED BY <1>3, <1>4, <1>5 DEF Inv

\* After a restart there are no descriptors, and the disk is what it was.
LEMMA RestartKeeps ==
    ASSUME Inv, Restart
    PROVE  Inv'
<1> DEFINE disk == IF bitmap_dirty THEN [inodes |-> inode_bitmap, blocks |-> data_bitmap]
                   ELSE saved
<1>1. disk = [inodes |-> inode_bitmap, blocks |-> data_bitmap]
  BY DEF Inv, NothingIsUnsaved
<1> HIDE DEF disk
<1>2. /\ inode_bitmap' = disk.inodes /\ data_bitmap' = disk.blocks
      /\ saved' = disk /\ superblock' = Counters(disk.inodes, disk.blocks)
      /\ bitmap_dirty' = FALSE /\ open_files' = <<>> /\ next_fd' = 3
      /\ inodes' = inodes /\ blocks' = blocks
  BY DEF Restart, disk
<1>3. SoundNow'
  BY <1>1, <1>2 DEF Inv, SoundNow
<1>4. NothingIsUnsaved' /\ bitmap_dirty' \in BOOLEAN
  BY <1>1, <1>2 DEF NothingIsUnsaved
<1>5. Descriptors' /\ OpenFilesAreLive'
  BY <1>2 DEF Descriptors, OpenFilesAreLive
<1> QED BY <1>3, <1>4, <1>5 DEF Inv

\* Every action keeps the invariant.
LEMMA InvStep ==
    ASSUME ~RemovesOpenFiles, Inv, [Next]_vars
    PROVE  Inv'
<1>1. ASSUME NEW path \in Paths, CreateFile(path) PROVE Inv'
  <2>1. PICK o \in Created(path) : Complete(o)
    BY <1>1 DEF CreateFile
  <2>2. Fine(o) /\ Spares(o, {}) /\ SavesWhatItChanges(o)
    BY CreatedIsSound, CreatedSaves DEF Inv
  <2>3. \A n \in {} : ~IsOpen(n)
    OBVIOUS
  <2> QED BY <1>1, <2>1, <2>2, <2>3, CompleteKeeps DEF CreateFile
<1>2. ASSUME NEW path \in Paths, CreateDirectory(path) PROVE Inv'
  <2>1. PICK o \in MadeDirectory(path) : Complete(o)
    BY <1>2 DEF CreateDirectory
  <2>2. Fine(o) /\ Spares(o, {}) /\ SavesWhatItChanges(o)
    BY MadeDirectoryIsSound, MadeDirectorySaves DEF Inv
  <2>3. \A n \in {} : ~IsOpen(n)
    OBVIOUS
  <2> QED BY <1>2, <2>1, <2>2, <2>3, CompleteKeeps DEF CreateDirectory
<1>3. ASSUME NEW path \in Paths, RemoveFile(path) PROVE Inv'
  <2>1. PICK o \in Removed(path) : Complete(o)
    BY <1>3 DEF RemoveFile
  <2>2. path # <<>> /\ UNCHANGED files
    BY <1>3 DEF RemoveFile
  <2>3. Fine(o) /\ \E file : Removable(file) /\ Spares(o, {file})
    BY <2>2, RemovedIsSound DEF Inv
  <2>4. PICK file : Removable(file) /\ Spares(o, {file})
    BY <2>3
  <2>5. \A n \in {file} : ~IsOpen(n)
    BY <2>4 DEF Removable
  <2>6. SavesWhatItChanges(o)
    <3>1. \E ib, db, table, data, order : o = Outcome(ib, db, table, data, order, TRUE)
      BY Zenon DEF Removed
    <3> QED BY <3>1 DEF Outcome, SavesWhatItChanges
  <2> QED BY <2>1, <2>2, <2>3, <2>4, <2>5, <2>6, CompleteKeeps
<1>4. ASSUME NEW path \in Paths, OpenFile(path) PROVE Inv'
  BY <1>4, OpenFileKeeps
<1>5. ASSUME NEW fd, NEW size \in Sizes, ReadFile(fd, size) PROVE Inv'
  BY <1>5, ReadFileKeeps
<1>6. ASSUME NEW fd, NEW size \in Sizes, NEW value \in Values, WriteFile(fd, size, value)
      PROVE  Inv'
  BY <1>6, WriteFileKeeps
<1>7. ASSUME NEW fd, CloseFile(fd) PROVE Inv'
  BY <1>7, CloseFileKeeps
<1>8. CASE Mount
  BY <1>8, MountKeeps
<1>9. CASE Format
  BY <1>9, FormatKeeps
<1>10. CASE Restart
  BY <1>10, RestartKeeps
<1>11. CASE UNCHANGED vars
  <2>1. UNCHANGED <<memory, saved, inodes, blocks>> /\ UNCHANGED files
    BY <1>11 DEF vars
  <2>2. Descriptors' /\ OpenFilesAreLive'
    BY <2>1 DEF Inv, Descriptors, OpenFilesAreLive, files, memory
  <2> QED BY <2>1, <2>2, DescriptorsKeep
<1> QED BY <1>1, <1>2, <1>3, <1>4, <1>5, <1>6, <1>7, <1>8, <1>9, <1>10, <1>11
        DEF Next, Operation

\* As long as no file is removed or formatted away while it is open, the
\* disk is sound between operations, its bitmaps are saved, and descriptors
\* name live files.
THEOREM InvHolds == ASSUME ~RemovesOpenFiles PROVE Spec => []Inv
<1>1. Init => Inv
  BY FirstState
<1>2. Inv /\ [Next]_vars => Inv'
  BY InvStep
<1> QED BY <1>1, <1>2, PTL DEF Spec

\* In such sessions, also through all failing operations and restarts, a
\* descriptor names a live regular file and is not past its end: no write
\* leaves a hole, and none reaches blocks that were given away.
THEOREM OpenFilesAreAlwaysLive == ASSUME ~RemovesOpenFiles PROVE Spec => []OpenFilesAreLive
<1>1. Inv => OpenFilesAreLive
  BY DEF Inv
<1> QED BY <1>1, InvHolds, PTL

-----------------------------------------------------------------------------
(* What soundness says of the properties.                                   *)

\* What a counter of free space counts stays in bounds.
LEMMA CounterIs ==
    ASSUME NEW n \in Nat, NEW S \in SUBSET (0..n - 1)
    PROVE  n - Cardinality(S) \in 0..n
<1>1. IsFiniteSet(0..n - 1) /\ Cardinality(0..n - 1) = n
  <2>1. Cardinality(0..n - 1) = IF 0 > n - 1 THEN 0 ELSE (n - 1) - 0 + 1
    BY FS_Interval
  <2> QED BY <2>1, FS_Interval
<1>2. IsFiniteSet(S) /\ Cardinality(S) <= n
  <2> DEFINE all == 0..n - 1
  <2>1. IsFiniteSet(all) /\ Cardinality(all) = n /\ S \in SUBSET all
    BY <1>1
  <2> HIDE DEF all
  <2> QED BY <2>1, FS_Subset
<1>3. Cardinality(S) \in Nat
  BY <1>2, FS_CardinalityType
<1> QED BY <1>2, <1>3

\* In such sessions every variable keeps its type: no inode or block number
\* is out of range, and neither counter of free space leaves its bounds.
THEOREM TypeIsCorrect == ASSUME ~RemovesOpenFiles PROVE Spec => []TypeOK
<1>1. ASSUME Inv PROVE TypeOK
  <2>1. /\ inode_bitmap \in SUBSET Inodes /\ data_bitmap \in SUBSET Blocks
        /\ inodes \in [Inodes -> Inode] /\ blocks \in [Blocks -> Block]
    BY <1>1 DEF Inv, SoundNow, Sound, Typed, InodeTable, Disk
  <2>2. saved = [inodes |-> inode_bitmap, blocks |-> data_bitmap]
    BY <1>1 DEF Inv, NothingIsUnsaved
  <2>3. saved \in [inodes : SUBSET Inodes, blocks : SUBSET Blocks]
    BY <2>1, <2>2
  <2>4. superblock \in [free_inodes : 0..NumInodes, free_blocks : 0..NumBlocks]
    <3>1. /\ NumInodes - Cardinality(inode_bitmap) \in 0..NumInodes
          /\ NumBlocks - Cardinality(data_bitmap) \in 0..NumBlocks
      BY <2>1, CounterIs DEF Inodes, Blocks
    <3>2. superblock = Counters(inode_bitmap, data_bitmap)
      BY <1>1 DEF Inv, NothingIsUnsaved
    <3> QED BY <3>1, <3>2 DEF Counters
  <2> QED BY <1>1, <2>1, <2>3, <2>4 DEF TypeOK, Inv, Descriptors
<1>2. Inv => TypeOK
  BY <1>1
<1> QED BY <1>2, InvHolds, PTL

\* The invariant says so of blocks.
LEMMA InvAccounts ==
    ASSUME Inv
    PROVE  BlocksAreAccounted
<1>1. Accounted(inode_bitmap, data_bitmap, inodes)
  BY DEF Inv, SoundNow, Sound
<1> DEFINE named == UNION {{inodes[n].direct_blocks[i] : i \in 0..inodes[n].blocks_used - 1} :
                             n \in inode_bitmap}
<1>2. named \subseteq data_bitmap
  BY <1>1 DEF Accounted, Indices
<1>3. data_bitmap \subseteq named
  <2> SUFFICES ASSUME NEW b \in data_bitmap PROVE b \in named
    OBVIOUS
  <2>1. PICK n \in inode_bitmap : \E i \in Indices(inodes[n]) : inodes[n].direct_blocks[i] = b
    BY <1>1 DEF Accounted
  <2> QED BY <2>1 DEF Indices
<1>4. \A m, n \in inode_bitmap :
        \A i \in 0..inodes[m].blocks_used - 1, j \in 0..inodes[n].blocks_used - 1 :
          inodes[m].direct_blocks[i] = inodes[n].direct_blocks[j] => m = n /\ i = j
  BY <1>1 DEF Accounted, Indices
<1> QED BY <1>2, <1>3, <1>4 DEF BlocksAreAccounted

\* In such sessions a block is allocated iff one allocated inode names it,
\* at one index: no block leaks, and none is shared by two files.
THEOREM BlocksAreAlwaysAccounted ==
    ASSUME ~RemovesOpenFiles PROVE Spec => []BlocksAreAccounted
<1>1. Inv => BlocksAreAccounted
  BY InvAccounts
<1> QED BY <1>1, InvHolds, PTL

\* The links found by position are those found by place.
LEMMA LinksAre ==
    ASSUME SoundNow
    PROVE  /\ \A l \in Links :
                /\ l = <<l[1], l[2]>>
                /\ l[1] \in Directories(inode_bitmap, inodes)
                /\ l[2] \in Positions(l[1])
                /\ PlaceOf(l[2]) \in LinksOf(inodes, blocks, l[1])
                /\ EntryAt(l[1], l[2]) = At(inodes, blocks, l[1], PlaceOf(l[2]))
           /\ \A n \in Directories(inode_bitmap, inodes) : \A s \in LinksOf(inodes, blocks, n) :
                \E k : <<n, k>> \in Links /\ EntryAt(n, k) = At(inodes, blocks, n, s)
<1> DEFINE D == Directories(inode_bitmap, inodes)
<1>1. \A n \in D : n \in inode_bitmap /\ inodes[n] \in Inode /\ inodes[n].type = "DIRECTORY"
  BY DirectoryFacts DEF Directories
<1>2. Links = UNION {{<<dir, k>> : k \in {k \in Used(dir) : EntryAt(dir, k).name \in Names}} :
                       dir \in D}
  BY DEF Links, Directories
<1>3. Headed(inode_bitmap, inodes, blocks)
  BY DEF SoundNow, Sound, Tree
<1> HIDE DEF D
<1>4. ASSUME NEW l \in Links
      PROVE  /\ l = <<l[1], l[2]>> /\ l[1] \in D
             /\ l[2] \in Positions(l[1])
             /\ PlaceOf(l[2]) \in LinksOf(inodes, blocks, l[1])
             /\ EntryAt(l[1], l[2]) = At(inodes, blocks, l[1], PlaceOf(l[2]))
  <2>1. PICK n, k : /\ n \in D /\ k \in Used(n) /\ EntryAt(n, k).name \in Names
                    /\ l = <<n, k>>
    BY <1>2
  <2>2. /\ k \in Positions(n)
        /\ PlaceOf(k) \in Taken(inodes, blocks, n)
        /\ EntryAt(n, k) = At(inodes, blocks, n, PlaceOf(k))
    BY <1>1, <2>1, UsedIsTaken, PositionsArePlaces
  <2>3. /\ At(inodes, blocks, n, <<0, 0>>).name = Dot
        /\ At(inodes, blocks, n, <<0, 1>>).name = DotDot
    BY <1>3, <2>1, EntryIs DEF Headed, D
  <2>4. PlaceOf(k) \notin Heads
    BY <2>1, <2>2, <2>3, Numbers DEF Heads
  <2> QED BY <2>1, <2>2, <2>4 DEF LinksOf
<1>5. ASSUME NEW n \in D, NEW s \in LinksOf(inodes, blocks, n)
      PROVE  \E k : <<n, k>> \in Links /\ EntryAt(n, k) = At(inodes, blocks, n, s)
  <2>1. s \in Taken(inodes, blocks, n) /\ At(inodes, blocks, n, s).name \in Names
    BY <1>3, <1>5 DEF LinksOf, Headed, D
  <2>2. PICK k \in Positions(n) : PlaceOf(k) = s
    BY <1>1, <2>1, PositionsArePlaces DEF Taken
  <2>3. k \in Used(n) /\ EntryAt(n, k) = At(inodes, blocks, n, s)
    BY <1>1, <2>1, <2>2, PositionsArePlaces, UsedIsTaken
  <2> QED BY <1>2, <2>1, <2>3
<1> QED BY <1>4, <1>5 DEF D

\* A directory has as many entries by position as by place.
LEMMA UsedAreCounted ==
    ASSUME SoundNow, NEW dir \in Directories(inode_bitmap, inodes)
    PROVE  inodes[dir].size = Cardinality(Used(dir))
<1>1. dir \in inode_bitmap /\ dir \in Inodes /\ inodes[dir] \in Inode /\ inodes \in InodeTable
  BY DirectoryFacts DEF Directories, SoundNow, Sound, Typed
<1> DEFINE S == Used(dir)
           U == Taken(inodes, blocks, dir)
           f == [k \in S |-> PlaceOf(k)]
<1>2. \A k \in S : PlaceOf(k) \in U
  BY <1>1, UsedIsTaken
<1>3. \A k, l \in S : PlaceOf(k) = PlaceOf(l) => k = l
  BY <1>1, UsedIsTaken, PositionsArePlaces
<1>4. ASSUME NEW s \in U PROVE \E k \in S : PlaceOf(k) = s
  <2>1. PICK k \in Positions(dir) : PlaceOf(k) = s
    BY <1>1, PositionsArePlaces DEF Taken
  <2> QED BY <1>1, <2>1, UsedIsTaken
<1> HIDE DEF S, U
<1>5. f \in Bijection(S, U)
  <2>1. f \in [S -> U] /\ \A k \in S : f[k] = PlaceOf(k)
    BY <1>2
  <2> HIDE DEF f
  <2>2. f \in Injection(S, U)
    BY <1>3, <2>1 DEF Injection, IsInjective
  <2>3. f \in Surjection(S, U)
    BY <1>4, <2>1 DEF Surjection
  <2> QED BY <2>2, <2>3 DEF Bijection
<1>6. IsFiniteSet(S)
  <2>1. /\ Positions(dir) \subseteq 0..(inodes[dir].blocks_used * Slots)
        /\ inodes[dir].blocks_used * Slots \in Nat /\ S \subseteq Positions(dir)
    BY <1>1, PositionsArePlaces, UsedIsTaken DEF S
  <2> DEFINE n == inodes[dir].blocks_used * Slots
  <2>2. IsFiniteSet(0..n)
    <3> HIDE DEF n
    <3> QED BY FS_Interval, <2>1 DEF n
  <2>3. S \subseteq 0..n
    BY <2>1
  <2> QED BY <2>2, <2>3, FS_Subset
<1>7. Cardinality(S) = Cardinality(U)
  <2>1. ExistsBijection(S, U)
    BY <1>5 DEF ExistsBijection
  <2> QED BY <1>6, <2>1, FS_Bijection
<1>8. inodes[dir].size = Cardinality(U)
  BY DEF SoundNow, Sound, Tree, Headed, U
<1> QED BY <1>7, <1>8 DEF S

\* The invariant says so of directories.
LEMMA InvIsATree ==
    ASSUME Inv
    PROVE  DirectoriesAreATree
<1> DEFINE D == Directories(inode_bitmap, inodes)
           Place(l) == PlaceOf(l[2])
           Leads(l) == EntryAt(l[1], l[2]).inode_num
           Under(l) == EntryAt(l[1], l[2]).name
<1>1. SoundNow
  BY DEF Inv
<1>2. /\ Headed(inode_bitmap, inodes, blocks) /\ Rooted(inode_bitmap, inodes, blocks, {})
      /\ Linked(inode_bitmap, inodes, blocks, {}) /\ Unique(inode_bitmap, inodes, blocks)
      /\ Grounded(inode_bitmap, inodes, blocks, {})
  BY <1>1 DEF SoundNow, Sound, Tree
<1>3. \A l \in Links :
        /\ l = <<l[1], l[2]>> /\ l[1] \in D /\ l[2] \in Positions(l[1])
        /\ Place(l) \in LinksOf(inodes, blocks, l[1])
        /\ Leads(l) = At(inodes, blocks, l[1], Place(l)).inode_num
        /\ Under(l) = At(inodes, blocks, l[1], Place(l)).name
  BY <1>1, LinksAre
<1>4. \A n \in D : \A s \in LinksOf(inodes, blocks, n) :
        \E k : <<n, k>> \in Links /\ EntryAt(n, k) = At(inodes, blocks, n, s)
  BY <1>1, LinksAre
<1>5. inode_bitmap = {ROOT_INODE} \cup {EntryAt(l[1], l[2]).inode_num : l \in Links}
  <2>1. ROOT_INODE \in inode_bitmap
    BY <1>2 DEF Rooted, Directories
  <2>2. \A l \in Links : Leads(l) \in inode_bitmap
    BY <1>2, <1>3 DEF Linked
  <2>3. ASSUME NEW c \in inode_bitmap, c # ROOT_INODE
        PROVE  \E l \in Links : Leads(l) = c
    <3>1. PICK n \in D : \E s \in LinksOf(inodes, blocks, n) : At(inodes, blocks, n, s).inode_num = c
      BY <1>2, <2>3 DEF Linked
    <3>2. PICK s \in LinksOf(inodes, blocks, n) : At(inodes, blocks, n, s).inode_num = c
      BY <3>1
    <3>3. PICK k : <<n, k>> \in Links /\ EntryAt(n, k) = At(inodes, blocks, n, s)
      BY <1>4
    <3> QED BY <3>2, <3>3
  <2> QED BY <2>1, <2>2, <2>3
<1>6. ASSUME NEW l \in Links, NEW m \in Links,
             \/ Leads(l) = Leads(m)
             \/ l[1] = m[1] /\ Under(l) = Under(m)
      PROVE  l = m
  <2>1. l[1] = m[1] /\ Place(l) = Place(m)
    BY <1>2, <1>3, <1>6 DEF Unique
  <2>2. inodes[l[1]] \in Inode
    BY <1>1, <1>3, DirectoryFacts DEF Directories
  <2>3. l[2] = m[2]
    BY <1>3, <2>1, <2>2, PositionsArePlaces
  <2> QED BY <1>3, <2>1, <2>3
<1>7. ASSUME NEW l \in Links
      PROVE  LET child == EntryAt(l[1], l[2]).inode_num
             IN  /\ child # ROOT_INODE
                 /\ inodes[child].type = "DIRECTORY" =>
                      LookupIn(child, DotDot) = {l[1]} /\ LookupIn(child, Dot) = {child}
  <2> DEFINE child == Leads(l)
  <2>1. child \in inode_bitmap \ {ROOT_INODE}
    BY <1>2, <1>3 DEF Linked
  <2>2. ASSUME inodes[child].type = "DIRECTORY"
        PROVE  LookupIn(child, DotDot) = {l[1]} /\ LookupIn(child, Dot) = {child}
    <3>1. child \in D
      BY <2>1, <2>2 DEF Directories
    <3>2. At(inodes, blocks, child, <<0, 1>>) = Entry(DotDot, l[1])
      BY <1>2, <1>3, <3>1 DEF Linked
    <3>3. At(inodes, blocks, child, <<0, 0>>) = Entry(Dot, child)
      BY <1>2, <3>1 DEF Headed
    <3>4. <<0, 0>> \in Heads /\ <<0, 1>> \in Heads
      BY DEF Heads
    <3> HIDE DEF child, D
    <3>5. LookupIn(child, DotDot) = {l[1]}
      BY <1>1, <3>1, <3>2, <3>4, EntryIs, HeadIsFound DEF D
    <3>6. LookupIn(child, Dot) = {child}
      BY <1>1, <3>1, <3>3, <3>4, EntryIs, HeadIsFound DEF D
    <3> QED BY <3>5, <3>6
  <2> QED BY <2>1, <2>2
<1>8. \A n \in inode_bitmap : inodes[n].type = "DIRECTORY" =>
        inodes[n].size = Cardinality(Used(n))
  BY <1>1, UsedAreCounted DEF Directories
<1>9. ASSUME NEW S \in SUBSET (inode_bitmap \ {ROOT_INODE}), S # {}
      PROVE  \E l \in Links : l[1] \notin S /\ Leads(l) \in S
  <2>1. PICK n \in D \ S : \E s \in LinksOf(inodes, blocks, n) :
          At(inodes, blocks, n, s).inode_num \in S
    BY <1>2, <1>9 DEF Grounded
  <2>2. PICK s \in LinksOf(inodes, blocks, n) : At(inodes, blocks, n, s).inode_num \in S
    BY <2>1
  <2>3. PICK k : <<n, k>> \in Links /\ EntryAt(n, k) = At(inodes, blocks, n, s)
    BY <1>4, <2>1
  <2> QED BY <2>1, <2>2, <2>3
<1> QED BY <1>5, <1>6, <1>7, <1>8, <1>9 DEF DirectoriesAreATree

\* In such sessions the directories are a tree of exactly the allocated
\* inodes: nothing is cut off from the root, no two entries name one inode or
\* one name in a directory, ".." leads back, and sizes count the entries.
THEOREM DirectoriesAreAlwaysATree ==
    ASSUME ~RemovesOpenFiles PROVE Spec => []DirectoriesAreATree
<1>1. Inv => DirectoriesAreATree
  BY InvIsATree
<1> QED BY <1>1, InvHolds, PTL
=============================================================================
