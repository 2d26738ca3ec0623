---------------------- MODULE CrashingFileSystemProofs ----------------------
(***************************************************************************)
(* What a crash can leave.  Between the writes of an operation the disk    *)
(* has the shape it had before, or the shape it will have, up to the size  *)
(* of one directory and the cells of one file: there is one write that     *)
(* takes it from the one to the other.  The bitmaps on the disk are right  *)
(* about everything but what the operation allocates or frees.             *)
(***************************************************************************)
EXTENDS CrashingFileSystem, FileStoreProofs

USE FileSystemAssumption

-----------------------------------------------------------------------------
(* What the shape of the disk depends on.                                   *)

\* The inodes in ib are the same in T2 and B2, but for the sizes of directories
\* and the cells of files.
Like(ib, T, B, T2, B2) ==
    \A n \in ib :
        /\ T2[n].type = T[n].type
        /\ T2[n].blocks_used = T[n].blocks_used
        /\ \A i \in Indices(T[n]) : T2[n].direct_blocks[i] = T[n].direct_blocks[i]
        /\ IF T[n].type = "DIRECTORY" THEN Holds(T, B, T2, B2, n) ELSE T2[n].size = T[n].size

\* Directories that are alike have the same entries.
LEMMA LikeEntries ==
    ASSUME NEW ib, NEW T, NEW B, NEW T2, NEW B2, Like(ib, T, B, T2, B2), Begun(ib, T, B),
           ib \in SUBSET Inodes, T \in InodeTable, NEW n \in Directories(ib, T)
    PROVE  /\ LinksOf(T2, B2, n) = LinksOf(T, B, n)
           /\ \A s \in LinksOf(T, B, n) \cup Heads : At(T2, B2, n, s) = At(T, B, n, s)
<1>1. Indices(T2[n]) = Indices(T[n]) /\ Holds(T, B, T2, B2, n)
  BY DEF Like, Directories, Indices
<1>2. Places(T2[n]) = Places(T[n])
  BY <1>1 DEF Places
<1>3. \A s \in Places(T[n]) : At(T2, B2, n, s) = At(T, B, n, s)
  BY <1>1, SameEntries
<1>4. Taken(T2, B2, n) = Taken(T, B, n)
  BY <1>2, <1>3 DEF Taken
<1>5. Taken(T, B, n) \subseteq Places(T[n]) /\ Heads \subseteq Taken(T, B, n)
  BY HeadsAreTaken DEF Taken
<1> QED BY <1>3, <1>4, <1>5 DEF LinksOf

\* The shape of the disk does not depend on the sizes of directories, on the
\* cells of files, and on what is not allocated.
LEMMA LikeIsShaped ==
    ASSUME NEW ib, NEW db, NEW T, NEW B, Shaped(ib, db, T, B),
           NEW T2 \in InodeTable, NEW B2 \in Disk, Like(ib, T, B, T2, B2)
    PROVE  /\ Shaped(ib, db, T2, B2)
           /\ Nested(ib, T2, B2) = Nested(ib, T, B)
<1> DEFINE D == Directories(ib, T)
<1>1. Directories(ib, T2) = D
  BY DEF Directories, Like
<1>2. ASSUME NEW n \in D
      PROVE  /\ LinksOf(T2, B2, n) = LinksOf(T, B, n)
             /\ \A s \in LinksOf(T, B, n) : At(T2, B2, n, s) = At(T, B, n, s)
             /\ At(T2, B2, n, <<0, 0>>) = At(T, B, n, <<0, 0>>)
             /\ At(T2, B2, n, <<0, 1>>) = At(T, B, n, <<0, 1>>)
  BY LikeEntries DEF Shaped, Typed, Heads
<1>3. Typed(ib, db, T2, B2)
  BY DEF Shaped, Typed
<1>4. Accounted(ib, db, T2)
  BY AccountedSame DEF Shaped, Like, Indices
<1>5. Covered(ib, T2)
  BY <1>1 DEF Shaped, Covered, Like, Directories
<1>6. Begun(ib, T2, B2)
  BY <1>1, <1>2 DEF Shaped, Begun, Like, Directories
<1>7. Rooted(ib, T2, B2, {})
  BY <1>1, <1>2 DEF Shaped, Rooted
<1>8. Linked(ib, T2, B2, {})
  BY <1>1, <1>2 DEF Shaped, Linked
<1>9. Unique(ib, T2, B2)
  BY <1>1, <1>2 DEF Shaped, Unique
<1>10. Grounded(ib, T2, B2, {})
  BY <1>1, <1>2 DEF Shaped, Grounded
<1>11. \A n \in ib : T2[n].type = T[n].type
  BY DEF Like
<1>12. \A n \in D : Listing(T2, B2, n) = Listing(T, B, n)
  BY <1>2 DEF Listing
<1>13. Nested(ib, T2, B2) = Nested(ib, T, B)
  BY <1>11, <1>12 DEF Nested, Directories
<1> QED BY <1>3, <1>4, <1>5, <1>6, <1>7, <1>8, <1>9, <1>10, <1>13 DEF Shaped

\* The same of a sound disk.
LEMMA LikeSoundIsShaped ==
    ASSUME NEW ib, NEW db, NEW T, NEW B, Sound(ib, db, T, B, {}),
           NEW T2 \in InodeTable, NEW B2 \in Disk, Like(ib, T, B, T2, B2)
    PROVE  /\ Shaped(ib, db, T2, B2)
           /\ Nested(ib, T2, B2) = Nested(ib, T, B)
BY SoundIsShaped, LikeIsShaped

-----------------------------------------------------------------------------
(* The order in which the operations on names write.                        *)

\* Of an operation on names `early' are the writes to free inodes and blocks;
\* then an entry is written to block c, and the inode of directory dir, which
\* differs only in its size unless the block is new to it.
Commits(o, early, dir, c) ==
    /\ o.order = early \o AddOrder(dir, c)
    /\ dir \in Directories(inode_bitmap, inodes) /\ c \in Blocks
    /\ \A i \in 1..Len(early) :
         \/ \E n \in Inodes \ inode_bitmap : early[i] = InodeWrite(n)
         \/ \E b \in Blocks \ data_bitmap : early[i] = BlockWrite(b)
    /\ \A n \in Inodes : \/ n = dir \/ o.inodes[n] = inodes[n]
                          \/ \E i \in 1..Len(early) : early[i] = InodeWrite(n)
    /\ \A b \in Blocks : \/ b = c \/ o.blocks[b] = blocks[b]
                          \/ \E i \in 1..Len(early) : early[i] = BlockWrite(b)
    /\ c \in data_bitmap => \E size \in Nat : o.inodes[dir] = Resized(inodes[dir], size)
    /\ o.inodes[dir].direct_blocks[0] = inodes[dir].direct_blocks[0]

Writes == {InodeWrite(n) : n \in Inodes} \cup {BlockWrite(b) : b \in Blocks}

OfNames(o) ==
    /\ o.order \in Seq(Writes)
    /\ \/ ChangesNothing(o)
       \/ \E early \in Seq(Writes) : \E dir, c : Commits(o, early, dir, c)

\* What add_directory_entry() leaves when it writes to block c of disk B.
EntryGoesTo(a, dir, B, c) ==
    /\ a.order = AddOrder(dir, c)
    /\ \A b \in Blocks : b # c => a.blocks[b] = B[b]
    /\ c \in data_bitmap => a.inodes[dir] = Resized(inodes[dir], inodes[dir].size + 1)
    /\ a.inodes[dir].direct_blocks[0] = inodes[dir].direct_blocks[0]

\* An entry is added in a block of the directory, or in a new one; the first
\* block of the directory stays.
LEMMA AddedIs ==
    ASSUME SoundNow, NEW dir \in Directories(inode_bitmap, inodes), NEW entry,
           NEW used, data_bitmap \subseteq used, NEW T \in InodeTable, T[dir] = inodes[dir],
           NEW B \in Disk, NEW a \in Added(dir, entry, used, T, B)
    PROVE  \E c \in Blocks : EntryGoesTo(a, dir, B, c)
<1> DEFINE free == Positions(dir) \ Used(dir)
<1>1. dir \in Inodes /\ inodes[dir] \in Inode /\ dir \in inode_bitmap
  BY DirectoryFacts DEF Directories
<1>2. CASE free # {}
  <2>1. PICK k \in Firsts(free) :
          a = [inodes |-> [T EXCEPT ![dir].size = @ + 1],
               blocks |-> [B EXCEPT ![T[dir].direct_blocks[k \div Slots]].entries[k % Slots]
                                    = entry],
               taken  |-> {},
               order  |-> AddOrder(dir, T[dir].direct_blocks[k \div Slots])]
    BY <1>2, Zenon DEF Added
  <2> DEFINE c == inodes[dir].direct_blocks[k \div Slots]
  <2>2. k \in Positions(dir)
    BY DEF Firsts
  <2>3. PlaceOf(k) \in Places(inodes[dir])
    BY <1>1, <2>2, PositionsArePlaces
  <2>4. c \in Blocks
    BY <1>1, <2>3, PlacesAreAllocated DEF PlaceOf, SoundNow, Sound
  <2>5. a.order = AddOrder(dir, c)
    BY <2>1
  <2>6. a.blocks = [B EXCEPT ![c].entries[k % Slots] = entry]
    BY <2>1
  <2>7. \A b \in Blocks : b # c => a.blocks[b] = B[b]
    <3> HIDE DEF c
    <3> QED BY <2>6 DEF Disk
  <2>8. a.inodes = [T EXCEPT ![dir].size = @ + 1]
    BY <2>1
  <2>9. a.inodes[dir] = Resized(inodes[dir], inodes[dir].size + 1)
    BY <1>1, <2>8 DEF InodeTable, Resized
  <2>10. a.inodes[dir].direct_blocks = inodes[dir].direct_blocks
    BY <1>1, <2>9 DEF Resized, Inode
  <2> QED BY <2>4, <2>5, <2>7, <2>9, <2>10 DEF EntryGoesTo
<1>3. CASE free = {}
  <2>1. PICK b \in FreeBit(used, NumBlocks) :
          a = [inodes |-> DirectoryGrown(T, dir, b),
               blocks |-> [B EXCEPT ![b] = NewDirectoryBlock(entry, FreeEntry)],
               taken  |-> {b},
               order  |-> AddOrder(dir, b)]
    BY <1>3, Zenon DEF Added, DirectoryGrown
  <2>2. b \in Blocks \ data_bitmap
    BY FreeBitIs DEF Blocks
  <2>3. a.order = AddOrder(dir, b) /\ a.inodes = DirectoryGrown(T, dir, b)
    BY <2>1
  <2>4. \A c \in Blocks : c # b => a.blocks[c] = B[c]
    BY <2>1 DEF Disk
  <2>5. inodes[dir].blocks_used > 0 /\ inodes[dir].blocks_used \in Nat
    BY <1>1, InodeFields DEF SoundNow, Sound, Tree, Headed
  <2>6. a.inodes[dir].direct_blocks[0] = inodes[dir].direct_blocks[0]
    <3>1. a.inodes[dir].direct_blocks
            = [inodes[dir].direct_blocks EXCEPT ![inodes[dir].blocks_used] = b]
      BY <1>1, <2>3 DEF DirectoryGrown, InodeTable, Inode
    <3>2. inodes[dir].direct_blocks \in [0..DirectBlocks - 1 -> Blocks \cup {INVALID_BLOCK}]
      BY <1>1, InodeFields
    <3> QED BY <2>5, <3>1, <3>2, Numbers
  <2> QED BY <2>2, <2>3, <2>4, <2>6 DEF EntryGoesTo
<1> QED BY <1>2, <1>3

\* Writes of different inodes or blocks are different.
LEMMA WritesDiffer ==
    /\ \A m, n : InodeWrite(m) # BlockWrite(n)
    /\ \A m, n : InodeWrite(m) = InodeWrite(n) => m = n
    /\ \A m, n : BlockWrite(m) = BlockWrite(n) => m = n
    /\ \A n : InodeWrite(n) \notin {InodeBits, DataBits}
    /\ \A n : BlockWrite(n) \notin {InodeBits, DataBits}
BY DEF InodeWrite, BlockWrite, InodeBits, DataBits

\* The end of a creation after the early writes.
LEMMA FinishedCommits ==
    ASSUME SoundNow, NEW path \in Paths, NEW parent, CanAdd(path, parent),
           NEW new \in Inodes \ inode_bitmap, NEW used, data_bitmap \subseteq used,
           NEW table \in InodeTable, NEW data \in Disk, NEW early \in Seq(Writes),
           \A i \in 1..Len(early) : \/ early[i] = InodeWrite(new)
                                   \/ \E b \in Blocks \ data_bitmap : early[i] = BlockWrite(b),
           \E i \in 1..Len(early) : early[i] = InodeWrite(new),
           \A n \in Inodes : n # new => table[n] = inodes[n],
           \A b \in Blocks : data[b] = blocks[b] \/ \E i \in 1..Len(early) : early[i] = BlockWrite(b),
           NEW o \in Finished(path, parent, new, used, table, data, early)
    PROVE  OfNames(o)
<1> DEFINE added == Added(parent, Entry(Name(path), new), used, table, data)
<1>1. inode_bitmap \subseteq Inodes /\ data_bitmap \subseteq Blocks
  BY DEF SoundNow, Sound, Typed
<1>2. parent \in Directories(inode_bitmap, inodes) /\ parent \in Inodes
  BY <1>1, CanAddFacts DEF Directories
<1>3. CASE added = {}
  <2>1. o = Outcome(inode_bitmap, data_bitmap, table, data, early, FALSE)
    BY <1>3, Zenon DEF Finished
  <2>2. /\ o.inode_bitmap = inode_bitmap /\ o.inodes = table /\ o.blocks = data
        /\ o.order = early
    BY <2>1 DEF Outcome
  <2>3. \A b \in data_bitmap : data[b] = blocks[b]
    BY <1>1, WritesDiffer
  <2>4. ASSUME NEW n \in inode_bitmap
        PROVE  Untouched(inodes, blocks, table, data, n)
    <3>1. \A i \in Indices(inodes[n]) : inodes[n].direct_blocks[i] \in data_bitmap
      BY PlacesAreAllocated DEF SoundNow, Sound
    <3>2. table[n] = inodes[n]
      BY <1>1
    <3> QED BY <2>3, <3>1, <3>2 DEF Untouched, Holds
  <2> QED BY <2>2, <2>4 DEF ChangesNothing, OfNames
<1>4. CASE added # {}
  <2>1. PICK a \in added :
          o = Outcome(inode_bitmap \cup {new}, used \cup a.taken,
                      a.inodes, a.blocks, early \o a.order, TRUE)
    BY <1>4, Zenon DEF Finished
  <2>2. table[parent] = inodes[parent]
    BY <1>2 DEF Directories
  <2>3. PICK c \in Blocks :
             /\ a.order = AddOrder(parent, c)
             /\ \A b \in Blocks : b # c => a.blocks[b] = data[b]
             /\ c \in data_bitmap => a.inodes[parent] = Resized(inodes[parent], inodes[parent].size + 1)
             /\ a.inodes[parent].direct_blocks[0] = inodes[parent].direct_blocks[0]
    <3>1. \E c \in Blocks : EntryGoesTo(a, parent, data, c)
      BY <1>2, <2>2, AddedIs
    <3> QED BY <3>1 DEF EntryGoesTo
  <2>4. o.inodes = a.inodes /\ o.blocks = a.blocks /\ o.order = early \o AddOrder(parent, c)
    BY <2>1, <2>3 DEF Outcome
  <2>5. inodes[parent].size + 1 \in Nat
    BY <1>1, <1>2, DirectoryFacts, InodeFields DEF Directories
  <2>6. \A n \in Inodes \ {parent} : a.inodes[n] = table[n]
    BY AddedSpares
  <2>7. Commits(o, early, parent, c)
    BY <1>2, <2>3, <2>4, <2>5, <2>6 DEF Commits
  <2>8. AddOrder(parent, c) \in Seq(Writes)
    BY <1>2, <2>3 DEF AddOrder, Writes
  <2>9. o.order \in Seq(Writes)
    BY <2>4, <2>8
  <2> QED BY <2>7, <2>9 DEF OfNames
<1> QED BY <1>3, <1>4

\* create_file() writes the inode, then the entry.
LEMMA CreatedCommits ==
    ASSUME SoundNow, NEW path \in Paths, NEW o \in Created(path)
    PROVE  OfNames(o)
<1>1. PICK at \in Placements(path) :
        o \in Finished(path, at[1], at[2], data_bitmap,
                       [inodes EXCEPT ![at[2]] = NewInode("REGULAR")], blocks,
                       <<InodeWrite(at[2])>>)
  BY DEF Created
<1> DEFINE parent == at[1]
           new == at[2]
           table == With(inodes, new, NewInode("REGULAR"))
           early == <<InodeWrite(new)>>
<1>2. CanAdd(path, parent) /\ new \in FreeBit(inode_bitmap, NumInodes)
  BY DEF Placements
<1>3. new \in Inodes \ inode_bitmap
  BY <1>2, FreeBitIs DEF Inodes
<1>4. o \in Finished(path, parent, new, data_bitmap, table, blocks, early)
  BY <1>1, Zenon DEF With
<1> HIDE DEF parent, new
<1>5. NewInode("REGULAR") \in Inode
  BY NewInodeIs
<1>6. inodes \in InodeTable /\ blocks \in Disk
  BY DEF SoundNow, Sound, Typed
<1>7. table \in InodeTable /\ \A n \in Inodes : n # new => table[n] = inodes[n]
  BY <1>3, <1>5, <1>6, TableWith
<1>8. /\ early \in Seq(Writes) /\ Len(early) = 1
      /\ early[1] = InodeWrite(new)
  BY <1>3 DEF Writes
<1> HIDE DEF table, early
<1>9. /\ \A i \in 1..Len(early) : early[i] = InodeWrite(new)
      /\ \E i \in 1..Len(early) : early[i] = InodeWrite(new)
  BY <1>8
<1>10. data_bitmap \subseteq data_bitmap
  OBVIOUS
<1> QED BY <1>2, <1>3, <1>4, <1>6, <1>7, <1>8, <1>9, <1>10, FinishedCommits

\* create_directory() writes the block and the inode, then the entry.
LEMMA MadeDirectoryCommits ==
    ASSUME SoundNow, NEW path \in Paths, NEW o \in MadeDirectory(path)
    PROVE  OfNames(o)
<1> DEFINE room == FreeBit(data_bitmap, NumBlocks)
<1>1. PICK at \in Placements(path) :
        o \in IF room = {}
              THEN {Outcome(inode_bitmap, data_bitmap, inodes, blocks, <<>>, FALSE)}
              ELSE UNION {
                 Finished(path, at[1], at[2], data_bitmap \cup {b},
                          [inodes EXCEPT ![at[2]] =
                             [NewInode("DIRECTORY") EXCEPT
                                !.size = 2, !.blocks_used = 1, !.direct_blocks[0] = b]],
                          [blocks EXCEPT ![b] =
                             NewDirectoryBlock(Entry(Dot, at[2]), Entry(DotDot, at[1]))],
                          <<BlockWrite(b), InodeWrite(at[2])>>) : b \in room}
  BY DEF MadeDirectory
<1> DEFINE parent == at[1]
           new == at[2]
<1>2. CanAdd(path, parent) /\ new \in FreeBit(inode_bitmap, NumInodes)
  BY DEF Placements
<1>3. new \in Inodes \ inode_bitmap
  BY <1>2, FreeBitIs DEF Inodes
<1>4. CASE room = {}
  <2>1. o = Outcome(inode_bitmap, data_bitmap, inodes, blocks, <<>>, FALSE)
    BY <1>1, <1>4
  <2>2. /\ o.inode_bitmap = inode_bitmap
        /\ o.inodes = inodes /\ o.blocks = blocks /\ o.order = <<>>
    BY <2>1, Zenon DEF Outcome
  <2>3. o.order \in Seq(Writes)
    BY <2>2
  <2> QED BY <2>2, <2>3 DEF OfNames, ChangesNothing, Untouched, Holds
<1>5. CASE room # {}
  <2>1. PICK b \in room :
          o \in Finished(path, parent, new, data_bitmap \cup {b},
                          With(inodes, new, NewDirectoryInode(b)),
                          With(blocks, b, NewDirectoryBlock(Entry(Dot, new), Entry(DotDot, parent))),
                          <<BlockWrite(b), InodeWrite(new)>>)
    BY <1>1, <1>5, Zenon DEF With, NewDirectoryInode
  <2> DEFINE table == With(inodes, new, NewDirectoryInode(b))
             block == NewDirectoryBlock(Entry(Dot, new), Entry(DotDot, parent))
             data == With(blocks, b, block)
             early == <<BlockWrite(b), InodeWrite(new)>>
  <2>2. b \in Blocks \ data_bitmap
    BY FreeBitIs DEF Blocks
  <2>3. parent \in Inodes
    BY <1>2, CanAddFacts DEF Directories, SoundNow, Sound, Typed
  <2> HIDE DEF parent, new
  <2>4. inodes \in InodeTable /\ blocks \in Disk
    BY DEF SoundNow, Sound, Typed
  <2>5. NewDirectoryInode(b) \in Inode
    BY <2>2, NewDirectoryInodeIs
  <2>6. table \in InodeTable /\ \A n \in Inodes : n # new => table[n] = inodes[n]
    BY <1>3, <2>4, <2>5, TableWith
  <2>7. block \in Block
    BY <1>3, <2>3, EntryType, NewDirectoryBlockIs
  <2> HIDE DEF block
  <2>8. data \in Disk /\ \A c \in Blocks : c # b => data[c] = blocks[c]
    BY <2>2, <2>4, <2>7, DiskWith
  <2>9. /\ early \in Seq(Writes) /\ Len(early) = 2
        /\ early[1] = BlockWrite(b) /\ early[2] = InodeWrite(new)
    BY <1>3, <2>2 DEF Writes
  <2>10. o \in Finished(path, parent, new, data_bitmap \cup {b}, table, data, early)
    BY <2>1 DEF block
  <2> HIDE DEF table, data, early
  <2>11. \A i \in 1..Len(early) : \/ early[i] = InodeWrite(new)
                                  \/ \E c \in Blocks \ data_bitmap : early[i] = BlockWrite(c)
    BY <2>2, <2>9
  <2>12. \A c \in Blocks : \/ data[c] = blocks[c]
                           \/ \E i \in 1..Len(early) : early[i] = BlockWrite(c)
    BY <2>8, <2>9
  <2>13. \E i \in 1..Len(early) : early[i] = InodeWrite(new)
    BY <2>9
  <2>14. data_bitmap \subseteq data_bitmap \cup {b}
    OBVIOUS
  <2> QED BY <1>2, <1>3, <2>6, <2>8, <2>9, <2>10, <2>11, <2>12, <2>13, <2>14, FinishedCommits
<1> QED BY <1>4, <1>5

\* remove_file() writes the entry, then the directory's inode.
LEMMA RemovedCommits ==
    ASSUME SoundNow, NEW path \in Paths, path # <<>>, NEW o \in Removed(path)
    PROVE  OfNames(o)
<1>1. PICK parent, k : RemovesAt(o, path, parent, k)
  BY RemovedIs
<1> DEFINE s == PlaceOf(k)
           b == inodes[parent].direct_blocks[k \div Slots]
<1>2. /\ parent \in {n \in Lookup(Parent(path)) : inodes[n].type = "DIRECTORY"}
      /\ k \in Named(parent, Name(path))
      /\ o.inodes = [inodes EXCEPT ![parent].size = @ - 1]
      /\ o.blocks = [blocks EXCEPT ![b].entries[k % Slots] = FreeEntry]
      /\ o.order = AddOrder(parent, b)
  BY <1>1, Zenon DEF RemovesAt, Outcome
<1>3. parent \in Directories(inode_bitmap, inodes) /\ Name(path) \in Names
  BY <1>2, PathsAre, LookupIsAllocated DEF Directories
<1>4. s \in LinksOf(inodes, blocks, parent)
  BY <1>2, <1>3, NamedIsLink
<1>5. s \in Taken(inodes, blocks, parent) /\ s \in Places(inodes[parent])
  BY <1>4 DEF LinksOf, Taken
<1>6. s[1] = k \div Slots
  BY DEF PlaceOf
<1> HIDE DEF s
<1>7. inodes[parent].size - 1 \in Nat
  BY <1>3, <1>5, SizeIsPositive DEF SoundNow
<1>8. parent \in inode_bitmap /\ parent \in Inodes /\ inodes[parent] \in Inode
  BY <1>3, DirectoryFacts DEF Directories
<1>9. b \in Blocks
  BY <1>5, <1>6, <1>8, PlacesAreAllocated DEF SoundNow, Sound
<1> HIDE DEF b
<1>10. inodes \in InodeTable /\ blocks \in Disk
  BY DEF SoundNow, Sound, Typed
<1>11. /\ o.inodes[parent] = Resized(inodes[parent], inodes[parent].size - 1)
       /\ \A n \in Inodes : n # parent => o.inodes[n] = inodes[n]
  BY <1>2, <1>8, <1>10 DEF InodeTable, Resized
<1>12. \A c \in Blocks : c # b => o.blocks[c] = blocks[c]
  BY <1>2, <1>10 DEF Disk
<1>13. o.inodes[parent].direct_blocks = inodes[parent].direct_blocks
  BY <1>8, <1>11 DEF Resized, Inode
<1>14. AddOrder(parent, b) \in Seq(Writes) /\ <<>> \in Seq(Writes)
  BY <1>8, <1>9 DEF AddOrder, Writes
<1>15. o.order = <<>> \o AddOrder(parent, b)
  BY <1>2, <1>14
<1>16. Commits(o, <<>>, parent, b)
  BY <1>3, <1>7, <1>9, <1>11, <1>12, <1>13, <1>15 DEF Commits
<1> QED BY <1>2, <1>14, <1>16 DEF OfNames

-----------------------------------------------------------------------------
(* Breaking off.                                                            *)

MadeBy(order, k, write) == \E i \in 1..Len(order) : i <= k /\ order[i] = write

\* What is on the disk after k writes, and what is remembered of them.
LEMMA BrokenOffIs ==
    ASSUME NEW o, o.order \in Seq(Writes), o.saves \in BOOLEAN, NEW k \in Nat, BrokenOff(o, k)
    PROVE  /\ inodes' = [n \in Inodes |-> inodes'[n]] /\ blocks' = [b \in Blocks |-> blocks'[b]]
           /\ \A n \in Inodes :
                inodes'[n] = IF MadeBy(o.order, k, InodeWrite(n)) THEN o.inodes[n] ELSE inodes[n]
           /\ \A b \in Blocks :
                blocks'[b] = IF MadeBy(o.order, k, BlockWrite(b)) THEN o.blocks[b] ELSE blocks[b]
           /\ saved'.inodes \in {saved.inodes, o.inode_bitmap}
           /\ saved'.blocks \in {saved.blocks, o.data_bitmap}
           /\ saved' = [inodes |-> saved'.inodes, blocks |-> saved'.blocks]
           /\ doubtful' = [inodes |-> Differing(inode_bitmap, o.inode_bitmap),
                           blocks |-> Differing(data_bitmap, o.data_bitmap)]
           /\ crashed' = "operation"
<1> DEFINE order == o.order \o (IF o.saves THEN SaveOrder ELSE <<>>)
           Made(write) == \E i \in 1..k : order[i] = write
<1>1. /\ k <= Len(order)
      /\ inodes' = [n \in Inodes |-> IF Made(InodeWrite(n)) THEN o.inodes[n] ELSE inodes[n]]
      /\ blocks' = [b \in Blocks |-> IF Made(BlockWrite(b)) THEN o.blocks[b] ELSE blocks[b]]
      /\ saved' = [inodes |-> IF Made(InodeBits) THEN o.inode_bitmap ELSE saved.inodes,
                    blocks |-> IF Made(DataBits) THEN o.data_bitmap ELSE saved.blocks]
      /\ doubtful' = [inodes |-> Differing(inode_bitmap, o.inode_bitmap),
                       blocks |-> Differing(data_bitmap, o.data_bitmap)]
      /\ crashed' = "operation"
  BY Zenon DEF BrokenOff
<1>2. ASSUME NEW write, write \notin {InodeBits, DataBits}
      PROVE  Made(write) <=> MadeBy(o.order, k, write)
  <2>1. CASE o.saves
    <3>1. /\ Len(order) = Len(o.order) + 2
          /\ \A i \in 1..Len(o.order) : order[i] = o.order[i]
          /\ order[Len(o.order) + 1] = InodeBits /\ order[Len(o.order) + 2] = DataBits
      BY <2>1 DEF SaveOrder
    <3> HIDE DEF order
    <3>2. ASSUME NEW i \in 1..k, order[i] = write
          PROVE  i \in 1..Len(o.order) /\ o.order[i] = write
      <4>1. i \in 1..Len(o.order) + 2
        BY <1>1, <3>1
      <4>2. i # Len(o.order) + 1 /\ i # Len(o.order) + 2
        BY <1>2, <3>1, <3>2
      <4> QED BY <3>1, <3>2, <4>1, <4>2
    <3>3. ASSUME NEW i \in 1..Len(o.order), i <= k, o.order[i] = write
          PROVE  i \in 1..k /\ order[i] = write
      BY <3>1, <3>3
    <3>4. Made(write) => MadeBy(o.order, k, write)
      BY <3>2 DEF MadeBy
    <3> QED BY <3>3, <3>4 DEF MadeBy
  <2>2. CASE ~o.saves
    <3>1. order = o.order
      BY <2>2
    <3> HIDE DEF order
    <3> QED BY <1>1, <3>1 DEF MadeBy
  <2> QED BY <2>1, <2>2
<1> HIDE DEF Made
<1>3. /\ \A n : Made(InodeWrite(n)) <=> MadeBy(o.order, k, InodeWrite(n))
      /\ \A b : Made(BlockWrite(b)) <=> MadeBy(o.order, k, BlockWrite(b))
  BY <1>2, WritesDiffer
<1> HIDE DEF order
<1>4. /\ saved'.inodes \in {saved.inodes, o.inode_bitmap}
      /\ saved'.blocks \in {saved.blocks, o.data_bitmap}
      /\ saved' = [inodes |-> saved'.inodes, blocks |-> saved'.blocks]
  BY <1>1
<1>5. inodes' = [n \in Inodes |-> inodes'[n]] /\ blocks' = [b \in Blocks |-> blocks'[b]]
  BY <1>1
<1> QED BY <1>1, <1>3, <1>4, <1>5

\* The inodes in ib and their blocks are the same, but for sizes of directories.
Alike(ib, T, B, T2, B2) ==
    \A n \in ib :
        /\ Holds(T, B, T2, B2, n)
        /\ \/ T2[n] = T[n]
           \/ T[n].type = "DIRECTORY" /\ \E size \in Nat : T2[n] = Resized(T[n], size)

\* Then they have the same shape.
LEMMA AlikeIsLike ==
    ASSUME NEW ib \in SUBSET Inodes, NEW T \in InodeTable, NEW B, NEW T2, NEW B2,
           Alike(ib, T, B, T2, B2)
    PROVE  Like(ib, T, B, T2, B2)
<1> SUFFICES ASSUME NEW n \in ib
             PROVE  /\ T2[n].type = T[n].type
                    /\ T2[n].blocks_used = T[n].blocks_used
                    /\ \A i \in Indices(T[n]) : T2[n].direct_blocks[i] = T[n].direct_blocks[i]
                    /\ IF T[n].type = "DIRECTORY" THEN Holds(T, B, T2, B2, n)
                       ELSE T2[n].size = T[n].size
  BY DEF Like
<1>1. CASE T2[n] = T[n]
  BY <1>1 DEF Alike
<1>2. CASE T[n].type = "DIRECTORY" /\ \E size \in Nat : T2[n] = Resized(T[n], size)
  <2>1. T[n] \in Inode
    BY DEF InodeTable
  <2> QED BY <1>2, <2>1, ResizedIs DEF Alike
<1> QED BY <1>1, <1>2 DEF Alike

\* An inode whose blocks are as they were holds what it held.
LEMMA SameBlocksHold ==
    ASSUME NEW ib, NEW db, NEW T, NEW B, Typed(ib, db, T, B), Accounted(ib, db, T),
           NEW T2, NEW B2, \A b \in db : B2[b] = B[b], NEW n \in ib,
           \A i \in Indices(T[n]) : T2[n].direct_blocks[i] = T[n].direct_blocks[i]
    PROVE  Holds(T, B, T2, B2, n)
BY PlacesAreAllocated DEF Holds

\* The first k writes of an operation on names leave the disk as it was before
\* the operation, or as it is after it, but for the size of a directory.
LEMMA NamesBroken ==
    ASSUME SoundNow, NEW o, OfNames(o), Fine(o), o.saves \in BOOLEAN,
           NEW k \in Nat, BrokenOff(o, k)
    PROVE  \/ Alike(inode_bitmap, inodes, blocks, inodes', blocks')
           \/ Alike(o.inode_bitmap, o.inodes, o.blocks, inodes', blocks')
<1> DEFINE M(write) == MadeBy(o.order, k, write)
<1>1. /\ \A n \in Inodes : inodes'[n] = IF M(InodeWrite(n)) THEN o.inodes[n] ELSE inodes[n]
      /\ \A b \in Blocks : blocks'[b] = IF M(BlockWrite(b)) THEN o.blocks[b] ELSE blocks[b]
  BY BrokenOffIs DEF OfNames
<1>2. /\ Typed(inode_bitmap, data_bitmap, inodes, blocks)
      /\ Accounted(inode_bitmap, data_bitmap, inodes)
      /\ inode_bitmap \subseteq Inodes /\ data_bitmap \subseteq Blocks
      /\ inodes \in InodeTable
  BY DEF SoundNow, Sound, Typed
<1>3. /\ Typed(o.inode_bitmap, o.data_bitmap, o.inodes, o.blocks)
      /\ Accounted(o.inode_bitmap, o.data_bitmap, o.inodes)
      /\ o.inode_bitmap \subseteq Inodes /\ o.data_bitmap \subseteq Blocks
      /\ o.inodes \in InodeTable
  BY DEF Fine, Sound, Typed
<1>4. CASE ChangesNothing(o)
  <2>1. ASSUME NEW n \in inode_bitmap
        PROVE  Holds(inodes, blocks, inodes', blocks', n) /\ inodes'[n] = inodes[n]
    <3>1. o.inodes[n] = inodes[n] /\ Holds(inodes, blocks, o.inodes, o.blocks, n)
      BY <1>4 DEF ChangesNothing, Untouched
    <3>2. inodes'[n] = inodes[n]
      BY <1>1, <1>2, <3>1
    <3>3. \A i \in Indices(inodes[n]) : inodes[n].direct_blocks[i] \in Blocks
      BY <1>2, PlacesAreAllocated
    <3> QED BY <1>1, <3>1, <3>2, <3>3 DEF Holds
  <2> QED BY <2>1 DEF Alike
<1>5. CASE \E early \in Seq(Writes) : \E dir, c : Commits(o, early, dir, c)
  <2>0. PICK early \in Seq(Writes) : \E dir, c : Commits(o, early, dir, c)
    BY <1>5
  <2>1. PICK dir, c : Commits(o, early, dir, c)
    BY <2>0
  <2> DEFINE L == Len(early)
  <2>2. /\ L \in Nat /\ dir \in inode_bitmap /\ c \in Blocks
        /\ dir \in Inodes /\ inodes[dir] \in Inode /\ inodes[dir].type = "DIRECTORY"
    BY <1>2, <2>1 DEF Commits, Directories, InodeTable
  <2>3. /\ Len(o.order) = L + 2
        /\ \A i \in 1..L : o.order[i] = early[i]
        /\ o.order[L + 1] = BlockWrite(c) /\ o.order[L + 2] = InodeWrite(dir)
    <3>1. o.order = early \o <<BlockWrite(c), InodeWrite(dir)>>
      BY <2>1 DEF Commits, AddOrder
    <3> QED BY <3>1
  <2> HIDE DEF L
  <2>4. \A i \in 1..L : \/ \E n \in Inodes \ inode_bitmap : early[i] = InodeWrite(n)
                       \/ \E b \in Blocks \ data_bitmap : early[i] = BlockWrite(b)
    BY <2>1 DEF Commits, L
  <2>5. /\ k >= L + 1 => \A i \in 1..L : M(early[i])
        /\ k >= L + 1 => M(BlockWrite(c))
        /\ k >= L + 2 => M(InodeWrite(dir))
    <3>1. ASSUME NEW i \in 1..L + 2, i <= k, NEW write, o.order[i] = write
          PROVE  M(write)
      BY <2>3, <3>1 DEF MadeBy
    <3> HIDE DEF M
    <3>2. ASSUME k >= L + 1, NEW i \in 1..L
          PROVE  M(early[i])
      BY <2>2, <2>3, <3>1, <3>2, SMTT(30)
    <3>3. k >= L + 1 => M(BlockWrite(c))
      BY <2>2, <2>3, <3>1
    <3>4. k >= L + 2 => M(InodeWrite(dir))
      BY <2>2, <2>3, <3>1
    <3> QED BY <3>2, <3>3, <3>4
  <2>6. /\ \A n \in inode_bitmap : M(InodeWrite(n)) => n = dir /\ k >= L + 2
        /\ \A b \in data_bitmap : M(BlockWrite(b)) => b = c /\ k >= L + 1
    <3>1. ASSUME NEW write, NEW i \in 1..L + 2, i <= k, o.order[i] = write
          PROVE  /\ \A n \in inode_bitmap : write = InodeWrite(n) => n = dir /\ k >= L + 2
                 /\ \A b \in data_bitmap : write = BlockWrite(b) => b = c /\ k >= L + 1
      <4>1. CASE i \in 1..L
        BY <2>3, <2>4, <3>1, <4>1, WritesDiffer
      <4>2. CASE i = L + 1
        BY <2>2, <2>3, <3>1, <4>2, WritesDiffer
      <4>3. CASE i = L + 2
        BY <2>2, <2>3, <3>1, <4>3, WritesDiffer
      <4> QED BY <2>2, <4>1, <4>2, <4>3
    <3> QED BY <2>3, <3>1 DEF MadeBy
  <2> HIDE DEF M
  <2>7. ASSUME k >= L + 1
        PROVE  /\ \A n \in Inodes \ {dir} : inodes'[n] = o.inodes[n]
               /\ \A b \in Blocks : blocks'[b] = o.blocks[b]
    <3>1. \A i \in 1..L : M(early[i])
      BY <2>5, <2>7
    <3>2. /\ \A n \in Inodes \ {dir} : o.inodes[n] = inodes[n] \/ M(InodeWrite(n))
          /\ \A b \in Blocks \ {c} : o.blocks[b] = blocks[b] \/ M(BlockWrite(b))
      BY <2>1, <3>1 DEF Commits, L
    <3> QED BY <1>1, <2>5, <2>7, <3>2
  <2>8. ASSUME \A n \in inode_bitmap : ~M(InodeWrite(n)),
               \A b \in data_bitmap : ~M(BlockWrite(b))
        PROVE  Alike(inode_bitmap, inodes, blocks, inodes', blocks')
    <3>1. \A n \in inode_bitmap : inodes'[n] = inodes[n]
      BY <1>1, <1>2, <2>8
    <3>2. \A b \in data_bitmap : blocks'[b] = blocks[b]
      BY <1>1, <1>2, <2>8
    <3> QED BY <1>2, <3>1, <3>2, SameBlocksHold DEF Alike
  <2>9. ASSUME k >= L + 1,
               inodes'[dir] = o.inodes[dir] \/
                 \E size \in Nat : /\ o.inodes[dir].type = "DIRECTORY"
                                  /\ inodes'[dir] = Resized(o.inodes[dir], size)
        PROVE  Alike(o.inode_bitmap, o.inodes, o.blocks, inodes', blocks')
    <3>1. \A b \in o.data_bitmap : blocks'[b] = o.blocks[b]
      BY <1>3, <2>7, <2>9
    <3>2. ASSUME NEW n \in o.inode_bitmap
          PROVE  \/ inodes'[n] = o.inodes[n]
                 \/ /\ o.inodes[n].type = "DIRECTORY"
                    /\ \E size \in Nat : inodes'[n] = Resized(o.inodes[n], size)
      BY <1>3, <2>7, <2>9
    <3>3. ASSUME NEW n \in o.inode_bitmap
          PROVE  \A i \in Indices(o.inodes[n]) :
                   inodes'[n].direct_blocks[i] = o.inodes[n].direct_blocks[i]
      <4>1. o.inodes[n] \in Inode
        BY <1>3 DEF InodeTable
      <4>2. ASSUME NEW size \in Nat, inodes'[n] = Resized(o.inodes[n], size)
            PROVE  inodes'[n].direct_blocks = o.inodes[n].direct_blocks
        BY <4>1, <4>2 DEF Resized, Inode
      <4> QED BY <3>2, <4>2
    <3> QED BY <1>3, <3>1, <3>2, <3>3, SameBlocksHold DEF Alike
  <2>10. CASE c \notin data_bitmap /\ k >= L + 2
    <3>1. inodes'[dir] = o.inodes[dir]
      BY <1>1, <2>2, <2>5, <2>10
    <3> QED BY <2>2, <2>9, <2>10, <3>1
  <2>11. CASE c \notin data_bitmap /\ ~(k >= L + 2)
    BY <2>6, <2>8, <2>11
  <2>12. CASE c \in data_bitmap /\ k >= L + 1
    <3>1. PICK size \in Nat : o.inodes[dir] = Resized(inodes[dir], size)
      BY <2>1, <2>12 DEF Commits
    <3>2. inodes[dir] = Resized(o.inodes[dir], inodes[dir].size) /\ inodes[dir].size \in Nat
      BY <2>2, <3>1 DEF Resized, Inode
    <3>3. o.inodes[dir].type = "DIRECTORY"
      BY <2>2, <3>1 DEF Resized, Inode
    <3>4. inodes'[dir] \in {inodes[dir], o.inodes[dir]}
      BY <1>1, <2>2
    <3> QED BY <2>9, <2>12, <3>2, <3>3, <3>4
  <2>13. CASE c \in data_bitmap /\ ~(k >= L + 1)
    BY <2>2, <2>6, <2>8, <2>13
  <2> QED BY <2>10, <2>11, <2>12, <2>13
<1> QED BY <1>4, <1>5 DEF OfNames

-----------------------------------------------------------------------------
(* Where paths lead then.                                                   *)

Listings(ib) == Nested(ib, inodes', blocks')

\* On a disk with the shape of one, paths follow the listings.
ShapesLead == \A ib, db : Shape(ib, db) => Leads(ib, ChildrenIn(ib), Reach)

\* This is so in every state.
LEMMA ShapesDoLead == ShapesLead
BY PathsFollowListingsIn DEF ShapesLead

\* So they do after a step.
LEMMA PathsFollowThen ==
    ASSUME NEW ib, NEW db, Shaped(ib, db, inodes', blocks')
    PROVE  Leads(ib, Listings(ib), Reach')
<1>1. ShapesLead'
  BY ShapesDoLead, PTL
<1>2. \A jb, eb : Shaped(jb, eb, inodes', blocks') =>
        Leads(jb, Nested(jb, inodes', blocks'), Reach')
  BY <1>1 DEF ShapesLead, Shape, ChildrenIn
<1> QED BY <1>2 DEF Listings

\* The paths lead where they led.
SamePathsTo(ib) == ib = inode_bitmap /\ Reach' = Reach

\* One path more, to a new inode.
MorePaths(ib, path, new) ==
    /\ path \in Paths \ {<<>>} /\ new \in Inodes \ inode_bitmap
    /\ ib = inode_bitmap \cup {new}
    /\ Reach[path] = {}
    /\ \A n : n \in Reach'[path] <=> n = new
    /\ \A q \in NamePaths : q # path => Reach'[q] = Reach[q]
    /\ \E dir \in Reach[Parent(path)] : inodes[dir].type = "DIRECTORY"

\* One path less, and no other to that file.
LessPaths(ib, path, file) ==
    /\ path \in Paths \ {<<>>} /\ file \in inode_bitmap /\ Removable(file)
    /\ ib = inode_bitmap \ {file}
    /\ Reach[path] = {file}
    /\ \A q \in NamePaths : Reach'[q] = IF q = path THEN {} ELSE Reach[q]

\* Every inode in ib is where a path in use leads.
AllReached(ib, R) == \A n \in ib : \E p \in Paths : n \in R[p]

\* It stays so.
LEMMA ReachedStays ==
    ASSUME AllReached(inode_bitmap, Reach), NEW ib,
           \/ SamePathsTo(ib)
           \/ \E path, new : MorePaths(ib, path, new)
           \/ \E path, file : LessPaths(ib, path, file)
    PROVE  AllReached(ib, Reach')
<1>1. \A p \in Paths : p \in NamePaths
  BY ParentIsInUse
<1>2. CASE SamePathsTo(ib)
  BY <1>2 DEF SamePathsTo, AllReached
<1>3. CASE \E path, new : MorePaths(ib, path, new)
  <2>1. PICK path, new : MorePaths(ib, path, new)
    BY <1>3
  <2>2. /\ path \in Paths /\ ib = inode_bitmap \cup {new} /\ Reach[path] = {}
        /\ new \in Reach'[path]
        /\ \A q \in Paths : q # path => Reach'[q] = Reach[q]
    BY <1>1, <2>1 DEF MorePaths
  <2> QED BY <2>2 DEF AllReached
<1>4. CASE \E path, file : LessPaths(ib, path, file)
  <2>1. PICK path, file : LessPaths(ib, path, file)
    BY <1>4
  <2>2. /\ ib = inode_bitmap \ {file} /\ Reach[path] = {file}
        /\ \A q \in Paths : q # path => Reach'[q] = Reach[q]
    BY <1>1, <2>1 DEF LessPaths
  <2> QED BY <2>2 DEF AllReached
<1> QED BY <1>2, <1>3, <1>4

\* On a disk like the one before, paths lead where they led.
LEMMA LikeBefore ==
    ASSUME SoundNow, inodes' \in InodeTable, blocks' \in Disk,
           Like(inode_bitmap, inodes, blocks, inodes', blocks')
    PROVE  /\ Shaped(inode_bitmap, data_bitmap, inodes', blocks')
           /\ SamePathsTo(inode_bitmap)
<1>1. /\ Shaped(inode_bitmap, data_bitmap, inodes', blocks')
      /\ Listings(inode_bitmap) = Children
  BY LikeSoundIsShaped DEF SoundNow, Children, ChildrenIn, Listings
<1>2. Leads(inode_bitmap, Children, Reach)
  BY PathsFollowListings
<1>3. Leads(inode_bitmap, Children, Reach')
  BY <1>1, PathsFollowThen
<1> QED BY <1>1, <1>2, <1>3, SamePaths DEF SamePathsTo

\* An inode that an outcome does not touch is listed as it was.
LEMMA UntouchedNested ==
    ASSUME NEW ib, NEW ib2, NEW n \in ib, n \in ib2, NEW T, NEW B, NEW T2, NEW B2,
           Untouched(T, B, T2, B2, n)
    PROVE  Nested(ib2, T2, B2)[n] = Nested(ib, T, B)[n]
<1>1. T2[n].type = T[n].type
  BY DEF Untouched
<1>2. Listing(T2, B2, n) = Listing(T, B, n)
  BY UntouchedListing
<1> QED BY <1>1, <1>2 DEF Nested

\* On a disk like the one an outcome leaves, paths follow what it lists.
LEMMA LikeAfter ==
    ASSUME NEW o, Fine(o), inodes' \in InodeTable, blocks' \in Disk,
           Like(o.inode_bitmap, o.inodes, o.blocks, inodes', blocks')
    PROVE  /\ Shaped(o.inode_bitmap, o.data_bitmap, inodes', blocks')
           /\ Leads(o.inode_bitmap, Nested(o.inode_bitmap, o.inodes, o.blocks), Reach')
<1>1. /\ Shaped(o.inode_bitmap, o.data_bitmap, inodes', blocks')
      /\ Listings(o.inode_bitmap) = Nested(o.inode_bitmap, o.inodes, o.blocks)
  BY LikeSoundIsShaped DEF Fine, Listings
<1>2. Leads(o.inode_bitmap, Listings(o.inode_bitmap), Reach')
  BY <1>1, PathsFollowThen
<1> QED BY <1>1, <1>2

\* Where the outcome changes nothing, they lead where they led.
LEMMA NothingKeepsPaths ==
    ASSUME SoundNow, NEW o, ChangesNothing(o),
           Leads(o.inode_bitmap, Nested(o.inode_bitmap, o.inodes, o.blocks), Reach')
    PROVE  SamePathsTo(o.inode_bitmap)
<1> DEFINE K == Nested(o.inode_bitmap, o.inodes, o.blocks)
<1>1. o.inode_bitmap = inode_bitmap
  BY DEF ChangesNothing
<1>2. \A n \in inode_bitmap : K[n] = Children[n]
  BY <1>1, UntouchedNested DEF ChangesNothing, Children, ChildrenIn
<1>3. Leads(inode_bitmap, Children, Reach)
  BY PathsFollowListings
<1>4. Leads(inode_bitmap, K, Reach')
  BY <1>1
<1> HIDE DEF K
<1> QED BY <1>1, <1>2, <1>3, <1>4, SamePaths DEF SamePathsTo

\* Where it adds a name, there is one path more.
LEMMA AddsOnePath ==
    ASSUME SoundNow, NEW path \in Paths, NEW parent, CanAdd(path, parent),
           NEW new \in Inodes \ inode_bitmap, NEW o, Adds(o, parent, Name(path), new),
           o.inodes[new].type # "DIRECTORY" \/ Listing(o.inodes, o.blocks, new) = {},
           Leads(o.inode_bitmap, Nested(o.inode_bitmap, o.inodes, o.blocks), Reach')
    PROVE  MorePaths(o.inode_bitmap, path, new)
<1> DEFINE K == Nested(o.inode_bitmap, o.inodes, o.blocks)
<1>1. Forest(inode_bitmap, Children) /\ Leads(inode_bitmap, Children, Reach)
  BY PathsFollowListings
<1>2. o.inode_bitmap = inode_bitmap \cup {new}
  BY DEF Adds
<1>3. Leads(inode_bitmap \cup {new}, K, Reach')
  BY <1>2
<1>4. K[new] = {}
  BY <1>2 DEF Nested
<1>5. \A d \in inode_bitmap \ {parent} : K[d] = Children[d]
  BY <1>2, UntouchedNested DEF Adds, Relists, Children, ChildrenIn
<1>6. parent \in Directories(inode_bitmap, inodes)
  BY CanAddFacts
<1>7. K[parent] = Children[parent] \cup {Entry(Name(path), new)}
  BY <1>2, <1>6 DEF Adds, Relists, Children, ChildrenIn, Nested, Directories
<1>8. /\ path \in NamePaths /\ path # <<>>
      /\ parent \in Reach[Parent(path)] /\ Reach[path] = {}
  BY WhereANameIsAdded
<1> HIDE DEF K
<1>9. AddsPath(inode_bitmap, Children, Reach, path, parent, new, K, Reach')
  BY <1>3, <1>4, <1>5, <1>7, <1>8 DEF AddsPath
<1>10. /\ \A n : n \in Reach'[path] <=> n = new
       /\ \A q \in NamePaths : q # path => Reach'[q] = Reach[q]
  BY <1>1, <1>9, PathAdded
<1> QED BY <1>2, <1>6, <1>8, <1>10 DEF MorePaths, Directories

\* Where it drops one, there is one path less.
LEMMA DropsOnePath ==
    ASSUME SoundNow, NEW path \in Paths, path # <<>>,
           NEW parent \in Directories(inode_bitmap, inodes), parent \in Lookup(Parent(path)),
           NEW file, Removable(file),
           Entry(Name(path), file) \in Listing(inodes, blocks, parent),
           NEW o, Drops(o, parent, Name(path), file),
           Leads(o.inode_bitmap, Nested(o.inode_bitmap, o.inodes, o.blocks), Reach')
    PROVE  LessPaths(o.inode_bitmap, path, file)
<1> DEFINE K == Nested(o.inode_bitmap, o.inodes, o.blocks)
<1>1. Forest(inode_bitmap, Children) /\ Leads(inode_bitmap, Children, Reach)
  BY PathsFollowListings
<1>2. o.inode_bitmap = inode_bitmap \ {file}
  BY DEF Drops
<1>3. Leads(inode_bitmap \ {file}, K, Reach')
  BY <1>2
<1>4. path \in NamePaths /\ Parent(path) \in NamePaths /\ parent \in Reach[Parent(path)]
  <2>1. path \in NamePaths
    BY PathsAre DEF NamePaths
  <2> QED BY <2>1, PathCases DEF Reach
<1>5. /\ parent \in inode_bitmap /\ inodes[parent].type = "DIRECTORY" /\ parent # file
      /\ inodes[file].type # "DIRECTORY"
  BY DEF Directories, Removable
<1>6. Entry(Name(path), file) \in Children[parent]
  BY <1>5 DEF Children, ChildrenIn, Nested
<1>7. file \in inode_bitmap
  BY <1>1, <1>5, <1>6, EntryIs DEF Forest
<1>8. Children[file] = {}
  BY <1>5, <1>7 DEF Children, ChildrenIn, Nested
<1>9. \A d \in inode_bitmap \ {file, parent} : K[d] = Children[d]
  BY <1>2, UntouchedNested DEF Drops, Relists, Children, ChildrenIn
<1>10. K[parent] = Children[parent] \ {Entry(Name(path), file)}
  BY <1>2, <1>5 DEF Drops, Relists, Children, ChildrenIn, Nested
<1> HIDE DEF K
<1>11. DropsPath(inode_bitmap, Children, Reach, path, parent, file, K, Reach')
  BY <1>3, <1>4, <1>6, <1>7, <1>8, <1>9, <1>10 DEF DropsPath
<1>12. /\ Reach[path] = {file}
       /\ \A q \in NamePaths : Reach'[q] = IF q = path THEN {} ELSE Reach[q]
  BY <1>1, <1>11, PathDropped
<1> QED BY <1>2, <1>7, <1>12 DEF LessPaths

-----------------------------------------------------------------------------
(* What a crash in an operation on names leaves.                            *)

\* The file has the contents it had; a directory still is one.
Shown(n) ==
    /\ inodes'[n].type = inodes[n].type
    /\ inodes[n].type = "REGULAR" =>
         ContentsIn(inodes'[n], blocks') = ContentsIn(inodes[n], blocks)

\* A file whose inode and blocks are as they were has the contents it had.
LEMMA HeldContents ==
    ASSUME NEW ib \in SUBSET Inodes, NEW T \in InodeTable, NEW B, NEW T2, NEW B2,
           Covered(ib, T), NEW n \in ib, T[n].type = "REGULAR", Untouched(T, B, T2, B2, n)
    PROVE  ContentsIn(T2[n], B2) = ContentsIn(T[n], B)
<1>1. T[n] \in Inode /\ T2[n] = T[n]
  BY DEF Untouched, InodeTable
<1>2. T[n].size \in Nat /\ T[n].size <= T[n].blocks_used * BlockSize
  BY <1>1, InodeFields DEF Covered, Directories
<1>3. ASSUME NEW i \in 1..T[n].size
      PROVE  Cell(T2[n], B2, i - 1) = Cell(T[n], B, i - 1)
  <2>1. i - 1 \in 0..T[n].size - 1
    BY <1>2
  <2>2. (i - 1) \div BlockSize \in Indices(T[n])
    BY <1>1, <1>2, <2>1, CellIsInside
  <2> QED BY <1>1, <2>2 DEF Untouched, Holds, Cell
<1> QED BY <1>1, <1>3 DEF ContentsIn

\* What is alike shows the same.
LEMMA AlikeShows ==
    ASSUME NEW ib \in SUBSET Inodes, NEW T \in InodeTable, NEW B, NEW T2, NEW B2,
           Covered(ib, T), Alike(ib, T, B, T2, B2), NEW n \in ib
    PROVE  /\ T2[n].type = T[n].type
           /\ T[n].type = "REGULAR" => T2[n] = T[n] /\ ContentsIn(T2[n], B2) = ContentsIn(T[n], B)
<1>1. T[n] \in Inode
  BY DEF InodeTable
<1>2. \/ T2[n] = T[n]
      \/ T[n].type = "DIRECTORY" /\ T2[n].type = T[n].type
  <2>1. CASE T2[n] = T[n]
    BY <2>1
  <2>2. CASE T[n].type = "DIRECTORY" /\ \E size \in Nat : T2[n] = Resized(T[n], size)
    BY <1>1, <2>2, ResizedIs
  <2> QED BY <2>1, <2>2 DEF Alike
<1>3. ASSUME T[n].type = "REGULAR"
      PROVE  T2[n] = T[n] /\ ContentsIn(T2[n], B2) = ContentsIn(T[n], B)
  <2>1. Untouched(T, B, T2, B2, n)
    BY <1>2, <1>3 DEF Alike, Untouched
  <2> QED BY <1>3, <2>1, HeldContents DEF Untouched
<1> QED BY <1>2, <1>3

\* The disk then has the shape of one, with the bits from before the operation
\* or with those it was to save.
LeavesShape(o, ib, db) ==
    /\ inodes' \in InodeTable /\ blocks' \in Disk
    /\ Shaped(ib, db, inodes', blocks')
    /\ \/ ib = inode_bitmap /\ db = data_bitmap
       \/ ib = o.inode_bitmap /\ db = o.data_bitmap

\* The tables are as they should be.
LEMMA BrokenIsTyped ==
    ASSUME SoundNow, NEW o, Fine(o), o.order \in Seq(Writes), o.saves \in BOOLEAN,
           NEW k \in Nat, BrokenOff(o, k)
    PROVE  inodes' \in InodeTable /\ blocks' \in Disk
<1>1. o.inodes \in InodeTable /\ o.blocks \in Disk /\ inodes \in InodeTable /\ blocks \in Disk
  BY DEF Fine, SoundNow, Sound, Typed
<1>2. /\ inodes' = [n \in Inodes |-> inodes'[n]] /\ blocks' = [b \in Blocks |-> blocks'[b]]
      /\ \A n \in Inodes : inodes'[n] \in {inodes[n], o.inodes[n]}
      /\ \A b \in Blocks : blocks'[b] \in {blocks[b], o.blocks[b]}
  BY BrokenOffIs
<1>3. /\ \A n \in Inodes : inodes'[n] \in Inode
      /\ \A b \in Blocks : blocks'[b] \in Block
  BY <1>1, <1>2 DEF InodeTable, Disk
<1> QED BY <1>2, <1>3 DEF InodeTable, Disk

\* What an operation on the name at the end of a path may leave.
NamesAt(path) == Created(path) \cup MadeDirectory(path) \cup Removed(path)

\* It saves the bitmaps or has not changed them.
LEMMA NamesSave ==
    ASSUME NEW path, NEW o \in NamesAt(path)
    PROVE  o.saves \in BOOLEAN
<1>1. CASE o \in Created(path) \cup MadeDirectory(path)
  BY <1>1, CreatedSaves, MadeDirectorySaves DEF SavesWhatItChanges
<1>2. CASE o \in Removed(path)
  <2>1. \E ib, db, table, data, order : o = Outcome(ib, db, table, data, order, TRUE)
    BY <1>2, Zenon DEF Removed
  <2> QED BY <2>1 DEF Outcome
<1> QED BY <1>1, <1>2 DEF NamesAt

\* An outcome that adds a file or an empty directory.
Makes(o, path, parent, new) ==
    /\ CanAdd(path, parent) /\ new \in Inodes \ inode_bitmap
    /\ Adds(o, parent, Name(path), new)
    /\ \/ o.inodes[new] = NewInode("REGULAR")
       \/ o.inodes[new].type = "DIRECTORY" /\ Listing(o.inodes, o.blocks, new) = {}

\* An outcome that removes a file.
Unmakes(o, path, parent, file) ==
    /\ Removable(file) /\ Drops(o, parent, Name(path), file)
    /\ parent \in Lookup(Parent(path)) /\ parent \in Directories(inode_bitmap, inodes)
    /\ Entry(Name(path), file) \in Listing(inodes, blocks, parent)

\* The outcomes of operations on names.
LEMMA NameOutcomes ==
    ASSUME SoundNow, NEW path \in Paths \ {<<>>}, NEW o \in NamesAt(path)
    PROVE  /\ Fine(o) /\ OfNames(o) /\ o.saves \in BOOLEAN
           /\ \/ ChangesNothing(o)
              \/ \E parent, new : Makes(o, path, parent, new)
              \/ \E parent, file : Unmakes(o, path, parent, file)
<1>1. o.saves \in BOOLEAN
  BY NamesSave
<1>2. CASE o \in Created(path)
  <2>1. \/ ChangesNothing(o)
        \/ \E parent, new :
             /\ CanAdd(path, parent) /\ new \in Inodes \ inode_bitmap
             /\ Adds(o, parent, Name(path), new)
             /\ o.inodes[new] = NewInode("REGULAR")
    BY <1>2, CreatedIsSound
  <2> QED BY <1>1, <1>2, <2>1, CreatedIsSound, CreatedCommits DEF Makes
<1>3. CASE o \in MadeDirectory(path)
  <2>1. \/ ChangesNothing(o)
        \/ \E parent, new :
             /\ CanAdd(path, parent) /\ new \in Inodes \ inode_bitmap
             /\ Adds(o, parent, Name(path), new)
             /\ o.inodes[new].type = "DIRECTORY"
             /\ Listing(o.inodes, o.blocks, new) = {}
    BY <1>3, MadeDirectoryIsSound
  <2> QED BY <1>1, <1>3, <2>1, MadeDirectoryIsSound, MadeDirectoryCommits DEF Makes
<1>4. CASE o \in Removed(path)
  <2>1. \E file, parent : Unmakes(o, path, parent, file)
    BY <1>4, RemovedIsSound DEF Unmakes
  <2> QED BY <1>1, <1>4, <2>1, RemovedIsSound, RemovedCommits
<1> QED BY <1>2, <1>3, <1>4 DEF NamesAt

\* Whatever the operation, the files that it leaves show what they did.
LEMMA OutcomeShows ==
    ASSUME SoundNow, NEW path \in Paths, NEW o,
           \/ ChangesNothing(o)
           \/ \E parent, new : Makes(o, path, parent, new)
           \/ \E parent, file : Unmakes(o, path, parent, file),
           NEW n \in inode_bitmap, n \in o.inode_bitmap
    PROVE  /\ o.inodes[n].type = inodes[n].type
           /\ inodes[n].type = "REGULAR" =>
                ContentsIn(o.inodes[n], o.blocks) = ContentsIn(inodes[n], blocks)
<1>1. \/ Untouched(inodes, blocks, o.inodes, o.blocks, n)
      \/ inodes[n].type = "DIRECTORY" /\ o.inodes[n].type = "DIRECTORY"
  <2>1. CASE ChangesNothing(o)
    BY <2>1 DEF ChangesNothing
  <2>2. ASSUME NEW parent, NEW new, Makes(o, path, parent, new)
        PROVE  \/ Untouched(inodes, blocks, o.inodes, o.blocks, n)
               \/ inodes[n].type = "DIRECTORY" /\ o.inodes[n].type = "DIRECTORY"
    <3>1. parent \in Directories(inode_bitmap, inodes)
      BY <2>2, CanAddFacts DEF Makes
    <3> QED BY <2>2, <3>1 DEF Makes, Adds, Relists, Directories
  <2>3. ASSUME NEW parent, NEW file, Unmakes(o, path, parent, file)
        PROVE  \/ Untouched(inodes, blocks, o.inodes, o.blocks, n)
               \/ inodes[n].type = "DIRECTORY" /\ o.inodes[n].type = "DIRECTORY"
    BY <2>3 DEF Unmakes, Drops, Relists, Directories
  <2> QED BY <2>1, <2>2, <2>3
<1>2. CASE Untouched(inodes, blocks, o.inodes, o.blocks, n)
  <2>1. inode_bitmap \in SUBSET Inodes /\ inodes \in InodeTable /\ Covered(inode_bitmap, inodes)
    BY DEF SoundNow, Sound, Typed
  <2> QED BY <1>2, <2>1, HeldContents DEF Untouched
<1> QED BY <1>1, <1>2

\* What such a crash leaves: paths lead where they did before the operation, or
\* where they would have after it, and the files are what they were.
LeavesNames(ib, path) ==
    /\ \A n \in ib \cap inode_bitmap : Shown(n)
    /\ \/ SamePathsTo(ib)
       \/ \E new : /\ MorePaths(ib, path, new)
                   /\ inodes'[new] = NewInode("REGULAR") \/ inodes'[new].type = "DIRECTORY"
       \/ \E file : LessPaths(ib, path, file)

\* A crash that leaves what was there.
LEMMA CrashBefore ==
    ASSUME SoundNow, inodes' \in InodeTable, blocks' \in Disk,
           Alike(inode_bitmap, inodes, blocks, inodes', blocks'), NEW path, NEW o
    PROVE  /\ LeavesShape(o, inode_bitmap, data_bitmap)
           /\ LeavesNames(inode_bitmap, path)
<1>1. /\ inode_bitmap \in SUBSET Inodes /\ inodes \in InodeTable
      /\ Covered(inode_bitmap, inodes)
  BY DEF SoundNow, Sound, Typed
<1>2. Like(inode_bitmap, inodes, blocks, inodes', blocks')
  BY <1>1, AlikeIsLike
<1>3. /\ Shaped(inode_bitmap, data_bitmap, inodes', blocks')
      /\ SamePathsTo(inode_bitmap)
  BY <1>2, LikeBefore
<1>4. \A n \in inode_bitmap : Shown(n)
  BY <1>1, AlikeShows DEF Shown
<1> QED BY <1>3, <1>4 DEF LeavesShape, LeavesNames

\* A crash that leaves what the operation was about to complete.
LEMMA CrashAfter ==
    ASSUME SoundNow, NEW path \in Paths \ {<<>>}, NEW o \in NamesAt(path),
           inodes' \in InodeTable, blocks' \in Disk,
           Alike(o.inode_bitmap, o.inodes, o.blocks, inodes', blocks')
    PROVE  /\ LeavesShape(o, o.inode_bitmap, o.data_bitmap)
           /\ LeavesNames(o.inode_bitmap, path)
<1> DEFINE ib == o.inode_bitmap
<1>1. /\ Fine(o)
      /\ \/ ChangesNothing(o)
         \/ \E parent, new : Makes(o, path, parent, new)
         \/ \E parent, file : Unmakes(o, path, parent, file)
  BY NameOutcomes
<1>2. ib \in SUBSET Inodes /\ o.inodes \in InodeTable /\ Covered(ib, o.inodes)
  BY <1>1 DEF Fine, Sound, Typed
<1>3. Like(ib, o.inodes, o.blocks, inodes', blocks')
  BY <1>2, AlikeIsLike
<1>4. /\ Shaped(ib, o.data_bitmap, inodes', blocks')
      /\ Leads(ib, Nested(ib, o.inodes, o.blocks), Reach')
  BY <1>1, <1>3, LikeAfter
<1>5. LeavesShape(o, ib, o.data_bitmap)
  BY <1>4 DEF LeavesShape
<1>6. \A n \in ib \cap inode_bitmap : Shown(n)
  <2> TAKE n \in ib \cap inode_bitmap
  <2>1. /\ o.inodes[n].type = inodes[n].type
        /\ inodes[n].type = "REGULAR" =>
             ContentsIn(o.inodes[n], o.blocks) = ContentsIn(inodes[n], blocks)
    BY <1>1, OutcomeShows
  <2>2. /\ inodes'[n].type = o.inodes[n].type
        /\ o.inodes[n].type = "REGULAR" =>
             ContentsIn(inodes'[n], blocks') = ContentsIn(o.inodes[n], o.blocks)
    BY <1>2, AlikeShows
  <2> QED BY <2>1, <2>2 DEF Shown
<1>7. ASSUME ChangesNothing(o)
      PROVE  LeavesNames(ib, path)
  <2>1. SamePathsTo(ib)
    BY <1>4, <1>7, NothingKeepsPaths
  <2> QED BY <1>6, <2>1 DEF LeavesNames
<1>8. ASSUME NEW parent, NEW new, Makes(o, path, parent, new)
      PROVE  LeavesNames(ib, path)
  <2>1. o.inodes[new].type # "DIRECTORY" \/ Listing(o.inodes, o.blocks, new) = {}
    BY <1>8, NewInodeIs DEF Makes
  <2>2. MorePaths(ib, path, new)
    BY <1>4, <1>8, <2>1, AddsOnePath DEF Makes
  <2>3. new \in ib
    BY <2>2 DEF MorePaths
  <2>4. inodes'[new] = NewInode("REGULAR") \/ inodes'[new].type = "DIRECTORY"
    <3>1. /\ inodes'[new].type = o.inodes[new].type
          /\ o.inodes[new].type = "REGULAR" => inodes'[new] = o.inodes[new]
      BY <1>2, <2>3, AlikeShows
    <3> QED BY <1>8, <3>1, NewInodeIs DEF Makes
  <2> QED BY <1>6, <2>2, <2>4 DEF LeavesNames
<1>9. ASSUME NEW parent, NEW file, Unmakes(o, path, parent, file)
      PROVE  LeavesNames(ib, path)
  <2>1. LessPaths(ib, path, file)
    BY <1>4, <1>9, DropsOnePath DEF Unmakes
  <2> QED BY <1>6, <2>1 DEF LeavesNames
<1> QED BY <1>1, <1>5, <1>7, <1>8, <1>9

\* Every crash in an operation on names is the one or the other.
LEMMA NamesCrash ==
    ASSUME SoundNow, NEW path \in Paths \ {<<>>}, NEW o \in NamesAt(path),
           NEW k \in Nat, BrokenOff(o, k)
    PROVE  \E ib, db : LeavesShape(o, ib, db) /\ LeavesNames(ib, path)
<1>1. Fine(o) /\ OfNames(o) /\ o.saves \in BOOLEAN /\ o.order \in Seq(Writes)
  BY NameOutcomes DEF OfNames
<1>2. inodes' \in InodeTable /\ blocks' \in Disk
  BY <1>1, BrokenIsTyped
<1>3. CASE Alike(inode_bitmap, inodes, blocks, inodes', blocks')
  BY <1>2, <1>3, CrashBefore
<1>4. CASE Alike(o.inode_bitmap, o.inodes, o.blocks, inodes', blocks')
  BY <1>2, <1>4, CrashAfter
<1> QED BY <1>1, <1>3, <1>4, NamesBroken

-----------------------------------------------------------------------------
(* What a crash in a write leaves.                                          *)

\* A descriptor that a sound file system may write through.
CanWrite(fd) ==
    LET file == open_files[fd].inode_num
    IN  /\ file \in inode_bitmap /\ inodes[file].type = "REGULAR"
        /\ open_files[fd].offset \in Nat /\ open_files[fd].offset <= inodes[file].size

\* Where the loop of a write begins.
FirstTurn(fd, size) ==
    [inode  |-> inodes[open_files[fd].inode_num], data |-> blocks,
     used   |-> data_bitmap, order |-> <<>>,
     offset |-> open_files[fd].offset, left |-> size]

\* What a write leaves that has got to x.
WritesUpTo(o, file, x) ==
    o = Outcome(inode_bitmap, x.used, With(inodes, file, x.inode), x.data,
                Append(x.order, InodeWrite(file)), TRUE)

\* The loop begins in the states of a write.
LEMMA FirstTurnWrites ==
    ASSUME SoundNow, NEW fd, CanWrite(fd), NEW size \in Nat, NEW value
    PROVE  LET file == open_files[fd].inode_num
               from == open_files[fd].offset
               w == FirstTurn(fd, size)
           IN  /\ w \in Writing(file, from, size, value)
               /\ w.inode = inodes[file] /\ w.data = blocks
               /\ w.order = <<>> /\ w.offset = from /\ w.left = size
<1> DEFINE file == open_files[fd].inode_num
           from == open_files[fd].offset
           start == FirstTurn(fd, size)
<1>1. /\ file \in inode_bitmap /\ inodes[file].type = "REGULAR"
      /\ from <= inodes[file].size /\ from \in Nat
  BY DEF CanWrite
<1>2. /\ file \in Inodes /\ inodes \in InodeTable /\ inodes[file] \in Inode
      /\ blocks \in Disk /\ data_bitmap \in SUBSET Blocks
      /\ Sound(inode_bitmap, data_bitmap, inodes, blocks, {})
  BY <1>1 DEF SoundNow, Sound, Typed, InodeTable
<1>3. <<>> \in Seq({BlockWrite(b) : b \in Blocks})
  OBVIOUS
<1>4. With(inodes, file, inodes[file]) = inodes
  BY <1>2 DEF With, InodeTable
<1>5. inodes[file].size \in Nat
  BY <1>2, InodeFields
<1>6. /\ start.inode = inodes[file] /\ start.data = blocks /\ start.used = data_bitmap
      /\ start.order = <<>> /\ start.offset = from /\ start.left = size
  BY DEF FirstTurn
<1>7. start \in WriteState
  <2>1. start = [inode |-> inodes[file], data |-> blocks, used |-> data_bitmap,
                 order |-> <<>>, offset |-> from, left |-> size]
    BY DEF FirstTurn
  <2> HIDE DEF file, from, start
  <2> QED BY <1>1, <1>2, <1>3, <2>1 DEF WriteState
<1> HIDE DEF start, file, from
<1>8. \A n \in inode_bitmap : Untouched(inodes, blocks, inodes, blocks, n)
  BY DEF Untouched, Holds
<1>9. start \in Going(file)
  BY <1>1, <1>2, <1>4, <1>5, <1>6, <1>7, <1>8 DEF Going
<1>10. Grown(inodes[file].size, from) = inodes[file].size
  BY <1>1, <1>5 DEF Grown
<1>11. \A p \in Int : ~(from <= p /\ p < from)
  BY <1>1
<1>12. start \in Writing(file, from, size, value)
  BY <1>1, <1>5, <1>6, <1>9, <1>10, <1>11 DEF Writing
<1> QED BY <1>6, <1>12 DEF start, file, from

\* A write ends where its loop has got, in every set the turns stay in.
LEMMA WrittenFileIs ==
    ASSUME NEW fd, NEW size, NEW value, NEW w \in WrittenFile(fd, size, value),
           NEW V, FirstTurn(fd, size) \in V, \A v \in V : Turn(v, value) \in V
    PROVE  \E x \in V : WritesUpTo(w.outcome, open_files[fd].inode_num, x)
<1> DEFINE file == open_files[fd].inode_num
           x == Written(FirstTurn(fd, size), value)
<1>1. x \in V
  BY LoopStays
<1>2. w = [outcome |-> Outcome(inode_bitmap, x.used, [inodes EXCEPT ![file] = x.inode],
                               x.data, Append(x.order, InodeWrite(file)), TRUE),
           offset  |-> x.offset]
  BY Zenon DEF WrittenFile, FirstTurn
<1>3. WritesUpTo(w.outcome, file, x)
  <2> HIDE DEF x, file
  <2> QED BY <1>2, Zenon DEF WritesUpTo, With
<1> QED BY <1>1, <1>3

\* A write that is broken off has written its inode or not; the inode comes
\* last, and the blocks of other files are not its own.
LEMMA WriteBroken ==
    ASSUME SoundNow, NEW file \in inode_bitmap, inodes[file].type = "REGULAR",
           NEW x \in Going(file), NEW o, WritesUpTo(o, file, x), NEW k \in Nat, BrokenOff(o, k)
    PROVE  /\ Fine(o) /\ o.saves = TRUE /\ o.inode_bitmap = inode_bitmap
           /\ o.order = Append(x.order, InodeWrite(file))
           /\ inodes' \in InodeTable /\ blocks' \in Disk
           /\ \A b \in Blocks :
                blocks'[b] = IF MadeBy(o.order, k, BlockWrite(b)) THEN x.data[b] ELSE blocks[b]
           /\ \/ inodes' = inodes
              \/ inodes' = With(inodes, file, x.inode) /\ k > Len(x.order)
<1>1. /\ o.inode_bitmap = inode_bitmap /\ o.data_bitmap = x.used
      /\ o.inodes = With(inodes, file, x.inode) /\ o.blocks = x.data
      /\ o.order = Append(x.order, InodeWrite(file)) /\ o.saves = TRUE
  BY Zenon DEF WritesUpTo, Outcome
<1>2. /\ x.inode \in Inode /\ x.order \in Seq({BlockWrite(b) : b \in Blocks})
      /\ Sound(inode_bitmap, x.used, With(inodes, file, x.inode), x.data, {})
  BY WriteStateFields DEF Going
<1>3. Fine(o)
  BY <1>1, <1>2 DEF Fine
<1>4. file \in Inodes /\ inodes \in [Inodes -> Inode]
  BY DEF SoundNow, Sound, Typed, InodeTable
<1>5. o.order \in Seq(Writes)
  <2>1. {BlockWrite(b) : b \in Blocks} \subseteq Writes /\ InodeWrite(file) \in Writes
    BY <1>4 DEF Writes
  <2>2. x.order \in Seq(Writes)
    BY <1>2, <2>1
  <2> HIDE DEF Writes
  <2> QED BY <1>1, <2>1, <2>2
<1>6. inodes' \in InodeTable /\ blocks' \in Disk
  BY <1>1, <1>3, <1>5, BrokenIsTyped
<1>7. /\ \A n \in Inodes :
           inodes'[n] = IF MadeBy(o.order, k, InodeWrite(n)) THEN o.inodes[n] ELSE inodes[n]
      /\ \A b \in Blocks :
           blocks'[b] = IF MadeBy(o.order, k, BlockWrite(b)) THEN o.blocks[b] ELSE blocks[b]
      /\ inodes' = [n \in Inodes |-> inodes'[n]]
  BY <1>1, <1>5, BrokenOffIs
<1>8. \A n \in Inodes : MadeBy(o.order, k, InodeWrite(n)) => n = file /\ k > Len(x.order)
  <2> SUFFICES ASSUME NEW n \in Inodes, NEW i \in 1..Len(o.order), i <= k,
                      o.order[i] = InodeWrite(n)
               PROVE  n = file /\ k > Len(x.order)
    BY DEF MadeBy
  <2>1. /\ Len(o.order) = Len(x.order) + 1 /\ o.order[Len(x.order) + 1] = InodeWrite(file)
        /\ \A j \in 1..Len(x.order) : o.order[j] = x.order[j]
        /\ Len(x.order) \in Nat
    BY <1>1, <1>2
  <2>2. CASE i \in 1..Len(x.order)
    <3>1. x.order[i] \in {BlockWrite(b) : b \in Blocks}
      BY <1>2, <2>2
    <3> QED BY <2>1, <2>2, <3>1, WritesDiffer
  <2>3. CASE i \notin 1..Len(x.order)
    <3>1. i = Len(x.order) + 1
      BY <2>1, <2>3
    <3> QED BY <2>1, <3>1, WritesDiffer
  <2> QED BY <2>2, <2>3
<1>9. /\ With(inodes, file, x.inode) = [n \in Inodes |-> With(inodes, file, x.inode)[n]]
      /\ With(inodes, file, x.inode)[file] = x.inode
      /\ \A n \in Inodes : n # file => With(inodes, file, x.inode)[n] = inodes[n]
  BY <1>2, <1>4 DEF With
<1>10. CASE MadeBy(o.order, k, InodeWrite(file))
  <2>1. \A n \in Inodes : inodes'[n] = With(inodes, file, x.inode)[n]
    BY <1>1, <1>7, <1>8, <1>9, <1>10
  <2>2. inodes' = With(inodes, file, x.inode)
    <3> DEFINE W == With(inodes, file, x.inode)
    <3>1. W = [n \in Inodes |-> W[n]] /\ \A n \in Inodes : inodes'[n] = W[n]
      BY <1>9, <2>1
    <3> HIDE DEF W
    <3>2. inodes' = W
      BY <1>7, <3>1
    <3> QED BY <3>2 DEF W
  <2> QED BY <1>1, <1>3, <1>4, <1>6, <1>7, <1>8, <1>10, <2>2
<1>11. CASE ~MadeBy(o.order, k, InodeWrite(file))
  <2>1. \A n \in Inodes : inodes'[n] = inodes[n]
    BY <1>7, <1>8, <1>11
  <2>2. inodes' = inodes
    BY <1>4, <1>7, <2>1
  <2> QED BY <1>1, <1>3, <1>6, <1>7, <2>2
<1> QED BY <1>10, <1>11

\* It leaves the paths, and the other files.
LeavesWrite(file) ==
    /\ SamePathsTo(inode_bitmap)
    /\ \A n \in inode_bitmap \ {file} : Shown(n)
    /\ inodes'[file].type = "REGULAR"

\* So a crash in a write leaves the shape of a disk.
LEMMA WriteCrash ==
    ASSUME SoundNow, NEW file \in inode_bitmap, inodes[file].type = "REGULAR",
           NEW x \in Going(file), NEW o, WritesUpTo(o, file, x), NEW k \in Nat, BrokenOff(o, k)
    PROVE  /\ \E db : LeavesShape(o, inode_bitmap, db)
           /\ LeavesWrite(file)
<1>1. /\ Fine(o) /\ o.inode_bitmap = inode_bitmap
      /\ inodes' \in InodeTable /\ blocks' \in Disk
      /\ \A b \in Blocks : blocks'[b] \in {x.data[b], blocks[b]}
      /\ \/ inodes' = inodes
         \/ inodes' = With(inodes, file, x.inode)
  BY WriteBroken
<1>2. o.inodes = With(inodes, file, x.inode) /\ o.blocks = x.data
  BY Zenon DEF WritesUpTo, Outcome
<1>3. /\ inode_bitmap \subseteq Inodes /\ inodes \in InodeTable /\ x.inode \in Inode
      /\ With(inodes, file, x.inode)[file] = x.inode /\ x.inode.type = "REGULAR"
      /\ \A n \in Inodes : n # file => With(inodes, file, x.inode)[n] = inodes[n]
  <2>1. /\ inode_bitmap \subseteq Inodes /\ inodes \in InodeTable /\ x.inode \in Inode
        /\ x.inode.type = "REGULAR"
    BY WriteStateFields DEF SoundNow, Sound, Typed, Going
  <2> QED BY <2>1, TableWith
<1>4. \A n \in inode_bitmap \ {file} :
        /\ inodes'[n] = inodes[n]
        /\ \A i \in Indices(inodes[n]) :
             /\ inodes[n].direct_blocks[i] \in Blocks
             /\ x.data[inodes[n].direct_blocks[i]] = blocks[inodes[n].direct_blocks[i]]
             /\ blocks'[inodes[n].direct_blocks[i]] = blocks[inodes[n].direct_blocks[i]]
  <2> SUFFICES ASSUME NEW n \in inode_bitmap \ {file}
               PROVE  /\ inodes'[n] = inodes[n]
                      /\ \A i \in Indices(inodes[n]) :
                           /\ inodes[n].direct_blocks[i] \in Blocks
                           /\ x.data[inodes[n].direct_blocks[i]] = blocks[inodes[n].direct_blocks[i]]
                           /\ blocks'[inodes[n].direct_blocks[i]] = blocks[inodes[n].direct_blocks[i]]
    OBVIOUS
  <2>1. inodes'[n] = inodes[n]
    BY <1>1, <1>3
  <2>2. \A i \in Indices(inodes[n]) : inodes[n].direct_blocks[i] \in Blocks
    BY DEF SoundNow, Sound, Typed, Accounted
  <2>3. \A i \in Indices(inodes[n]) :
          x.data[With(inodes, file, x.inode)[n].direct_blocks[i]]
            = blocks[inodes[n].direct_blocks[i]]
    BY DEF Going, Untouched, Holds
  <2>4. With(inodes, file, x.inode)[n] = inodes[n]
    BY <1>3
  <2> QED BY <1>1, <2>1, <2>2, <2>3, <2>4
<1>5. \A n \in inode_bitmap \ {file} : Shown(n)
  <2> TAKE n \in inode_bitmap \ {file}
  <2>1. Untouched(inodes, blocks, inodes', blocks', n)
    BY <1>4 DEF Untouched, Holds
  <2>2. Covered(inode_bitmap, inodes) /\ inode_bitmap \in SUBSET Inodes
    BY DEF SoundNow, Sound, Typed
  <2>3. inodes[n].type = "REGULAR" => ContentsIn(inodes'[n], blocks') = ContentsIn(inodes[n], blocks)
    BY <1>3, <2>1, <2>2, HeldContents
  <2> QED BY <1>4, <2>3 DEF Shown
<1>6. inodes'[file].type = "REGULAR"
  BY <1>1, <1>3
<1>7. CASE inodes' = inodes
  <2>1. Like(inode_bitmap, inodes, blocks, inodes', blocks')
    BY <1>4, <1>7 DEF Like, Holds
  <2>2. /\ Shaped(inode_bitmap, data_bitmap, inodes', blocks')
        /\ SamePathsTo(inode_bitmap)
    BY <1>1, <2>1, LikeBefore
  <2> QED BY <1>1, <1>5, <1>6, <2>2 DEF LeavesShape, LeavesWrite
<1>8. CASE inodes' = With(inodes, file, x.inode)
  <2>1. Like(o.inode_bitmap, o.inodes, o.blocks, inodes', blocks')
    <3>1. \A n \in inode_bitmap \ {file} : \A i \in Indices(inodes'[n]) :
            blocks'[inodes'[n].direct_blocks[i]] = x.data[inodes'[n].direct_blocks[i]]
      BY <1>4
    <3> QED BY <1>1, <1>2, <1>6, <1>8, <3>1 DEF Like, Holds
  <2>2. /\ Shaped(inode_bitmap, o.data_bitmap, inodes', blocks')
        /\ Leads(inode_bitmap, Nested(inode_bitmap, o.inodes, o.blocks), Reach')
    BY <1>1, <2>1, LikeAfter
  <2>3. \A n \in inode_bitmap : Nested(inode_bitmap, o.inodes, o.blocks)[n] = Children[n]
    <3>1. Nested(inode_bitmap, o.inodes, o.blocks)[file] = Children[file]
      BY <1>2, <1>3 DEF Nested, Children, ChildrenIn
    <3>2. ASSUME NEW n \in inode_bitmap \ {file}
          PROVE  Untouched(inodes, blocks, o.inodes, o.blocks, n)
      BY <1>2 DEF Going
    <3> QED BY <3>1, <3>2, UntouchedNested DEF Children, ChildrenIn
  <2>4. Leads(inode_bitmap, Children, Reach)
    BY PathsFollowListings
  <2>5. SamePathsTo(inode_bitmap)
    <3> DEFINE K == Nested(inode_bitmap, o.inodes, o.blocks)
    <3>1. Leads(inode_bitmap, K, Reach') /\ \A n \in inode_bitmap : K[n] = Children[n]
      BY <2>2, <2>3
    <3> HIDE DEF K
    <3> QED BY <2>4, <3>1, SamePaths DEF SamePathsTo
  <2> QED BY <1>1, <1>5, <1>6, <2>2, <2>5 DEF LeavesShape, LeavesWrite
<1> QED BY <1>1, <1>7, <1>8

-----------------------------------------------------------------------------
(* The invariant of sessions that crash.                                    *)

\* The saved bitmaps are right but for what is in doubt.
InDoubt(ib, db) ==
    /\ Differing(inode_bitmap, ib) \subseteq doubtful.inodes
    /\ Differing(data_bitmap, db) \subseteq doubtful.blocks

\* Some bitmaps would fit the disk, and they differ from those saved only in
\* what the operation was about to change.
Recoverable ==
    \E ib, db : Shape(ib, db) /\ AllReached(ib, Reach) /\ InDoubt(ib, db)

\* The memory of a simulator that has just started.
Started ==
    /\ open_files = <<>> /\ next_fd = 3 /\ current_dir = <<>>
    /\ bitmap_dirty = FALSE /\ NothingIsUnsaved

CrashInv ==
    /\ inode_bitmap \in SUBSET Inodes /\ data_bitmap \in SUBSET Blocks
    /\ inodes \in InodeTable /\ blocks \in Disk
    /\ crashed \in {"no", "operation", "format"}
    /\ crashed = "no" => SessionInv /\ AllReached(inode_bitmap, Reach) /\ doubtful = None
    /\ crashed # "no" => Started
    /\ crashed = "operation" => Recoverable
    /\ crashed = "format" => doubtful = [inodes |-> Inodes, blocks |-> Blocks]

\* In a session nothing is in doubt.
LEMMA SessionIsRecoverable ==
    ASSUME SessionInv, AllReached(inode_bitmap, Reach)
    PROVE  Recoverable
<1>1. Shape(inode_bitmap, data_bitmap)
  BY NowIsShaped DEF SessionInv, Inv
<1>2. InDoubt(inode_bitmap, data_bitmap)
  BY DEF InDoubt, Differing
<1> QED BY <1>1, <1>2 DEF Recoverable

\* A step of a session takes away no path to an inode that stays allocated.
LEMMA SessionReaches ==
    ASSUME ~RemovesOpenFiles, SessionInv, AllReached(inode_bitmap, Reach), [Session]_cwdVars
    PROVE  AllReached(inode_bitmap', Reach')
<1>1. Inv /\ SessionInv' /\ Inv'
  BY SessionStep DEF SessionInv
<1>2. ASSUME [Operation \/ Restart]_vars
      PROVE  AllReached(inode_bitmap', Reach')
  <2>1. \/ Undisturbed
        \/ \E path, new : Gained(path, new)
        \/ \E path, file : Lost(path, file)
        \/ \E file, from, count, value : Wrote(file, from, count, value)
    BY <1>1, <1>2, StepIs
  <2>2. \/ SamePathsTo(inode_bitmap')
        \/ \E path, new : MorePaths(inode_bitmap', path, new)
        \/ \E path, file : LessPaths(inode_bitmap', path, file)
    <3>1. Undisturbed => SamePathsTo(inode_bitmap')
      BY DEF Undisturbed, SamePathsTo
    <3>2. ASSUME NEW path, NEW new, Gained(path, new)
          PROVE  MorePaths(inode_bitmap', path, new)
      BY <3>2 DEF Gained, AllBut, MorePaths
    <3>3. ASSUME NEW path, NEW file, Lost(path, file)
          PROVE  LessPaths(inode_bitmap', path, file)
      BY <3>3 DEF Lost, LessPaths
    <3>4. ASSUME NEW file, NEW from, NEW count, NEW value, Wrote(file, from, count, value)
          PROVE  SamePathsTo(inode_bitmap')
      BY <3>4 DEF Wrote, SamePathsTo
    <3> QED BY <2>1, <3>1, <3>2, <3>3, <3>4
  <2> QED BY <2>2, ReachedStays
<1>3. ASSUME Format
      PROVE  AllReached(inode_bitmap', Reach')
  <2>1. Formatted
    BY <1>1, <1>3, FormatIsFormatted DEF Inv
  <2>2. <<>> \in Paths
    BY DEF Paths
  <2> QED BY <2>1, <2>2 DEF Formatted, AllReached
<1>4. [Operation \/ Restart]_vars \/ Format
  BY DEF Session, FormatHere, Leave, ChangeDirectory, cwdVars
<1> QED BY <1>2, <1>3, <1>4

\* An outcome is one of an operation on names, or of a write.
LEMMA OutcomesAre ==
    ASSUME NEW o \in Outcomes
    PROVE  \/ \E path \in Paths \ {<<>>} : o \in NamesAt(path)
           \/ \E fd \in DOMAIN open_files, size \in Sizes, value \in Values :
                \E w \in WrittenFile(fd, size, value) : o = w.outcome
<1> DEFINE made == {Created(path) \cup MadeDirectory(path) \cup Removed(path) :
                      path \in Paths \ {<<>>}}
           written == {{w.outcome : w \in WrittenFile(fd, size, value)} :
                         fd \in DOMAIN open_files, size \in Sizes, value \in Values}
<1>1. o \in UNION made \/ o \in UNION written
  <2>1. Outcomes = (UNION made) \cup (UNION written)
    BY SMTT(20) DEF Outcomes
  <2> HIDE DEF made, written
  <2> QED BY <2>1
<1>2. ASSUME NEW S \in made, o \in S
      PROVE  \E path \in Paths \ {<<>>} : o \in NamesAt(path)
  BY <1>2 DEF NamesAt
<1>3. ASSUME NEW S \in written, o \in S
      PROVE  \E fd \in DOMAIN open_files, size \in Sizes, value \in Values :
               \E w \in WrittenFile(fd, size, value) : o = w.outcome
  <2>1. PICK fd \in DOMAIN open_files, size \in Sizes, value \in Values :
          S = {w.outcome : w \in WrittenFile(fd, size, value)}
    OBVIOUS
  <2> QED BY <1>3, <2>1
<1> HIDE DEF made, written
<1> QED BY <1>1, <1>2, <1>3

\* A crash in any operation leaves the shape of a disk, with one path more
\* or less at most.
LEMMA OutcomeCrash ==
    ASSUME Inv, NEW o \in Outcomes, NEW k \in Nat, BrokenOff(o, k)
    PROVE  /\ Fine(o) /\ o.order \in Seq(Writes) /\ o.saves \in BOOLEAN
           /\ \E ib, db :
                /\ LeavesShape(o, ib, db)
                /\ \/ SamePathsTo(ib)
                   \/ \E path, new : MorePaths(ib, path, new)
                   \/ \E path, file : LessPaths(ib, path, file)
<1>1. SoundNow
  BY DEF Inv
<1>2. \/ \E path \in Paths \ {<<>>} : o \in NamesAt(path)
      \/ \E fd \in DOMAIN open_files, size \in Sizes, value \in Values :
           \E w \in WrittenFile(fd, size, value) : o = w.outcome
  BY OutcomesAre
<1>3. CASE \E path \in Paths \ {<<>>} : o \in NamesAt(path)
  <2>1. PICK path \in Paths \ {<<>>} : o \in NamesAt(path)
    BY <1>3
  <2>2. Fine(o) /\ o.order \in Seq(Writes) /\ o.saves \in BOOLEAN
    BY <1>1, <2>1, NameOutcomes DEF OfNames
  <2>3. PICK ib, db : LeavesShape(o, ib, db) /\ LeavesNames(ib, path)
    BY <1>1, <2>1, NamesCrash
  <2> QED BY <2>2, <2>3 DEF LeavesNames
<1>4. ASSUME NEW fd \in DOMAIN open_files, NEW size \in Sizes, NEW value \in Values,
             NEW w \in WrittenFile(fd, size, value), o = w.outcome
      PROVE  /\ Fine(o) /\ o.order \in Seq(Writes) /\ o.saves \in BOOLEAN
             /\ \E db : LeavesShape(o, inode_bitmap, db)
             /\ SamePathsTo(inode_bitmap)
  <2> DEFINE file == open_files[fd].inode_num
  <2>1. CanWrite(fd)
    BY DEF Inv, OpenFilesAreLive, Descriptors, CanWrite
  <2>2. /\ file \in inode_bitmap /\ inodes[file].type = "REGULAR" /\ file \in Inodes
        /\ size \in Nat
    BY <1>1, <2>1 DEF CanWrite, SoundNow, Sound, Typed
  <2>3. FirstTurn(fd, size) \in Going(file)
    BY <1>1, <2>1, <2>2, FirstTurnWrites DEF Writing
  <2>4. \A v \in Going(file) : Turn(v, value) \in Going(file)
    BY <1>1, <2>2, TurnKeeps
  <2>5. PICK x \in Going(file) : WritesUpTo(o, file, x)
    BY <1>4, <2>3, <2>4, WrittenFileIs
  <2> HIDE DEF file
  <2>6. Fine(o) /\ o.saves = TRUE /\ o.order = Append(x.order, InodeWrite(file))
    BY <1>1, <2>2, <2>5, WriteBroken
  <2>7. o.order \in Seq(Writes)
    <3>1. {BlockWrite(b) : b \in Blocks} \subseteq Writes /\ InodeWrite(file) \in Writes
      BY <2>2 DEF Writes
    <3>2. x.order \in Seq({BlockWrite(b) : b \in Blocks})
      BY WriteStateFields DEF Going
    <3>3. x.order \in Seq(Writes)
      BY <3>1, <3>2
    <3> HIDE DEF Writes
    <3> QED BY <2>6, <3>1, <3>3
  <2>8. (\E db : LeavesShape(o, inode_bitmap, db)) /\ SamePathsTo(inode_bitmap)
    BY <1>1, <2>2, <2>5, WriteCrash DEF LeavesWrite
  <2> QED BY <2>6, <2>7, <2>8
<1> QED BY <1>2, <1>3, <1>4

\* So what it leaves is right but for what the operation was about to change.
LEMMA CrashInOperationKeeps ==
    ASSUME SessionInv, AllReached(inode_bitmap, Reach), CrashInOperation
    PROVE  CrashInv'
<1>1. PICK o \in Outcomes, k \in 0..MaxWrites : BrokenOff(o, k)
  BY DEF CrashInOperation
<1>2. k \in Nat /\ Remounted /\ Inv
  BY <1>1 DEF CrashInOperation, MaxWrites, SessionInv
<1>3. /\ Fine(o) /\ o.order \in Seq(Writes) /\ o.saves \in BOOLEAN
      /\ \E ib, db :
           /\ LeavesShape(o, ib, db)
           /\ \/ SamePathsTo(ib)
              \/ \E path, new : MorePaths(ib, path, new)
              \/ \E path, file : LessPaths(ib, path, file)
  BY <1>1, <1>2, OutcomeCrash
<1>4. PICK ib, db :
        /\ LeavesShape(o, ib, db)
        /\ \/ SamePathsTo(ib)
           \/ \E path, new : MorePaths(ib, path, new)
           \/ \E path, file : LessPaths(ib, path, file)
  BY <1>3
<1>5. AllReached(ib, Reach')
  BY <1>4, ReachedStays
<1>6. /\ saved'.inodes \in {saved.inodes, o.inode_bitmap}
      /\ saved'.blocks \in {saved.blocks, o.data_bitmap}
      /\ saved' = [inodes |-> saved'.inodes, blocks |-> saved'.blocks]
      /\ doubtful' = [inodes |-> Differing(inode_bitmap, o.inode_bitmap),
                      blocks |-> Differing(data_bitmap, o.data_bitmap)]
      /\ crashed' = "operation"
  BY <1>1, <1>2, <1>3, BrokenOffIs
<1>7. /\ inode_bitmap' \in {inode_bitmap, o.inode_bitmap}
      /\ data_bitmap' \in {data_bitmap, o.data_bitmap}
  BY <1>2, <1>6 DEF Remounted, Inv, NothingIsUnsaved
<1>8. InDoubt(ib, db)'
  BY <1>4, <1>6, <1>7 DEF InDoubt, Differing, LeavesShape
<1>9. Recoverable'
  <2>1. Shape(ib, db)'
    BY <1>4 DEF Shape, LeavesShape
  <2> QED BY <1>5, <1>8, <2>1 DEF Recoverable, AllReached
<1>10. Started'
  BY <1>2, <1>6 DEF Remounted, Started, NothingIsUnsaved
<1>11. /\ inode_bitmap' \in SUBSET Inodes /\ data_bitmap' \in SUBSET Blocks
       /\ inodes' \in InodeTable /\ blocks' \in Disk
  BY <1>2, <1>3, <1>4, <1>7 DEF LeavesShape, Fine, Inv, SoundNow, Sound, Typed
<1> QED BY <1>6, <1>9, <1>10, <1>11 DEF CrashInv

\* A crash in format() leaves an inode table and blocks, of whatever kind.
LEMMA CrashInFormatKeeps ==
    ASSUME CrashInv, NEW k \in Nat, CrashInFormat(k)
    PROVE  CrashInv'
<1>1. 0 \in Blocks /\ ROOT_INODE \in Inodes
  BY Numbers
<1>2. /\ inodes \in InodeTable /\ blocks \in Disk
      /\ saved.inodes \in SUBSET Inodes /\ saved.blocks \in SUBSET Blocks
  BY DEF CrashInv, SessionInv, Inv, Started, NothingIsUnsaved
<1>3. /\ saved'.inodes \in SUBSET Inodes /\ saved'.blocks \in SUBSET Blocks
      /\ saved' = [inodes |-> saved'.inodes, blocks |-> saved'.blocks]
  BY <1>1, <1>2 DEF CrashInFormat
<1>4. inodes' \in InodeTable
  <2>1. FormattedInodes \in InodeTable
    BY <1>2, SoundFormatted DEF Sound, Typed
  <2>2. NewInode("NONE") \in Inode
    BY NewInodeIs
  <2> DEFINE value(n) == IF n = ROOT_INODE /\ k > NumInodes + 2 THEN FormattedInodes[n]
                         ELSE IF k > n + 2 THEN NewInode("NONE") ELSE inodes[n]
  <2>3. inodes' = [n \in Inodes |-> value(n)]
    BY DEF CrashInFormat
  <2>4. \A n \in Inodes : value(n) \in Inode
    BY <1>2, <2>1, <2>2 DEF InodeTable
  <2> HIDE DEF value
  <2> QED BY <2>3, <2>4 DEF InodeTable
<1>5. blocks' \in Disk
  <2>1. RootBlock \in Block
    BY <1>1, EntryType, NewDirectoryBlockIs DEF RootBlock
  <2>2. blocks' \in {blocks, With(blocks, 0, RootBlock)}
    BY DEF CrashInFormat, With
  <2> QED BY <1>1, <1>2, <2>1, <2>2, DiskWith
<1>6. Started' /\ inode_bitmap' = saved'.inodes /\ data_bitmap' = saved'.blocks
  BY <1>3 DEF CrashInFormat, Remounted, Started, NothingIsUnsaved
<1> QED BY <1>3, <1>4, <1>5, <1>6 DEF CrashInFormat, CrashInv

\* On the same disk paths lead where they led.
LEMMA SameDiskSamePaths ==
    ASSUME NEW ib, NEW db, Shape(ib, db), inodes' = inodes, blocks' = blocks
    PROVE  Reach' = Reach
<1>1. Shaped(ib, db, inodes', blocks') /\ Listings(ib) = ChildrenIn(ib)
  BY DEF Shape, Listings, ChildrenIn
<1>2. Leads(ib, ChildrenIn(ib), Reach') /\ Leads(ib, ChildrenIn(ib), Reach)
  BY <1>1, PathsFollowThen, PathsFollowListingsIn
<1> QED BY <1>2, SamePaths

\* Simulators that start anew find the same.
LEMMA CrashInvStays ==
    ASSUME CrashInv, crashed # "no", UNCHANGED crashVars
    PROVE  CrashInv'
<1>1. /\ UNCHANGED <<inode_bitmap, data_bitmap, bitmap_dirty, superblock, saved>>
      /\ UNCHANGED <<open_files, next_fd, current_dir, inodes, blocks, crashed, doubtful>>
  BY DEF crashVars, cwdVars, vars, memory, files
<1>2. Started'
  BY <1>1 DEF CrashInv, Started, NothingIsUnsaved
<1>3. ASSUME crashed = "operation"
      PROVE  Recoverable'
  <2>1. PICK ib, db : Shape(ib, db) /\ AllReached(ib, Reach) /\ InDoubt(ib, db)
    BY <1>3 DEF CrashInv, Recoverable
  <2>2. Reach' = Reach
    BY <1>1, <2>1, SameDiskSamePaths
  <2>3. Shape(ib, db)' /\ AllReached(ib, Reach)' /\ InDoubt(ib, db)'
    BY <1>1, <2>1, <2>2 DEF Shape, AllReached, InDoubt
  <2> QED BY <2>3 DEF Recoverable
<1> QED BY <1>1, <1>2, <1>3 DEF CrashInv

\* Mounting again, or leaving and starting again, changes nothing then.
LEMMA StartedAgain ==
    ASSUME Started, (Mount /\ UNCHANGED current_dir) \/ Leave
    PROVE  UNCHANGED cwdVars
BY DEF Started, NothingIsUnsaved, Mount, Leave, Restart, files, cwdVars, vars, memory

\* A format leaves nothing in doubt.
LEMMA RecoverKeeps ==
    ASSUME ~RemovesOpenFiles, CrashInv, Recover
    PROVE  CrashInv' /\ crashed' = "no"
<1>1. Format /\ current_dir' = <<>> /\ open_files = <<>> /\ crashed' = "no" /\ doubtful' = None
  BY DEF Recover, FormatHere, Format
<1>2. Descriptors
  <2>1. CASE crashed = "no"
    BY <2>1 DEF CrashInv, SessionInv, Inv
  <2>2. CASE crashed # "no"
    <3>1. next_fd = 3 /\ 3 \in 3..MaxFd + 1 /\ DOMAIN open_files = {}
      BY <1>1, <2>2 DEF CrashInv, Started
    <3>2. open_files = [fd \in DOMAIN open_files |-> open_files[fd]]
      BY <1>1
    <3> QED BY <3>1, <3>2 DEF Descriptors
  <2> QED BY <2>1, <2>2
<1>3. Inv'
  BY <1>1, <1>2, FormatRestores DEF CrashInv
<1>4. Formatted
  BY <1>1, <1>3, FormatIsFormatted DEF Inv
<1>5. AllReached(inode_bitmap', Reach')
  <2>1. <<>> \in Paths
    BY DEF Paths
  <2> QED BY <1>4, <2>1 DEF Formatted, AllReached
<1>6. SessionInv'
  BY <1>1, <1>3, <1>4, PathCases DEF SessionInv, Formatted
<1>7. /\ inode_bitmap' \in SUBSET Inodes /\ data_bitmap' \in SUBSET Blocks
      /\ inodes' \in InodeTable /\ blocks' \in Disk
  BY <1>3 DEF Inv, SoundNow, Sound, Typed
<1> QED BY <1>1, <1>5, <1>6, <1>7 DEF CrashInv, AllReached

\* The first session starts with a new file system.
LEMMA CrashStarts == CrashInit => CrashInv
<1> SUFFICES ASSUME CrashInit PROVE CrashInv
  OBVIOUS
<1>1. SessionInv /\ crashed = "no" /\ doubtful = None
  BY SessionStarts DEF CrashInit
<1>2. AllReached(inode_bitmap, Reach)
  <2>1. inode_bitmap = {ROOT_INODE}
    BY DEF CrashInit, SessionInit, Init
  <2>2. Reach[<<>>] = {ROOT_INODE}
    BY <1>1, PathsFollowListings DEF SessionInv, Inv, Leads
  <2>3. <<>> \in Paths
    BY DEF Paths
  <2> QED BY <2>1, <2>2, <2>3 DEF AllReached
<1>3. /\ inode_bitmap \in SUBSET Inodes /\ data_bitmap \in SUBSET Blocks
      /\ inodes \in InodeTable /\ blocks \in Disk
  BY <1>1 DEF SessionInv, Inv, SoundNow, Sound, Typed
<1> QED BY <1>1, <1>2, <1>3 DEF CrashInv

\* Every step keeps this, the crashes included.
LEMMA CrashStep ==
    ASSUME ~RemovesOpenFiles, CrashInv, [CrashNext]_crashVars
    PROVE  CrashInv'
<1>1. ASSUME crashed = "no", [Session]_cwdVars, UNCHANGED <<crashed, doubtful>>
      PROVE  CrashInv'
  <2>1. SessionInv /\ AllReached(inode_bitmap, Reach) /\ doubtful = None
    BY <1>1 DEF CrashInv
  <2>2. SessionInv' /\ AllReached(inode_bitmap', Reach')
    BY <1>1, <2>1, SessionStep, SessionReaches
  <2>3. /\ inode_bitmap' \in SUBSET Inodes /\ data_bitmap' \in SUBSET Blocks
        /\ inodes' \in InodeTable /\ blocks' \in Disk
    BY <2>2 DEF SessionInv, Inv, SoundNow, Sound, Typed
  <2> QED BY <1>1, <2>1, <2>2, <2>3 DEF CrashInv, AllReached
<1>2. ASSUME crashed # "no", (Mount /\ UNCHANGED current_dir) \/ Leave,
             UNCHANGED <<crashed, doubtful>>
      PROVE  CrashInv'
  <2>1. UNCHANGED crashVars
    BY <1>2, StartedAgain DEF CrashInv, crashVars
  <2> QED BY <1>2, <2>1, CrashInvStays
<1>3. ASSUME Recover
      PROVE  CrashInv'
  BY <1>3, RecoverKeeps
<1>4. ASSUME crashed = "no", CrashInOperation
      PROVE  CrashInv'
  BY <1>4, CrashInOperationKeeps DEF CrashInv
<1>5. ASSUME NEW k \in 0..NumInodes + 6, CrashInFormat(k)
      PROVE  CrashInv'
  <2>1. k \in Nat
    OBVIOUS
  <2> QED BY <1>5, <2>1, CrashInFormatKeeps
<1>6. CASE UNCHANGED crashVars
  <2>1. CASE crashed = "no"
    BY <1>1, <1>6, <2>1 DEF crashVars
  <2>2. CASE crashed # "no"
    BY <1>6, <2>2, CrashInvStays
  <2> QED BY <2>1, <2>2
<1>7. CASE CrashNext
  BY <1>1, <1>2, <1>3, <1>4, <1>5, <1>7 DEF CrashNext, Crash
<1> QED BY <1>6, <1>7

\* However often the simulator crashes: in a session the invariant of
\* sessions without crashes holds, and after a crash in an operation some
\* bitmaps would fit the disk that differ from those saved at most where the
\* operation was about to change them.
THEOREM CrashInvHolds == ASSUME ~RemovesOpenFiles PROVE CrashSpec => []CrashInv
<1>1. CrashInv /\ [CrashNext]_crashVars => CrashInv'
  BY CrashStep
<1> QED BY <1>1, CrashStarts, PTL DEF CrashSpec

-----------------------------------------------------------------------------
(* What it says.                                                            *)

\* Once formatted, the disk is sound again, whatever a crash had left: blocks
\* are accounted for, directories are a tree, and the bitmaps are saved.
THEOREM FormatAlwaysRepairs ==
    ASSUME ~RemovesOpenFiles PROVE CrashSpec => []FormatRepairs
<1>1. ASSUME CrashInv PROVE FormatRepairs
  BY <1>1, InvAccounts, InvIsATree DEF FormatRepairs, CrashInv, SessionInv, Inv
<1>2. CrashInv => FormatRepairs
  BY <1>1
<1> QED BY <1>2, CrashInvHolds, PTL

\* The root of a disk with the shape of one is a directory.
LEMMA ShapeHasRoot ==
    ASSUME NEW ib, NEW db, Shape(ib, db)
    PROVE  Reach[<<>>] = {ROOT_INODE} /\ inodes[ROOT_INODE].type = "DIRECTORY"
BY PathsFollowListingsIn DEF Leads, Shape, Shaped, Rooted, Directories

\* No crash in an operation takes the current directory away: in a session
\* it is live, and a session after such a crash starts in the root directory.
THEOREM DirectoryIsLiveUnlessFormatting ==
    ASSUME ~RemovesOpenFiles PROVE CrashSpec => []DirectoryUnlessFormatting
<1>1. ASSUME CrashInv, crashed # "format" PROVE CurrentDirectoryIsLive
  <2>1. CASE crashed = "no"
    BY <1>1, <2>1, IsDirectoryIs DEF CrashInv, SessionInv, CurrentDirectoryIsLive
  <2>2. CASE crashed = "operation"
    <3>1. current_dir = <<>> /\ Recoverable
      BY <1>1, <2>2 DEF CrashInv, Started
    <3>2. \E n \in Reach[<<>>] : inodes[n].type = "DIRECTORY"
      BY <3>1, ShapeHasRoot DEF Recoverable
    <3> QED BY <3>1, <3>2, IsDirectoryIs, PathCases DEF CurrentDirectoryIsLive
  <2> QED BY <1>1, <2>1, <2>2 DEF CrashInv
<1>2. CrashInv => DirectoryUnlessFormatting
  BY <1>1 DEF DirectoryUnlessFormatting
<1> QED BY <1>2, CrashInvHolds, PTL

-----------------------------------------------------------------------------
(* What a crash in format() leaves.                                         *)

\* Some bitmaps would fit the disk.
Whole == \E ib, db : Shape(ib, db) /\ AllReached(ib, Reach)

\* The inode of the root directory is cleared, others may be cleared.
Emptied == inodes[ROOT_INODE] = NewInode("NONE")

\* Only the root directory has an inode; its block may not be written yet.
Begins ==
    /\ inodes[ROOT_INODE] = FormattedInodes[ROOT_INODE]
    /\ \A n \in Inodes \ {ROOT_INODE} : inodes[n] = NewInode("NONE")

HalfFormatted == crashed = "format" => Whole \/ Emptied \/ Begins

\* A disk that stays as it is.
LEMMA HalfFormatStays ==
    ASSUME Whole \/ Emptied \/ Begins, inodes' = inodes, blocks' = blocks
    PROVE  (Whole \/ Emptied \/ Begins)'
<1>1. ASSUME Whole
      PROVE  Whole'
  <2>1. PICK ib, db : Shape(ib, db) /\ AllReached(ib, Reach)
    BY <1>1 DEF Whole
  <2>2. Reach' = Reach
    BY <2>1, SameDiskSamePaths
  <2>3. Shape(ib, db)' /\ AllReached(ib, Reach)'
    BY <2>1, <2>2 DEF Shape, AllReached
  <2> QED BY <2>3 DEF Whole
<1> QED BY <1>1 DEF Emptied, Begins

\* Before the first crash, and after one in an operation, some bitmaps fit.
LEMMA WholeUnlessFormatting ==
    ASSUME CrashInv, HalfFormatted
    PROVE  Whole \/ Emptied \/ Begins
<1>1. CASE crashed = "no"
  BY <1>1, SessionIsRecoverable DEF CrashInv, Recoverable, Whole
<1>2. CASE crashed = "operation"
  BY <1>2 DEF CrashInv, Recoverable, Whole
<1>3. CASE crashed = "format"
  BY <1>3 DEF HalfFormatted
<1> QED BY <1>1, <1>2, <1>3 DEF CrashInv

\* A crash in format() breaks it off before the inode of the root directory
\* is cleared, before it is written, before its block is, or later.
LEMMA CrashInFormatLeaves ==
    ASSUME CrashInv, HalfFormatted, NEW k \in Nat, CrashInFormat(k)
    PROVE  (Whole \/ Emptied \/ Begins)'
<1> DEFINE table == NumInodes + 2
           value(n) == IF n = ROOT_INODE /\ k > table THEN FormattedInodes[n]
                       ELSE IF k > n + 2 THEN NewInode("NONE") ELSE inodes[n]
<1>1. /\ inodes' = [n \in Inodes |-> value(n)]
      /\ blocks' = IF k > table + 1 THEN [blocks EXCEPT ![0] = RootBlock] ELSE blocks
  BY DEF CrashInFormat
<1>2. /\ NumInodes \in Nat \ {0} /\ ROOT_INODE \in Inodes
      /\ inodes \in InodeTable /\ blocks \in Disk
  BY Numbers, FileSystemAssumption DEF CrashInv
<1>3. CASE k <= 2
  <2>1. \A n \in Inodes : value(n) = inodes[n]
    BY <1>2, <1>3 DEF Inodes
  <2>2. inodes' = [n \in Inodes |-> inodes[n]]
    <3> HIDE DEF value
    <3> QED BY <1>1, <2>1
  <2>3. inodes' = inodes
    BY <1>2, <2>2 DEF InodeTable
  <2>4. blocks' = blocks
    BY <1>1, <1>2, <1>3
  <2> QED BY <2>3, <2>4, WholeUnlessFormatting, HalfFormatStays
<1>4. CASE k > 2 /\ k <= table
  <2>1. value(ROOT_INODE) = NewInode("NONE")
    BY <1>2, <1>4 DEF ROOT_INODE
  <2>2. inodes'[ROOT_INODE] = NewInode("NONE")
    <3> HIDE DEF value
    <3> QED BY <1>1, <1>2, <2>1
  <2> QED BY <2>2 DEF Emptied
<1>5. CASE k > table
  <2>1. value(ROOT_INODE) = FormattedInodes[ROOT_INODE]
    BY <1>5
  <2>2. \A n \in Inodes \ {ROOT_INODE} : value(n) = NewInode("NONE")
    BY <1>2, <1>5 DEF Inodes
  <2>3. /\ inodes'[ROOT_INODE] = FormattedInodes[ROOT_INODE]
        /\ \A n \in Inodes \ {ROOT_INODE} : inodes'[n] = NewInode("NONE")
    <3> HIDE DEF value
    <3> QED BY <1>1, <1>2, <2>1, <2>2
  <2> QED BY <2>3 DEF Begins
<1> QED
  <2>1. k <= 2 \/ (k > 2 /\ k <= table) \/ k > table
    BY <1>2
  <2> QED BY <1>3, <1>4, <1>5, <2>1

\* Every step keeps this.
LEMMA HalfFormatStep ==
    ASSUME CrashInv, HalfFormatted, [CrashNext]_crashVars
    PROVE  HalfFormatted'
<1>1. CASE UNCHANGED crashVars
  BY <1>1, HalfFormatStays DEF crashVars, cwdVars, vars, HalfFormatted
<1>2. ASSUME NEW k \in 0..NumInodes + 6, CrashInFormat(k)
      PROVE  HalfFormatted'
  <2>1. k \in Nat
    OBVIOUS
  <2> QED BY <1>2, <2>1, CrashInFormatLeaves DEF HalfFormatted
<1>3. ASSUME crashed # "no", (Mount /\ UNCHANGED current_dir) \/ Leave,
             UNCHANGED <<crashed, doubtful>>
      PROVE  HalfFormatted'
  <2>1. UNCHANGED cwdVars
    BY <1>3, StartedAgain DEF CrashInv
  <2> QED BY <1>3, <2>1, HalfFormatStays DEF cwdVars, vars, HalfFormatted
<1>4. CASE crashed' # "format"
  BY <1>4 DEF HalfFormatted
<1>5. CASE CrashNext /\ crashed' = "format"
  BY <1>2, <1>3, <1>5 DEF CrashNext, Crash, Recover, CrashInOperation, BrokenOff
<1> QED BY <1>1, <1>4, <1>5

\* The first session starts so.
LEMMA HalfFormatStarts == CrashInit => HalfFormatted
BY DEF CrashInit, HalfFormatted

\* Both invariants together.
LEMMA CrashesLeave ==
    ASSUME ~RemovesOpenFiles PROVE CrashSpec => [](CrashInv /\ HalfFormatted)
<1>1. CrashInv /\ HalfFormatted /\ [CrashNext]_crashVars => CrashInv' /\ HalfFormatted'
  BY CrashStep, HalfFormatStep
<1> QED BY <1>1, CrashStarts, HalfFormatStarts, PTL DEF CrashSpec

\* If bitmaps fit the disk and paths lead to all inodes, then paths lead to
\* the allocated inodes, and these have the allocated blocks.
LEMMA WholeIsReached ==
    ASSUME NEW ib, NEW db, Shape(ib, db), AllReached(ib, Reach)
    PROVE  Reachable = ib /\ UNION {BlocksOf(n) : n \in Reachable} = db
<1>1. \A path \in Paths : path \in NamePaths /\ Reach[path] = Lookup(path)
  BY PathsAre DEF Reach, NamePaths
<1>2. \A path \in NamePaths : Reach[path] \subseteq ib
  BY PathsFollowListingsIn DEF Leads
<1>3. Reachable = ib
  <2>1. Reachable \subseteq ib
    BY <1>1, <1>2 DEF Reachable
  <2>2. ASSUME NEW n \in ib
        PROVE  n \in Reachable
    <3>1. PICK path \in Paths : n \in Reach[path]
      BY DEF AllReached
    <3> QED BY <1>1, <3>1 DEF Reachable
  <2> QED BY <2>1, <2>2
<1>4. Accounted(ib, db, inodes)
  BY DEF Shape, Shaped
<1> DEFINE named == UNION {BlocksOf(n) : n \in ib}
<1>5. named \subseteq db
  BY <1>4 DEF Accounted, Indices, BlocksOf
<1>6. db \subseteq named
  <2> SUFFICES ASSUME NEW b \in db PROVE b \in named
    OBVIOUS
  <2>1. PICK n \in ib : \E i \in Indices(inodes[n]) : inodes[n].direct_blocks[i] = b
    BY <1>4 DEF Accounted
  <2>2. b \in BlocksOf(n)
    BY <2>1 DEF Indices, BlocksOf
  <2> QED BY <2>2
<1> QED BY <1>3, <1>5, <1>6

\* Names in the first block of a new root directory lead to inodes.
LEMMA NewRootLeads ==
    ASSUME inodes \in InodeTable, blocks \in Disk, Begins, NEW name \in Names
    PROVE  LookupIn(ROOT_INODE, name) \subseteq Inodes
<1>1. 0 \in Blocks /\ ROOT_INODE \in Inodes
  BY Numbers
<1>2. inodes[ROOT_INODE] \in Inode /\ inodes[ROOT_INODE].direct_blocks[0] = 0
      /\ Indices(inodes[ROOT_INODE]) = {0}
  <2>1. inodes[ROOT_INODE] = NewDirectoryInode(0)
    BY <1>1 DEF Begins, FormattedInodes, NewDirectoryInode
  <2> QED BY <1>1, <2>1, NewDirectoryInodeIs
<1> SUFFICES ASSUME NEW k \in Named(ROOT_INODE, name)
             PROVE  EntryAt(ROOT_INODE, k).inode_num \in Inodes
  BY DEF LookupIn
<1>3. k \in Positions(ROOT_INODE) /\ EntryAt(ROOT_INODE, k).inode_num # INVALID_INODE
  BY DEF Used, Named, Firsts
<1>4. PlaceOf(k) \in Places(inodes[ROOT_INODE])
      /\ EntryAt(ROOT_INODE, k) = At(inodes, blocks, ROOT_INODE, PlaceOf(k))
  BY <1>2, <1>3, PositionsArePlaces
<1>5. EntryAt(ROOT_INODE, k) = blocks[0].entries[PlaceOf(k)[2]]
      /\ PlaceOf(k)[2] \in 0..Slots - 1
  BY <1>2, <1>4 DEF At, Places
<1>6. blocks[0].entries \in [0..Slots - 1 -> DirectoryEntry]
  <2>1. blocks[0] \in Block
    BY <1>1 DEF Disk
  <2> QED BY <2>1, BlockFields
<1>7. EntryAt(ROOT_INODE, k) \in DirectoryEntry
  BY <1>5, <1>6
<1> QED BY <1>3, <1>7, EntryFields

\* After half a format paths lead to no more than inodes and blocks.
LEMMA HalfIsReached ==
    ASSUME inodes \in InodeTable, blocks \in Disk, Emptied \/ Begins
    PROVE  /\ Reachable \subseteq Inodes
           /\ UNION {BlocksOf(n) : n \in Reachable} \subseteq Blocks
<1>1. \A path \in Paths : path \in Seq(Names)
  BY PathsAre
<1>2. 0 \in Blocks /\ ROOT_INODE \in Inodes
  BY Numbers
<1>3. /\ NewInode("NONE").type # "DIRECTORY" /\ NewInode("NONE").blocks_used = 0
      /\ \A n : inodes[n] = NewInode("NONE") => BlocksOf(n) = {}
      /\ \A n, name : inodes[n] = NewInode("NONE") => LookupIn(n, name) = {}
  BY DEF NewInode, BlocksOf, LookupIn
<1>4. CASE Emptied
  <2>1. \A path \in Paths : Lookup(path) \subseteq {ROOT_INODE}
    <3>1. \A dir \in {ROOT_INODE} : \A name \in Names : LookupIn(dir, name) \subseteq {ROOT_INODE}
      BY <1>3, <1>4 DEF Emptied
    <3> QED BY <1>1, <3>1, LookupWalks
  <2>2. Reachable \subseteq {ROOT_INODE}
    BY <2>1 DEF Reachable
  <2>3. BlocksOf(ROOT_INODE) = {}
    BY <1>3, <1>4 DEF Emptied
  <2> QED BY <1>2, <2>2, <2>3
<1>5. CASE Begins
  <2>1. /\ inodes[ROOT_INODE].blocks_used = 1 /\ inodes[ROOT_INODE].direct_blocks[0] = 0
        /\ Indices(inodes[ROOT_INODE]) = {0}
    <3>1. inodes[ROOT_INODE] = NewDirectoryInode(0)
      BY <1>2, <1>5 DEF Begins, FormattedInodes, NewDirectoryInode
    <3> QED BY <1>2, <3>1, NewDirectoryInodeIs
  <2>2. BlocksOf(ROOT_INODE) = {0}
    BY <2>1 DEF BlocksOf
  <2>3. \A name \in Names : LookupIn(ROOT_INODE, name) \subseteq Inodes
    BY <1>5, NewRootLeads
  <2>4. \A dir \in Inodes : \A name \in Names : LookupIn(dir, name) \subseteq Inodes
    BY <1>3, <1>5, <2>3 DEF Begins
  <2>5. \A path \in Paths : Lookup(path) \subseteq Inodes
    BY <1>1, <1>2, <2>4, LookupWalks
  <2>6. Reachable \subseteq Inodes
    BY <2>5 DEF Reachable
  <2>7. \A n \in Inodes : BlocksOf(n) \subseteq Blocks
    BY <1>2, <1>3, <1>5, <2>2 DEF Begins
  <2> QED BY <2>6, <2>7
<1> QED BY <1>4, <1>5

\* After a crash the saved bitmaps are right about every inode and block but
\* those of the operation that was broken off: what no path leads to is free,
\* and what one leads to is allocated.
THEOREM OnlyInterruptedStaysInDoubt ==
    ASSUME ~RemovesOpenFiles PROVE CrashSpec => []OnlyInterruptedIsInDoubt
<1>1. ASSUME CrashInv, HalfFormatted
      PROVE  OnlyInterruptedIsInDoubt
  <2>1. CASE crashed # "format"
    <3>1. Recoverable
      BY <1>1, <2>1, SessionIsRecoverable DEF CrashInv
    <3>2. PICK ib, db : Shape(ib, db) /\ AllReached(ib, Reach) /\ InDoubt(ib, db)
      BY <3>1 DEF Recoverable
    <3>3. Reachable = ib /\ UNION {BlocksOf(n) : n \in Reachable} = db
      BY <3>2, WholeIsReached
    <3> QED BY <3>2, <3>3 DEF InDoubt, OnlyInterruptedIsInDoubt
  <2>2. CASE crashed = "format"
    <3>1. /\ inode_bitmap \in SUBSET Inodes /\ data_bitmap \in SUBSET Blocks
          /\ inodes \in InodeTable /\ blocks \in Disk
          /\ doubtful = [inodes |-> Inodes, blocks |-> Blocks]
      BY <1>1, <2>2 DEF CrashInv
    <3>2. /\ Reachable \subseteq Inodes
          /\ UNION {BlocksOf(n) : n \in Reachable} \subseteq Blocks
      <4>1. CASE Whole
        <5>1. PICK ib, db : Shape(ib, db) /\ AllReached(ib, Reach)
          BY <4>1 DEF Whole
        <5>2. ib \subseteq Inodes /\ db \subseteq Blocks
          BY <5>1 DEF Shape, Shaped, Typed
        <5> QED BY <5>1, <5>2, WholeIsReached
      <4> QED BY <1>1, <2>2, <3>1, <4>1, HalfIsReached DEF HalfFormatted
    <3>3. doubtful.inodes = Inodes /\ doubtful.blocks = Blocks
      BY <3>1
    <3> QED BY <3>1, <3>2, <3>3 DEF OnlyInterruptedIsInDoubt, Differing
  <2> QED BY <2>1, <2>2
<1>2. CrashInv /\ HalfFormatted => OnlyInterruptedIsInDoubt
  BY <1>1
<1> QED BY <1>2, CrashesLeave, PTL

-----------------------------------------------------------------------------
(* What the user sees of the disk, as the tree of files of FileStore.       *)

SeenData == [n \in {m \in Reachable : inodes[m].type = "REGULAR"} |-> Contents(inodes[n])]

\* The data of the files, by what they depend on.
LEMMA SeenIs ==
    /\ SeenData = DataIn(Reachable, inodes, blocks)
    /\ SeenData' = DataIn(Reachable', inodes', blocks')
BY DEF SeenData, DataIn, FilesOf, Contents, ContentsIn, Cell

\* When the inodes in use are those that paths lead to, the user sees what
\* is stored.
LEMMA SeenIsStored ==
    /\ Reachable = inode_bitmap => SeenData = StoredData
    /\ Reachable' = inode_bitmap' => SeenData' = StoredData'
BY SeenIs, StoredIs

\* What is on a disk that paths lead to, at the beginning of a step.
ShapesAreReached ==
    \A ib, db : Shape(ib, db) /\ AllReached(ib, Reach) => Reachable = ib

\* On every disk.
LEMMA ShapesAreAllReached == ShapesAreReached
  BY WholeIsReached DEF ShapesAreReached

\* The same at the end.
LEMMA ShapedIsReached ==
    ASSUME NEW ib, NEW db, Shaped(ib, db, inodes', blocks'), AllReached(ib, Reach')
    PROVE  Reachable' = ib
<1>1. ShapesAreReached'
  BY ShapesAreAllReached, PTL
<1> QED BY <1>1 DEF ShapesAreReached, Shape, AllReached

-----------------------------------------------------------------------------
(* A step of what is stored is one of what is seen.                         *)

SameView == SeenData = StoredData /\ SeenData' = StoredData'

\* A descriptor is closed.
LEMMA CloseIsSeen ==
    ASSUME SameView, NEW fd, Store!Close(fd)
    PROVE  Seen!Close(fd)
<1>1. /\ fd \in DOMAIN StoredOpen
      /\ StoredOpen' = [z \in DOMAIN StoredOpen \ {fd} |-> StoredOpen[z]]
      /\ StoredNames' = StoredNames /\ StoredData' = StoredData
  BY Zenon DEF Store!Close, Store!Except, StoredNames, StoredData, StoredOpen
<1>2. SeenData' = SeenData
  BY <1>1 DEF SameView
<1> QED BY <1>1, <1>2, Zenon DEF Seen!Close, Seen!Except, StoredNames, SeenData, StoredOpen

\* A file is read.
LEMMA ReadIsSeen ==
    ASSUME SameView, NEW fd, NEW size, Store!Read(fd, size)
    PROVE  Seen!Read(fd, size)
<1> DEFINE rest(data) == Len(data[StoredOpen[fd].file]) - StoredOpen[fd].offset
           moved(data) == IF size < rest(data) THEN size ELSE rest(data)
<1>1. /\ fd \in DOMAIN StoredOpen
      /\ StoredOpen' = [StoredOpen EXCEPT ![fd].offset = @ + moved(StoredData)]
      /\ StoredNames' = StoredNames /\ StoredData' = StoredData
  BY Zenon DEF Store!Read, StoredNames, StoredData, StoredOpen
<1>2. moved(SeenData) = moved(StoredData) /\ SeenData' = SeenData
  BY <1>1 DEF SameView
<1> HIDE DEF moved
<1>3. StoredOpen' = [StoredOpen EXCEPT ![fd].offset = @ + moved(SeenData)]
  BY <1>1, <1>2
<1> QED BY <1>1, <1>2, <1>3, Zenon DEF Seen!Read, StoredNames, SeenData, StoredOpen, moved

\* A file is written.
LEMMA WriteIsSeen ==
    ASSUME SameView, NEW fd, NEW size, NEW value, Store!Write(fd, size, value)
    PROVE  Seen!Write(fd, size, value)
<1> DEFINE put(data, count) ==
             [data EXCEPT ![StoredOpen[fd].file] =
                Seen!Written(@, StoredOpen[fd].offset, count, value)]
<1>1. PICK count \in 0..size :
        /\ fd \in DOMAIN StoredOpen
        /\ StoredOpen' = [StoredOpen EXCEPT ![fd].offset = @ + count]
        /\ StoredNames' = StoredNames
        /\ StoredData' = put(StoredData, count)
  BY Zenon DEF Store!Write, Store!Overwrite, Store!Written, Seen!Written,
               StoredNames, StoredData, StoredOpen
<1> HIDE DEF put
<1>2. SeenData' = put(SeenData, count)
  BY <1>1 DEF SameView
<1> QED BY <1>1, <1>2, Zenon DEF Seen!Write, Seen!Overwrite, StoredNames, SeenData, StoredOpen, put

\* A file is opened.
LEMMA OpenIsSeen ==
    ASSUME SameView, NEW path, NEW fd, Store!Open(path, fd)
    PROVE  Seen!Open(path, fd)
<1>1. /\ fd \notin DOMAIN StoredOpen /\ path \in DOMAIN StoredNames
      /\ StoredNames[path] \in DOMAIN StoredData
      /\ StoredOpen' = [z \in DOMAIN StoredOpen \cup {fd} |->
                          IF z = fd THEN [file |-> StoredNames[path], offset |-> 0]
                          ELSE StoredOpen[z]]
      /\ StoredNames' = StoredNames /\ StoredData' = StoredData
  BY Zenon DEF Store!Open, Store!With, StoredNames, StoredData, StoredOpen
<1>2. StoredNames[path] \in DOMAIN SeenData /\ SeenData' = SeenData
  BY <1>1 DEF SameView
<1> QED BY <1>1, <1>2, Zenon DEF Seen!Open, Seen!With, StoredNames, SeenData, StoredOpen

\* A file or a directory is made, in terms of what is seen.
LEMMA MadeIsSeen ==
    ASSUME NEW path \in DOMAIN StoredNames' \ DOMAIN StoredNames, NEW file \in Inodes,
           Parent(path) \in DOMAIN StoredNames,
           StoredNames[Parent(path)] \notin DOMAIN SeenData,
           \A other \in DOMAIN StoredNames : StoredNames[other] # file,
           StoredNames' = [z \in DOMAIN StoredNames \cup {path} |->
                             IF z = path THEN file ELSE StoredNames[z]],
           \/ SeenData' = [z \in DOMAIN SeenData \cup {file} |->
                             IF z = file THEN <<>> ELSE SeenData[z]]
           \/ SeenData' = SeenData
    PROVE  Seen!Rename
<1>1. Seen!Name(path, file)
  BY Zenon DEF Seen!Name, Seen!Parent, Seen!With, Parent, StoredNames, SeenData
<1>2. Seen!MakeFile(path, file) \/ Seen!MakeDirectory(path, file)
  BY <1>1, Zenon DEF Seen!MakeFile, Seen!MakeDirectory, Seen!With, SeenData
<1> QED BY <1>2, Zenon DEF Seen!Rename, StoredNames

\* A file is removed, in terms of what is seen.
LEMMA RemovedIsSeen ==
    ASSUME NEW path \in DOMAIN StoredNames \ DOMAIN StoredNames',
           StoredNames[path] \in DOMAIN SeenData,
           \A fd \in DOMAIN StoredOpen : StoredOpen[fd].file # StoredNames[path],
           SeenData' = [z \in DOMAIN SeenData \ {StoredNames[path]} |-> SeenData[z]],
           StoredNames' = [z \in DOMAIN StoredNames \ {path} |-> StoredNames[z]]
    PROVE  Seen!Rename
<1>1. Seen!Remove(path)
  BY Zenon DEF Seen!Remove, Seen!Except, StoredNames, SeenData, StoredOpen
<1> QED BY <1>1, Zenon DEF Seen!Rename, StoredNames

\* The paths change by one.
LEMMA RenameIsSeen ==
    ASSUME SameView, Store!Rename
    PROVE  Seen!Rename
<1>1. ASSUME NEW path \in DOMAIN StoredNames \ DOMAIN StoredNames', Store!Remove(path)
      PROVE  Seen!Rename
  <2>1. /\ StoredNames[path] \in DOMAIN StoredData
        /\ \A fd \in DOMAIN StoredOpen : StoredOpen[fd].file # StoredNames[path]
        /\ StoredData' = [z \in DOMAIN StoredData \ {StoredNames[path]} |-> StoredData[z]]
        /\ StoredNames' = [z \in DOMAIN StoredNames \ {path} |-> StoredNames[z]]
    BY <1>1, Zenon DEF Store!Remove, Store!Except, StoredNames, StoredData, StoredOpen
  <2>2. /\ StoredNames[path] \in DOMAIN SeenData
        /\ SeenData' = [z \in DOMAIN SeenData \ {StoredNames[path]} |-> SeenData[z]]
    BY <2>1 DEF SameView
  <2> QED BY <1>1, <2>1, <2>2, RemovedIsSeen
<1>2. ASSUME NEW path \in DOMAIN StoredNames' \ DOMAIN StoredNames, NEW file \in Inodes,
             Store!MakeFile(path, file) \/ Store!MakeDirectory(path, file)
      PROVE  Seen!Rename
  <2>1. /\ Parent(path) \in DOMAIN StoredNames
        /\ StoredNames[Parent(path)] \notin DOMAIN StoredData
        /\ \A other \in DOMAIN StoredNames : StoredNames[other] # file
        /\ StoredNames' = [z \in DOMAIN StoredNames \cup {path} |->
                             IF z = path THEN file ELSE StoredNames[z]]
    BY <1>2, Zenon DEF Store!MakeFile, Store!MakeDirectory, Store!Name, Store!Parent,
                       Store!With, Parent, StoredNames, StoredData
  <2>2. \/ StoredData' = [z \in DOMAIN StoredData \cup {file} |->
                            IF z = file THEN <<>> ELSE StoredData[z]]
        \/ StoredData' = StoredData
    BY <1>2, Zenon DEF Store!MakeFile, Store!MakeDirectory, Store!With, StoredData
  <2>3. /\ StoredNames[Parent(path)] \notin DOMAIN SeenData
        /\ \/ SeenData' = [z \in DOMAIN SeenData \cup {file} |->
                             IF z = file THEN <<>> ELSE SeenData[z]]
           \/ SeenData' = SeenData
    BY <2>1, <2>2 DEF SameView
  <2> QED BY <1>2, <2>1, <2>3, MadeIsSeen
<1> QED BY <1>1, <1>2, Zenon DEF Store!Rename, StoredNames

\* Nothing is left but the root.
LEMMA FormatIsSeen ==
    ASSUME SameView, Store!Format
    PROVE  Seen!Format
<1>1. /\ DOMAIN StoredOpen = {} /\ StoredOpen' = StoredOpen
      /\ StoredData' = [file \in {} |-> <<>>]
      /\ StoredNames' = [path \in {<<>>} |-> ROOT_INODE]
  BY Zenon DEF Store!Format, StoredNames, StoredData, StoredOpen
<1>2. SeenData' = [file \in {} |-> <<>>]
  BY <1>1 DEF SameView
<1> QED BY <1>1, <1>2, Zenon DEF Seen!Format, StoredNames, SeenData, StoredOpen

\* A step of what is stored, of whatever kind.
LEMMA NextIsSeen ==
    ASSUME SameView, Store!Next \/ UNCHANGED Stored
    PROVE  Seen!Next
<1>1. ASSUME UNCHANGED <<StoredNames, StoredData>>
      PROVE  UNCHANGED <<StoredNames, SeenData>>
  BY <1>1 DEF SameView
<1>2. CASE UNCHANGED Stored
  <2>1. StoredNames' = StoredNames /\ SeenData' = SeenData /\ StoredOpen' = StoredOpen
    BY <1>1, <1>2 DEF Stored
  <2>2. UNCHANGED Seen!store
    BY <2>1, Zenon DEF Seen!store, StoredNames, SeenData, StoredOpen
  <2> QED BY <2>2, Zenon DEF Seen!Next
<1>3. CASE Store!Restart
  <2>1. StoredNames' = StoredNames /\ StoredData' = StoredData /\ StoredOpen' = [fd \in {} |-> 0]
    BY <1>3, Zenon DEF Store!Restart, StoredNames, StoredData, StoredOpen
  <2>2. SeenData' = SeenData
    BY <1>1, <2>1
  <2>3. Seen!Restart
    BY <2>1, <2>2, Zenon DEF Seen!Restart, StoredNames, SeenData, StoredOpen
  <2> QED BY <2>3, Zenon DEF Seen!Next
<1>4. CASE Store!Format
  BY <1>4, FormatIsSeen, Zenon DEF Seen!Next
<1>5. CASE Store!Rename /\ StoredOpen' = StoredOpen
  BY <1>5, RenameIsSeen, Zenon DEF Seen!Next, StoredOpen
<1>6. ASSUME NEW fd \in DOMAIN StoredOpen' \ DOMAIN StoredOpen,
             NEW path \in DOMAIN StoredNames, Store!Open(path, fd)
      PROVE  Seen!Next
  BY <1>6, OpenIsSeen, Zenon DEF Seen!Next, StoredNames, StoredOpen
<1>7. ASSUME NEW fd \in DOMAIN StoredOpen,
             \/ Store!Close(fd)
             \/ \E size \in Sizes :
                  \/ Store!Read(fd, size)
                  \/ \E value \in Values : Store!Write(fd, size, value)
      PROVE  Seen!Next
  <2>1. CASE Store!Close(fd)
    BY <2>1, CloseIsSeen, Zenon DEF Seen!Next, StoredOpen
  <2>2. ASSUME NEW size \in Sizes, Store!Read(fd, size) PROVE Seen!Next
    BY <2>2, ReadIsSeen, Zenon DEF Seen!Next, StoredOpen
  <2>3. ASSUME NEW size \in Sizes, NEW value \in Values, Store!Write(fd, size, value)
        PROVE  Seen!Next
    BY <2>3, WriteIsSeen, Zenon DEF Seen!Next, StoredOpen
  <2> QED BY <1>7, <2>1, <2>2, <2>3
<1>8. CASE Store!Next
  <2>1. \/ UNCHANGED Stored
        \/ Store!Restart
        \/ \E fd \in DOMAIN StoredOpen :
             \/ Store!Close(fd)
             \/ \E size \in Sizes :
                  \/ Store!Read(fd, size)
                  \/ \E value \in Values : Store!Write(fd, size, value)
        \/ Store!Format
        \/ \E fd \in DOMAIN StoredOpen' \ DOMAIN StoredOpen, path \in DOMAIN StoredNames :
             Store!Open(path, fd)
        \/ Store!Rename /\ StoredOpen' = StoredOpen
    BY <1>8, Zenon DEF Store!Next, Store!store, Stored, StoredNames, StoredData, StoredOpen
  <2> QED BY <1>2, <1>3, <1>4, <1>5, <1>6, <1>7, <2>1
<1> QED BY <1>2, <1>8

-----------------------------------------------------------------------------
(* What a crash in an operation on names leaves to be seen.                 *)

\* Whoever is shown as before has the data it had.
LEMMA ShownData ==
    ASSUME NEW S \in SUBSET FilesOf(inode_bitmap, inodes), \A n \in S : Shown(n)
    PROVE  \A n \in S : /\ inodes'[n].type = "REGULAR"
                        /\ ContentsIn(inodes'[n], blocks') = StoredData[n]
<1> SUFFICES ASSUME NEW n \in S
             PROVE  /\ inodes'[n].type = "REGULAR"
                    /\ ContentsIn(inodes'[n], blocks') = StoredData[n]
  OBVIOUS
<1>1. n \in FilesOf(inode_bitmap, inodes)
  OBVIOUS
<1>2. StoredData[n] = ContentsIn(inodes[n], blocks)
  BY <1>1, StoredIs DEF DataIn
<1> QED BY <1>1, <1>2 DEF Shown, FilesOf

\* The paths and the files are those there were.
LEMMA SameIsSeen ==
    ASSUME Reachable = inode_bitmap, Reachable' = inode_bitmap, SamePathsTo(inode_bitmap),
           \A n \in inode_bitmap : Shown(n)
    PROVE  StoredNames' = StoredNames /\ SeenData' = SeenData
<1> DEFINE S == FilesOf(inode_bitmap, inodes)
<1>1. StoredNames' = StoredNames
  BY StoredIs DEF SamePathsTo
<1>2. \A n \in S : /\ inodes'[n].type = "REGULAR"
                   /\ ContentsIn(inodes'[n], blocks') = StoredData[n]
  <2>1. S \in SUBSET FilesOf(inode_bitmap, inodes) /\ \A n \in S : Shown(n)
    BY DEF FilesOf
  <2> HIDE DEF S
  <2> QED BY <2>1, ShownData
<1>3. FilesOf(Reachable', inodes') = S
  BY DEF Shown, FilesOf
<1>4. SeenData = [n \in S |-> StoredData[n]]
  BY SeenIsStored, StoredIs DEF DataIn
<1> HIDE DEF S
<1>5. SeenData' = [n \in S |-> StoredData[n]]
  BY <1>2, <1>3, SeenIs DEF DataIn
<1> QED BY <1>1, <1>4, <1>5

\* A path more is a file made, or a directory.
LEMMA MoreIsSeen ==
    ASSUME SoundNow, Reachable = inode_bitmap, NEW path, NEW new,
           MorePaths(Reachable', path, new), \A n \in inode_bitmap : Shown(n),
           inodes'[new] = NewInode("REGULAR") \/ inodes'[new].type = "DIRECTORY"
    PROVE  Seen!Rename
<1> DEFINE up == Parent(path)
           S == FilesOf(inode_bitmap, inodes)
<1>1. /\ path \in Paths /\ path # <<>> /\ new \in Inodes /\ new \notin inode_bitmap
      /\ Reachable' = inode_bitmap \cup {new}
      /\ Reach[path] = {} /\ \A n : n \in Reach'[path] <=> n = new
      /\ \A q \in NamePaths : q # path => Reach'[q] = Reach[q]
  BY DEF MorePaths
<1>2. PICK dir \in Reach[up] : inodes[dir].type = "DIRECTORY"
  BY DEF MorePaths
<1>3. up \in Paths /\ path \in NamePaths /\ \A p \in Paths : p \in NamePaths
  BY <1>1, ParentIsInUse
<1>4. path \notin DOMAIN StoredNames
  BY <1>1, NamesAre
<1>5. up \in DOMAIN StoredNames /\ StoredNames[up] = dir
  BY <1>2, <1>3, NamesAre
<1>6. SeenData = StoredData /\ DOMAIN SeenData = S
  BY SeenIsStored, StoredIs DEF DataIn
<1>7. StoredNames[up] \notin DOMAIN SeenData
  BY <1>2, <1>5, <1>6 DEF FilesOf
<1>8. DOMAIN StoredNames = {q \in Paths : Reach[q] # {}}
  BY StoredIs DEF NamesVia
<1>9. \A other \in DOMAIN StoredNames : StoredNames[other] # new
  BY <1>1, <1>8, NamesAre
<1>10. StoredNames' = [z \in DOMAIN StoredNames \cup {path} |->
                         IF z = path THEN new ELSE StoredNames[z]]
  <2>1. {q \in Paths : Reach'[q] # {}} = DOMAIN StoredNames \cup {path}
    BY <1>1, <1>3, <1>8
  <2>2. \A q \in DOMAIN StoredNames : (CHOOSE n \in Reach'[q] : TRUE) = StoredNames[q]
    BY <1>1, <1>3, <1>4, <1>8, StoredIs DEF NamesVia
  <2>3. (CHOOSE n \in Reach'[path] : TRUE) = new
    BY <1>1
  <2> DEFINE D == DOMAIN StoredNames \cup {path}
             value(q) == CHOOSE n \in Reach'[q] : TRUE
  <2>4. StoredNames' = [q \in D |-> value(q)]
    BY <2>1, StoredIs DEF NamesVia
  <2>5. \A q \in D : value(q) = IF q = path THEN new ELSE StoredNames[q]
    BY <2>2, <2>3
  <2> HIDE DEF D, value
  <2>6. StoredNames' = [z \in D |-> IF z = path THEN new ELSE StoredNames[z]]
    BY <2>4, <2>5
  <2> QED BY <2>6 DEF D
<1>11. path \in DOMAIN StoredNames'
  BY <1>10
<1>12. \A n \in S : /\ inodes'[n].type = "REGULAR"
                    /\ ContentsIn(inodes'[n], blocks') = SeenData[n]
  <2>1. S \in SUBSET FilesOf(inode_bitmap, inodes) /\ \A n \in S : Shown(n)
    BY DEF FilesOf
  <2> HIDE DEF S
  <2> QED BY <1>6, <2>1, ShownData
<1>13. \A n \in inode_bitmap : inodes'[n].type = "REGULAR" => n \in S
  BY DEF Shown, FilesOf
<1>14. new \notin S
  BY <1>1 DEF FilesOf
<1>15. CASE inodes'[new] = NewInode("REGULAR")
  <2>1. FilesOf(Reachable', inodes') = S \cup {new}
    BY <1>1, <1>12, <1>13, <1>15, NewInodeIs DEF FilesOf
  <2>2. ContentsIn(inodes'[new], blocks') = <<>>
    BY <1>15, NewContents
  <2> HIDE DEF S
  <2>3. SeenData' = [z \in S \cup {new} |-> IF z = new THEN <<>> ELSE SeenData[z]]
    BY <1>12, <1>14, <2>1, <2>2, SeenIs DEF DataIn
  <2> QED BY <1>1, <1>4, <1>5, <1>6, <1>7, <1>9, <1>10, <1>11, <2>3, MadeIsSeen
<1>16. CASE inodes'[new].type = "DIRECTORY"
  <2>1. FilesOf(Reachable', inodes') = S
    BY <1>1, <1>12, <1>13, <1>16 DEF FilesOf
  <2> HIDE DEF S
  <2>2. SeenData' = [z \in S |-> SeenData[z]]
    BY <1>12, <2>1, SeenIs DEF DataIn
  <2>3. SeenData = [z \in S |-> SeenData[z]]
    BY <1>6, StoredIs DEF DataIn, S
  <2> QED BY <1>1, <1>4, <1>5, <1>7, <1>9, <1>10, <1>11, <2>2, <2>3, MadeIsSeen
<1> QED BY <1>15, <1>16

\* A path less is a file removed.
LEMMA LessIsSeen ==
    ASSUME SoundNow, Kinds, ~RemovesOpenFiles, Reachable = inode_bitmap, NEW path, NEW file,
           LessPaths(Reachable', path, file), \A n \in inode_bitmap \ {file} : Shown(n)
    PROVE  Seen!Rename
<1> DEFINE S == FilesOf(inode_bitmap, inodes)
<1>1. /\ path \in Paths /\ path \in NamePaths /\ file \in inode_bitmap
      /\ Reachable' = inode_bitmap \ {file}
      /\ Reach[path] = {file}
      /\ \A q \in NamePaths : Reach'[q] = IF q = path THEN {} ELSE Reach[q]
  BY ParentIsInUse DEF LessPaths
<1>2. \A p \in Paths : p \in NamePaths
  BY ParentIsInUse
<1>3. file \in S /\ ~IsOpen(file)
  <2>1. inodes[file] \in Inode /\ inodes[file].type # "DIRECTORY" /\ ~IsOpen(file)
    BY <1>1, DirectoryFacts DEF LessPaths, Removable
  <2> QED BY <1>1, <2>1, InodeFields DEF Kinds, FilesOf
<1>4. path \in DOMAIN StoredNames /\ StoredNames[path] = file
  BY <1>1, NamesAre
<1>5. SeenData = StoredData /\ DOMAIN SeenData = S
  BY SeenIsStored, StoredIs DEF DataIn
<1>6. \A fd \in DOMAIN StoredOpen : StoredOpen[fd].file # StoredNames[path]
  BY <1>3, <1>4 DEF StoredOpen, IsOpen
<1>7. DOMAIN StoredNames = {q \in Paths : Reach[q] # {}}
  BY StoredIs DEF NamesVia
<1>8. StoredNames' = [z \in DOMAIN StoredNames \ {path} |-> StoredNames[z]]
  <2>1. {q \in Paths : Reach'[q] # {}} = DOMAIN StoredNames \ {path}
    BY <1>1, <1>2, <1>7
  <2>2. \A q \in DOMAIN StoredNames \ {path} : (CHOOSE n \in Reach'[q] : TRUE) = StoredNames[q]
    BY <1>1, <1>2, <1>7, StoredIs DEF NamesVia
  <2> QED BY <2>1, <2>2, StoredIs DEF NamesVia
<1>9. path \notin DOMAIN StoredNames'
  BY <1>8
<1>10. SeenData' = [z \in S \ {file} |-> SeenData[z]]
  <2>1. \A n \in S \ {file} : /\ inodes'[n].type = "REGULAR"
                              /\ ContentsIn(inodes'[n], blocks') = SeenData[n]
    <3>1. S \ {file} \in SUBSET FilesOf(inode_bitmap, inodes) /\ \A n \in S \ {file} : Shown(n)
      BY DEF FilesOf
    <3> HIDE DEF S
    <3> QED BY <1>5, <3>1, ShownData
  <2>2. FilesOf(Reachable', inodes') = S \ {file}
    <3>1. \A n \in inode_bitmap \ {file} : inodes'[n].type = "REGULAR" => n \in S
      BY DEF Shown, FilesOf
    <3> QED BY <1>1, <2>1, <3>1 DEF FilesOf
  <2> HIDE DEF S
  <2> QED BY <2>1, <2>2, SeenIs DEF DataIn
<1> QED BY <1>3, <1>4, <1>5, <1>6, <1>8, <1>9, <1>10, RemovedIsSeen

\* Nothing is open after a crash.
LEMMA CrashShuts ==
    ASSUME open_files' = <<>>
    PROVE  StoredOpen' = [fd \in {} |-> 0]
<1>1. DOMAIN open_files' = {}
  OBVIOUS
<1> QED BY <1>1 DEF StoredOpen

\* A crash in an operation on names shows the paths before it or after it.
LEMMA NamesCrashIsSeen ==
    ASSUME SoundNow, Kinds, ~RemovesOpenFiles, AllReached(inode_bitmap, Reach),
           open_files' = <<>>, NEW path \in Paths \ {<<>>}, NEW o \in NamesAt(path),
           NEW k \in Nat, BrokenOff(o, k)
    PROVE  Seen!Crash
<1>1. PICK ib, db : LeavesShape(o, ib, db) /\ LeavesNames(ib, path)
  BY NamesCrash
<1>2. Shape(inode_bitmap, data_bitmap)
  BY NowIsShaped
<1>3. Reachable = inode_bitmap
  BY <1>2, WholeIsReached
<1>4. AllReached(ib, Reach')
  <2>1. \/ SamePathsTo(ib)
        \/ \E p, new : MorePaths(ib, p, new)
        \/ \E p, file : LessPaths(ib, p, file)
    BY <1>1 DEF LeavesNames
  <2> QED BY <2>1, ReachedStays
<1>5. Reachable' = ib
  BY <1>1, <1>4, ShapedIsReached DEF LeavesShape
<1>6. StoredOpen' = [fd \in {} |-> 0]
  BY CrashShuts
<1>7. CASE SamePathsTo(ib)
  <2>1. ib = inode_bitmap /\ \A n \in inode_bitmap : Shown(n)
    BY <1>1, <1>7 DEF SamePathsTo, LeavesNames
  <2>2. StoredNames' = StoredNames /\ SeenData' = SeenData
    BY <1>3, <1>5, <1>7, <2>1, SameIsSeen
  <2> QED BY <1>6, <2>2, Zenon DEF Seen!Crash, StoredNames, SeenData, StoredOpen
<1>8. ASSUME NEW new, MorePaths(ib, path, new),
             inodes'[new] = NewInode("REGULAR") \/ inodes'[new].type = "DIRECTORY"
      PROVE  Seen!Rename
  <2>1. \A n \in inode_bitmap : Shown(n)
    BY <1>1, <1>8 DEF MorePaths, LeavesNames
  <2> QED BY <1>3, <1>5, <1>8, <2>1, MoreIsSeen
<1>9. ASSUME NEW file, LessPaths(ib, path, file)
      PROVE  Seen!Rename
  <2>1. \A n \in inode_bitmap \ {file} : Shown(n)
    BY <1>1, <1>9 DEF LessPaths, LeavesNames
  <2> QED BY <1>3, <1>5, <1>9, <2>1, LessIsSeen
<1>10. SamePathsTo(ib) \/ Seen!Rename
  BY <1>1, <1>8, <1>9 DEF LeavesNames
<1> QED BY <1>6, <1>7, <1>10, Zenon DEF Seen!Crash, StoredOpen

-----------------------------------------------------------------------------
(* What a crash in a write leaves to be seen: what the loop had done at one *)
(* of its turns.                                                            *)

\* The blocks when k of the writes of a loop have been made.
Partly(order, data, k) ==
    [b \in Blocks |-> IF MadeBy(order, k, BlockWrite(b)) THEN data[b] ELSE blocks[b]]

\* The blocks the file had are still its own.
Extends(file, w) ==
    \A i \in Indices(inodes[file]) :
        /\ i \in Indices(w.inode)
        /\ w.inode.direct_blocks[i] = inodes[file].direct_blocks[i]

\* A block is written once: with cells left, it comes before the offset.
WritesOnce(w) ==
    w.left # 0 =>
        \A i \in 1..Len(w.order) : \E j \in Indices(w.inode) :
            /\ j < w.offset \div BlockSize
            /\ w.order[i] = BlockWrite(w.inode.direct_blocks[j])

\* Only what is written changes.
WritesAll(order, data) ==
    \A b \in Blocks : \/ data[b] = blocks[b]
                      \/ \E i \in 1..Len(order) : order[i] = BlockWrite(b)

\* The first writes of a loop are those of a loop that has not got as far.
Stage(file, from, size, value, data) ==
    \E y \in Writing(file, from, size, value) : Extends(file, y) /\ y.data = data

Staged(file, from, size, value) ==
    {w \in Writing(file, from, size, value) :
        /\ Extends(file, w) /\ WritesOnce(w) /\ WritesAll(w.order, w.data)
        /\ \A k \in Nat : Stage(file, from, size, value, Partly(w.order, w.data, k))}

\* As assumed.
LEMMA BlocksHaveCells == BlockSize \in Nat /\ BlockSize > 0
  BY FileSystemAssumption

\* One write more.
LEMMA PartlyMore ==
    ASSUME NEW order \in Seq({BlockWrite(c) : c \in Blocks}), NEW b \in Blocks,
           NEW old, NEW new \in Disk, \A c \in Blocks : c # b => new[c] = old[c],
           \A i \in 1..Len(order) : order[i] # BlockWrite(b),
           WritesAll(order, old), NEW k \in Nat
    PROVE  Partly(Append(order, BlockWrite(b)), new, k) =
             IF k <= Len(order) THEN Partly(order, old, k) ELSE new
<1> DEFINE n == Len(order)
           more == Append(order, BlockWrite(b))
<1>1. /\ n \in Nat /\ Len(more) = n + 1 /\ more[n + 1] = BlockWrite(b)
      /\ \A i \in 1..n : more[i] = order[i]
  <2> DEFINE S == {BlockWrite(c) : c \in Blocks}
             y == BlockWrite(b)
  <2>1. y \in S /\ order \in Seq(S)
    OBVIOUS
  <2> HIDE DEF S, y
  <2> QED BY <2>1
<1> HIDE DEF n, more
<1>2. CASE k <= n
  <2>1. \A c \in Blocks : MadeBy(more, k, BlockWrite(c)) <=> MadeBy(order, k, BlockWrite(c))
    <3> SUFFICES ASSUME NEW write
                 PROVE  MadeBy(more, k, write) <=> MadeBy(order, k, write)
      OBVIOUS
    <3>1. \A i \in Nat : i \in 1..Len(more) /\ i <= k <=> i \in 1..n /\ i <= k
      BY <1>1, <1>2
    <3> QED BY <1>1, <3>1 DEF MadeBy, n
  <2>2. \A c \in Blocks : MadeBy(order, k, BlockWrite(c)) => c # b
    BY DEF MadeBy
  <2>3. \A c \in Blocks :
          (IF MadeBy(more, k, BlockWrite(c)) THEN new[c] ELSE blocks[c]) =
          (IF MadeBy(order, k, BlockWrite(c)) THEN old[c] ELSE blocks[c])
    BY <2>1, <2>2
  <2>4. Partly(more, new, k) = Partly(order, old, k)
    BY <2>3 DEF Partly
  <2> QED BY <1>2, <2>4 DEF n, more
<1>3. CASE ~(k <= n)
  <2>1. \A c \in Blocks : ~MadeBy(more, k, BlockWrite(c)) => new[c] = blocks[c]
    <3> SUFFICES ASSUME NEW c \in Blocks, ~MadeBy(more, k, BlockWrite(c))
                 PROVE  new[c] = blocks[c]
      OBVIOUS
    <3>1. \A i \in 1..n + 1 : more[i] # BlockWrite(c)
      BY <1>1, <1>3 DEF MadeBy
    <3>2. c # b
      BY <1>1, <3>1
    <3>3. \A i \in 1..n : order[i] # BlockWrite(c)
      BY <1>1, <3>1
    <3> QED BY <3>2, <3>3 DEF n, WritesAll
  <2>2. Partly(more, new, k) = [c \in Blocks |-> new[c]]
    BY <2>1 DEF Partly
  <2>3. Partly(more, new, k) = new
    BY <2>2 DEF Disk
  <2> QED BY <1>1, <1>3, <2>3 DEF n, more
<1> QED BY <1>2, <1>3

\* A loop that gets a block has written nothing yet.
LEMMA EnsuredStages ==
    ASSUME SoundNow, NEW file \in inode_bitmap, inodes[file].type = "REGULAR",
           NEW from \in Nat, NEW size \in Nat, NEW value, NEW w \in Staged(file, from, size, value),
           NEW r \in Ensured(w, w.offset \div BlockSize)
    PROVE  r \in Staged(file, from, size, value)
<1>1. w \in Writing(file, from, size, value) /\ w \in WriteState
  BY WritingFacts DEF Staged
<1>2. r \in Writing(file, from, size, value)
  BY <1>1, EnsuredWrites
<1>3. /\ r.offset = w.offset /\ r.left = w.left /\ r.data = w.data /\ r.order = w.order
      /\ Indices(w.inode) \subseteq Indices(r.inode)
      /\ \A i \in Indices(w.inode) : r.inode.direct_blocks[i] = w.inode.direct_blocks[i]
  BY <1>1, EnsuredIs
<1>4. Extends(file, r)
  BY <1>3 DEF Staged, Extends
<1>5. WritesOnce(r)
  BY <1>3 DEF Staged, WritesOnce
<1>6. WritesAll(r.order, r.data)
  BY <1>3 DEF Staged, WritesAll
<1>7. \A k \in Nat : Stage(file, from, size, value, Partly(r.order, r.data, k))
  BY <1>3 DEF Staged
<1> QED BY <1>2, <1>4, <1>5, <1>6, <1>7 DEF Staged

\* A turn that fills a block makes one write, to a block not yet written.
LEMMA FilledStages ==
    ASSUME SoundNow, NEW file \in inode_bitmap, inodes[file].type = "REGULAR",
           NEW from \in Nat, NEW size \in Nat, NEW value \in Values,
           NEW w \in Staged(file, from, size, value), w.left # 0,
           w.offset \div BlockSize \in Indices(w.inode)
    PROVE  Filled(w, value) \in Staged(file, from, size, value)
<1> DEFINE x == Filled(w, value)
           index == w.offset \div BlockSize
           within == w.offset % BlockSize
           chunk == IF w.left < BlockSize - within THEN w.left ELSE BlockSize - within
           b == w.inode.direct_blocks[index]
           T == With(inodes, file, w.inode)
<1>1. /\ w \in Going(file) /\ w \in WriteState /\ w \in Writing(file, from, size, value)
      /\ w.inode \in Inode /\ w.offset \in Nat /\ w.left \in Nat
      /\ w.order \in Seq({BlockWrite(c) : c \in Blocks})
  BY WritingFacts, WriteStateFields DEF Staged
<1>2. x \in Writing(file, from, size, value) /\ x \in Going(file)
  <2>1. x \in Writing(file, from, size, value)
    <3> HIDE DEF x
    <3> QED BY <1>1, FilledWrites DEF x
  <2> HIDE DEF x
  <2> QED BY <2>1, WritingFacts
<1>3. /\ T[file] = w.inode /\ Sound(inode_bitmap, w.used, T, w.data, {})
  BY <1>1, GoingFile DEF Going
<1>4. /\ \A i \in Indices(w.inode) : w.inode.direct_blocks[i] \in Blocks
      /\ \A i, j \in Indices(w.inode) : w.inode.direct_blocks[i] = w.inode.direct_blocks[j] => i = j
  <2>1. \A i \in Indices(T[file]) : T[file].direct_blocks[i] \in Blocks
    <3> HIDE DEF T
    <3> QED BY <1>3, PlacesAreAllocated DEF Sound
  <2>2. \A i, j \in Indices(T[file]) : T[file].direct_blocks[i] = T[file].direct_blocks[j] => i = j
    <3> HIDE DEF T
    <3> QED BY <1>3 DEF Sound, Accounted
  <2> QED BY <1>3, <2>1, <2>2
<1>5. b \in Blocks
  BY <1>4
<1>6. /\ x.offset = w.offset + chunk /\ x.left = w.left - chunk
      /\ x.inode.direct_blocks = w.inode.direct_blocks
      /\ \A c \in Blocks : c # b => x.data[c] = w.data[c]
  <2> HIDE DEF x, b, chunk
  <2> QED BY <1>1, <1>5, FilledIs, SMTT(30) DEF x, b, chunk
<1>7. x.order = Append(w.order, BlockWrite(b)) /\ x.inode.blocks_used = w.inode.blocks_used
  <2> HIDE DEF x, b
  <2> QED BY <1>1, FilledNotes DEF x, b
<1>8. Indices(x.inode) = Indices(w.inode)
  BY <1>7 DEF Indices
<1>9. x.data \in Disk
  <2> HIDE DEF x
  <2> QED BY <1>2, WriteStateFields DEF Going
<1>10. BlockSize \in Nat /\ BlockSize > 0 /\ index \in Nat /\ within \in 0..BlockSize - 1
      /\ w.offset = index * BlockSize + within
  <2> HIDE DEF x, b, chunk, T
  <2>1. BlockSize \in Nat /\ BlockSize > 0
    BY BlocksHaveCells
  <2>2. w.offset \in Nat
    BY <1>1
  <2> QED BY <2>1, <2>2, Division
<1>11. /\ Len(x.order) = Len(w.order) + 1 /\ x.order[Len(w.order) + 1] = BlockWrite(b)
       /\ \A i \in 1..Len(w.order) : x.order[i] = w.order[i]
       /\ Len(w.order) \in Nat
       /\ 1..Len(w.order) \subseteq 1..Len(x.order)
  <2> DEFINE S == {BlockWrite(c) : c \in Blocks}
             y == BlockWrite(b)
  <2> HIDE DEF x, b
  <2>1. y \in S /\ w.order \in Seq(S) /\ x.order = Append(w.order, y)
    BY <1>1, <1>5, <1>7
  <2> HIDE DEF S
  <2>2. /\ Len(x.order) = Len(w.order) + 1 /\ x.order[Len(w.order) + 1] = y
        /\ \A i \in 1..Len(w.order) : x.order[i] = w.order[i]
        /\ Len(w.order) \in Nat
        /\ 1..Len(w.order) \subseteq 1..Len(x.order)
    <3> HIDE DEF y
    <3> QED BY <2>1
  <2> QED BY <2>2
<1> HIDE DEF x, T, index, within
<1>12. \A i \in 1..Len(w.order) : \E j \in Indices(w.inode) :
         j < index /\ w.order[i] = BlockWrite(w.inode.direct_blocks[j])
  BY DEF Staged, WritesOnce, index
<1>13. index \in Indices(w.inode)
  BY DEF index
<1>14. \A i \in 1..Len(w.order) : w.order[i] # BlockWrite(b)
  <2> SUFFICES ASSUME NEW i \in 1..Len(w.order), NEW j \in Indices(w.inode), j < index,
                      BlockWrite(w.inode.direct_blocks[j]) = BlockWrite(b)
               PROVE  FALSE
    BY <1>12
  <2>1. j = index
    BY <1>4, <1>13, WritesDiffer
  <2> QED BY <1>10, <2>1
<1>15. Extends(file, x)
  BY <1>6, <1>8 DEF Staged, Extends
<1>16. WritesAll(x.order, x.data)
  <2> SUFFICES ASSUME NEW c \in Blocks, x.data[c] # blocks[c]
               PROVE  \E i \in 1..Len(x.order) : x.order[i] = BlockWrite(c)
    BY DEF WritesAll
  <2>1. CASE c = b
    BY <1>11, <2>1
  <2>2. CASE c # b
    <3>1. w.data[c] # blocks[c] /\ WritesAll(w.order, w.data)
      BY <1>6, <2>2 DEF Staged
    <3>2. PICK i \in 1..Len(w.order) : w.order[i] = BlockWrite(c)
      BY <3>1, Zenon DEF WritesAll
    <3> QED BY <1>11, <3>2, Zenon
  <2> QED BY <2>1, <2>2
<1>17. WritesOnce(x)
  <2> SUFFICES ASSUME x.left # 0, NEW i \in 1..Len(x.order)
               PROVE  \E j \in Indices(x.inode) :
                        /\ j < x.offset \div BlockSize
                        /\ x.order[i] = BlockWrite(x.inode.direct_blocks[j])
    BY DEF WritesOnce
  <2>1. chunk = BlockSize - within
    BY <1>1, <1>6
  <2>2. x.offset \div BlockSize = index + 1
    <3> HIDE DEF chunk
    <3>1. x.offset = index * BlockSize + within + (BlockSize - within)
      BY <1>6, <1>10, <2>1
    <3>2. x.offset = (index + 1) * BlockSize + 0
      <4>1. (index + 1) * BlockSize = index * BlockSize + BlockSize /\ index * BlockSize \in Nat
        BY <1>10
      <4> QED BY <1>10, <3>1, <4>1
    <3>3. 0 \in 0..BlockSize - 1 /\ index + 1 \in Nat /\ x.offset \in Nat
      BY <1>10, <3>2
    <3> DEFINE offset == x.offset
    <3>4. offset \in Nat /\ offset = (index + 1) * BlockSize + 0
      BY <3>2, <3>3
    <3> HIDE DEF offset
    <3>5. index + 1 = offset \div BlockSize
      BY <1>10, <3>3, <3>4, Division, SMTT(30)
    <3> QED BY <3>5 DEF offset
  <2>3. CASE i \in 1..Len(w.order)
    <3>1. PICK j \in Indices(w.inode) :
            j < index /\ w.order[i] = BlockWrite(w.inode.direct_blocks[j])
      BY <1>12, <2>3
    <3>2. j \in Int /\ j < index + 1
      BY <1>10, <3>1 DEF Indices
    <3> QED BY <1>6, <1>8, <1>11, <2>2, <2>3, <3>1, <3>2
  <2>4. CASE i \notin 1..Len(w.order)
    <3>1. i = Len(w.order) + 1
      BY <1>11, <2>4
    <3>2. x.order[i] = BlockWrite(x.inode.direct_blocks[index])
      BY <1>6, <1>11, <3>1 DEF b
    <3> QED BY <1>8, <1>10, <1>13, <2>2, <3>2
  <2> QED BY <2>3, <2>4
<1>18. \A k \in Nat : Stage(file, from, size, value, Partly(x.order, x.data, k))
  <2> TAKE k \in Nat
  <2>1. Partly(x.order, x.data, k) =
          IF k <= Len(w.order) THEN Partly(w.order, w.data, k) ELSE x.data
    <3>1. WritesAll(w.order, w.data)
      BY DEF Staged
    <3>2. /\ w.order \in Seq({BlockWrite(c) : c \in Blocks}) /\ b \in Blocks /\ x.data \in Disk
          /\ \A c \in Blocks : c # b => x.data[c] = w.data[c]
      BY <1>1, <1>5, <1>6, <1>9
    <3> HIDE DEF b
    <3>3. Partly(Append(w.order, BlockWrite(b)), x.data, k) =
            IF k <= Len(w.order) THEN Partly(w.order, w.data, k) ELSE x.data
      BY <1>14, <3>1, <3>2, PartlyMore, SMTT(30)
    <3> QED BY <1>7, <3>3
  <2>2. Stage(file, from, size, value, x.data)
    BY <1>2, <1>15 DEF Stage
  <2> QED BY <2>1, <2>2 DEF Staged
<1> QED BY <1>2, <1>15, <1>16, <1>17, <1>18 DEF Staged, x

\* A turn of the loop.
LEMMA TurnStages ==
    ASSUME SoundNow, NEW file \in inode_bitmap, inodes[file].type = "REGULAR",
           NEW from \in Nat, NEW size \in Nat, NEW value \in Values,
           NEW w \in Staged(file, from, size, value)
    PROVE  Turn(w, value) \in Staged(file, from, size, value)
<1> DEFINE room == Ensured(w, w.offset \div BlockSize)
           filled == {Filled(r, value) : r \in room}
           V == Staged(file, from, size, value)
<1>1. ASSUME NEW r \in room, w.left # 0
      PROVE  Filled(r, value) \in V
  <2>1. w \in Writing(file, from, size, value)
    BY DEF Staged
  <2>2. w \in Going(file) /\ w \in WriteState
    BY <2>1, WritingFacts
  <2>3. r \in V
    BY EnsuredStages
  <2>4. r.offset \div BlockSize \in Indices(r.inode) /\ r.left = w.left
    BY <2>2, EnsuredKeeps, EnsuredIs
  <2> QED BY <1>1, <2>3, <2>4, FilledStages
<1>2. CASE w.left = 0 \/ room = {}
  BY <1>2 DEF Turn
<1>3. CASE ~(w.left = 0 \/ room = {})
  <2>1. Turn(w, value) = CHOOSE x \in filled : TRUE
    BY <1>3 DEF Turn
  <2>2. filled # {} /\ filled \subseteq V
    BY <1>1, <1>3
  <2> HIDE DEF filled, V
  <2>3. (CHOOSE x \in filled : TRUE) \in filled
    BY <2>2
  <2> QED BY <2>1, <2>2, <2>3 DEF V
<1> QED BY <1>2, <1>3

\* The loop begins so.
LEMMA FirstTurnStages ==
    ASSUME SoundNow, NEW fd, CanWrite(fd), NEW size \in Nat, NEW value
    PROVE  FirstTurn(fd, size)
             \in Staged(open_files[fd].inode_num, open_files[fd].offset, size, value)
<1> DEFINE file == open_files[fd].inode_num
           from == open_files[fd].offset
           w == FirstTurn(fd, size)
<1>1. /\ w \in Writing(file, from, size, value)
      /\ w.inode = inodes[file] /\ w.data = blocks
      /\ w.order = <<>> /\ w.offset = from /\ w.left = size
  BY FirstTurnWrites
<1> HIDE DEF w, file, from
<1>2. Extends(file, w)
  BY <1>1 DEF Extends
<1>3. WritesOnce(w) /\ WritesAll(w.order, w.data)
  BY <1>1 DEF WritesOnce, WritesAll
<1>4. \A k \in Nat : Partly(w.order, w.data, k) = w.data
  <2> TAKE k \in Nat
  <2>1. Partly(w.order, w.data, k) = [b \in Blocks |-> blocks[b]]
    BY <1>1 DEF Partly
  <2> QED BY <1>1, <2>1 DEF SoundNow, Sound, Typed, Disk
<1>5. Stage(file, from, size, value, w.data)
  BY <1>1, <1>2 DEF Stage
<1> QED BY <1>1, <1>2, <1>3, <1>4, <1>5 DEF Staged, w, file, from

\* The larger of the two.
LEMMA GrownIsLarger ==
    ASSUME NEW s \in Nat, NEW offset \in Nat
    PROVE  Grown(s, offset) = IF s > offset THEN s ELSE offset
BY DEF Grown

\* What is in a file of which some cells have been written.
LEMMA WrittenContents ==
    ASSUME NEW old \in Inode, NEW B, NEW new \in Inode, NEW B2,
           NEW from \in Nat, NEW count \in Nat, NEW value, from <= old.size,
           new.size = Grown(old.size, from + count),
           \A p \in 0..new.size - 1 :
             Cell(new, B2, p) =
               IF from <= p /\ p < from + count THEN value ELSE Cell(old, B, p)
    PROVE  ContentsIn(new, B2) = Seen!Written(ContentsIn(old, B), from, count, value)
<1> DEFINE s == old.size
           t == new.size
           was == ContentsIn(old, B)
<1>1. /\ s \in Nat /\ Len(was) = s
      /\ \A i \in 1..s : was[i] = Cell(old, B, i - 1)
  BY ContentsAre
<1>2. ContentsIn(new, B2) = [i \in 1..t |-> Cell(new, B2, i - 1)]
  BY DEF ContentsIn
<1> HIDE DEF s, t, was
<1>3. from <= s /\ t = Grown(s, from + count)
  BY DEF s, t
<1>4. \A p \in 0..t - 1 : Cell(new, B2, p) =
        IF from <= p /\ p < from + count THEN value ELSE Cell(old, B, p)
  BY DEF t
<1>5. t = IF Len(was) > from + count THEN Len(was) ELSE from + count
  <2>1. from + count \in Nat
    OBVIOUS
  <2>2. t = IF s > from + count THEN s ELSE from + count
    BY <1>1, <1>3, <2>1, GrownIsLarger
  <2> QED BY <1>1, <2>2
<1>6. ASSUME NEW i \in 1..t
      PROVE  Cell(new, B2, i - 1) = IF i \in from + 1..from + count THEN value ELSE was[i]
  <2>1. t \in Nat /\ i - 1 \in 0..t - 1
    BY <1>1, <1>5
  <2>2. CASE i \in from + 1..from + count
    BY <1>4, <2>1, <2>2
  <2>3. CASE i \notin from + 1..from + count
    <3>1. i \in 1..s /\ ~(from <= i - 1 /\ i - 1 < from + count)
      BY <1>1, <1>3, <1>5, <2>1, <2>3
    <3> QED BY <1>1, <1>4, <2>1, <2>3, <3>1
  <2> QED BY <2>2, <2>3
<1>7. ContentsIn(new, B2) =
        [i \in 1..t |-> IF i \in from + 1..from + count THEN value ELSE was[i]]
  BY <1>2, <1>6
<1> QED BY <1>5, <1>7, Zenon DEF Seen!Written, was

\* The old inode with the blocks of a loop that has got as far as y shows a
\* part of the write, within the size the file had.
LEMMA StageContents ==
    ASSUME SoundNow, NEW file \in inode_bitmap, inodes[file].type = "REGULAR",
           NEW from \in Nat, from <= inodes[file].size, NEW size \in Nat, NEW value,
           NEW B, Stage(file, from, size, value, B)
    PROVE  \E count \in 0..size :
             ContentsIn(inodes[file], B) =
               Seen!Written(ContentsIn(inodes[file], blocks), from, count, value)
<1> DEFINE s == inodes[file].size
<1>1. PICK y \in Writing(file, from, size, value) : Extends(file, y) /\ y.data = B
  BY DEF Stage
<1>2. /\ y.offset \in Nat /\ y.left \in Nat /\ y.inode.size \in Nat /\ s \in Nat
      /\ from <= y.offset /\ y.offset + y.left = from + size
      /\ y.inode.size = Grown(s, y.offset)
      /\ \A p \in 0..y.inode.size - 1 :
           Cell(y.inode, B, p) =
             IF from <= p /\ p < y.offset THEN value ELSE Cell(inodes[file], blocks, p)
  <2>1. y.offset \in Nat /\ y.left \in Nat /\ y.inode.size \in Nat /\ s \in Nat
    BY <1>1, WritingFacts
  <2> QED BY <1>1, <2>1 DEF Writing
<1>3. inodes[file] \in Inode /\ s <= inodes[file].blocks_used * BlockSize
  <2>1. file \in inode_bitmap \ Directories(inode_bitmap, inodes)
    BY DEF Directories
  <2> QED BY <2>1, DirectoryFacts DEF SoundNow, Sound, Covered
<1> DEFINE count == (IF y.offset < s THEN y.offset ELSE s) - from
<1>4. /\ count \in 0..size /\ from + count <= s
      /\ \A p \in 0..s - 1 : p < y.offset <=> p < from + count
  BY <1>2
<1>5. \A p \in 0..s - 1 : p \in 0..y.inode.size - 1
  BY <1>2 DEF Grown
<1>6. \A p \in 0..s - 1 : Cell(inodes[file], B, p) = Cell(y.inode, B, p)
  <2> TAKE p \in 0..s - 1
  <2>1. p \div BlockSize \in Indices(inodes[file])
    BY <1>2, <1>3, CellIsInside
  <2> QED BY <1>1, <2>1 DEF Extends, Cell
<1> HIDE DEF count
<1>7. \A p \in 0..s - 1 : Cell(inodes[file], B, p) =
        IF from <= p /\ p < from + count THEN value ELSE Cell(inodes[file], blocks, p)
  BY <1>2, <1>4, <1>5, <1>6
<1>8. Grown(s, from + count) = s
  BY <1>2, <1>4 DEF Grown
<1>9. ContentsIn(inodes[file], B) =
        Seen!Written(ContentsIn(inodes[file], blocks), from, count, value)
  BY <1>3, <1>4, <1>7, <1>8, WrittenContents
<1> QED BY <1>4, <1>9

\* The blocks are those the writes of the loop have left.
LEMMA BlocksPartlyWritten ==
    ASSUME NEW file, NEW order \in Seq({BlockWrite(c) : c \in Blocks}), NEW data \in Disk,
           NEW k \in Nat, blocks' \in Disk,
           \A b \in Blocks :
             blocks'[b] = IF MadeBy(Append(order, InodeWrite(file)), k, BlockWrite(b))
                          THEN data[b] ELSE blocks[b]
    PROVE  /\ blocks' = Partly(order, data, k)
           /\ WritesAll(order, data) /\ k > Len(order) => blocks' = data
<1> DEFINE more == Append(order, InodeWrite(file))
           n == Len(order)
<1>1. /\ n \in Nat /\ Len(more) = n + 1 /\ more[n + 1] = InodeWrite(file)
      /\ \A i \in 1..n : more[i] = order[i]
  <2> DEFINE S == {BlockWrite(c) : c \in Blocks}
  <2>1. order \in Seq(S)
    OBVIOUS
  <2> HIDE DEF S
  <2> QED BY <2>1
<1> HIDE DEF more, n
<1>2. \A b \in Blocks : MadeBy(more, k, BlockWrite(b)) <=> MadeBy(order, k, BlockWrite(b))
  <2> TAKE b \in Blocks
  <2>1. more[n + 1] # BlockWrite(b)
    BY <1>1, WritesDiffer
  <2>2. \A i \in 1..Len(more) : i \in 1..n \/ i = n + 1
    BY <1>1
  <2>3. 1..n \subseteq 1..Len(more)
    BY <1>1
  <2> QED BY <1>1, <2>1, <2>2, <2>3 DEF MadeBy, n
<1>3. blocks' = [b \in Blocks |-> blocks'[b]]
  BY DEF Disk
<1>4. \A b \in Blocks :
        blocks'[b] = IF MadeBy(order, k, BlockWrite(b)) THEN data[b] ELSE blocks[b]
  BY <1>2 DEF more
<1>5. blocks' = Partly(order, data, k)
  <2>1. [b \in Blocks |-> blocks'[b]] = Partly(order, data, k)
    BY <1>4 DEF Partly
  <2> QED BY <1>3, <2>1
<1>6. ASSUME WritesAll(order, data), k > n
      PROVE  blocks' = data
  <2>1. \A i \in 1..n : i <= k
    BY <1>1, <1>6
  <2>2. \A b \in Blocks : blocks'[b] = data[b]
    BY <1>4, <1>6, <2>1 DEF MadeBy, WritesAll, n
  <2>3. data = [b \in Blocks |-> data[b]]
    BY DEF Disk
  <2> QED BY <1>3, <2>2, <2>3
<1> QED BY <1>5, <1>6 DEF n

\* The contents are a part of the write.
LEMMA WriteCrashContents ==
    ASSUME SoundNow, NEW file \in inode_bitmap, inodes[file].type = "REGULAR",
           NEW from \in Nat, from <= inodes[file].size, NEW size \in Nat, NEW value,
           NEW x \in Staged(file, from, size, value), NEW o, WritesUpTo(o, file, x),
           NEW k \in Nat, BrokenOff(o, k)
    PROVE  \E count \in 0..size :
             ContentsIn(inodes'[file], blocks') =
               Seen!Written(ContentsIn(inodes[file], blocks), from, count, value)
<1>1. /\ x \in Writing(file, from, size, value) /\ x \in Going(file) /\ x \in WriteState
      /\ x.inode \in Inode /\ x.offset \in Nat /\ x.left \in Nat
      /\ x.data \in Disk /\ x.order \in Seq({BlockWrite(c) : c \in Blocks})
  BY WritingFacts, WriteStateFields DEF Staged
<1>2. /\ o.order = Append(x.order, InodeWrite(file))
      /\ blocks' \in Disk
      /\ \A b \in Blocks :
           blocks'[b] = IF MadeBy(o.order, k, BlockWrite(b)) THEN x.data[b] ELSE blocks[b]
      /\ \/ inodes' = inodes
         \/ inodes' = With(inodes, file, x.inode) /\ k > Len(x.order)
  BY <1>1, WriteBroken
<1>3. /\ blocks' = Partly(x.order, x.data, k)
      /\ k > Len(x.order) => blocks' = x.data
  <2>1. WritesAll(x.order, x.data)
    BY DEF Staged
  <2>2. \A b \in Blocks :
          blocks'[b] = IF MadeBy(Append(x.order, InodeWrite(file)), k, BlockWrite(b))
                       THEN x.data[b] ELSE blocks[b]
    BY <1>2
  <2> QED BY <1>1, <1>2, <2>1, <2>2, BlocksPartlyWritten
<1>4. CASE inodes' = inodes
  <2>1. Stage(file, from, size, value, blocks')
    BY <1>3 DEF Staged
  <2> QED BY <1>4, <2>1, StageContents
<1>5. CASE inodes' = With(inodes, file, x.inode) /\ k > Len(x.order)
  <2>1. inodes'[file] = x.inode
    <3>1. file \in Inodes /\ inodes \in InodeTable
      BY DEF SoundNow, Sound, Typed
    <3> QED BY <1>1, <1>5, <3>1, TableWith
  <2>2. /\ from <= x.offset /\ x.offset + x.left = from + size
        /\ x.inode.size = Grown(inodes[file].size, x.offset)
        /\ \A p \in 0..x.inode.size - 1 :
             Cell(x.inode, x.data, p) =
               IF from <= p /\ p < x.offset THEN value ELSE Cell(inodes[file], blocks, p)
    BY <1>1 DEF Writing
  <2> DEFINE count == x.offset - from
  <2>3. count \in 0..size /\ count \in Nat /\ x.offset = from + count
    BY <1>1, <2>2
  <2>4. inodes[file] \in Inode
    BY DirectoryFacts
  <2> HIDE DEF count
  <2>5. ContentsIn(x.inode, x.data) =
          Seen!Written(ContentsIn(inodes[file], blocks), from, count, value)
    BY <1>1, <2>2, <2>3, <2>4, WrittenContents
  <2> QED BY <1>3, <1>5, <2>1, <2>3, <2>5
<1> QED BY <1>2, <1>4, <1>5

\* A crash in a write shows a part of it.
LEMMA WriteCrashIsSeen ==
    ASSUME SoundNow, AllReached(inode_bitmap, Reach), open_files' = <<>>,
           NEW fd \in DOMAIN open_files, CanWrite(fd), NEW size \in Sizes, size \in Nat,
           NEW value \in Values, NEW w \in WrittenFile(fd, size, value),
           NEW k \in Nat, BrokenOff(w.outcome, k)
    PROVE  Seen!Crash
<1> DEFINE file == open_files[fd].inode_num
           from == open_files[fd].offset
           S == FilesOf(inode_bitmap, inodes)
           o == w.outcome
<1>1. /\ file \in inode_bitmap /\ inodes[file].type = "REGULAR"
      /\ from \in Nat /\ from <= inodes[file].size
  BY DEF CanWrite
<1>2. PICK x \in Staged(file, from, size, value) : WritesUpTo(o, file, x)
  <2>1. FirstTurn(fd, size) \in Staged(file, from, size, value)
    BY FirstTurnStages
  <2>2. \A v \in Staged(file, from, size, value) :
          Turn(v, value) \in Staged(file, from, size, value)
    BY <1>1, TurnStages
  <2> DEFINE V == Staged(file, from, size, value)
  <2> HIDE DEF V, from
  <2> QED BY <2>1, <2>2, WrittenFileIs DEF V
<1>3. /\ fd \in DOMAIN StoredOpen /\ StoredOpen[fd].file = file /\ StoredOpen[fd].offset = from
      /\ BrokenOff(o, k)
  BY DEF StoredOpen
<1> HIDE DEF file, from, o
<1>4. x \in Going(file)
  BY DEF Staged, Writing
<1>5. PICK db : LeavesShape(o, inode_bitmap, db)
  BY <1>1, <1>2, <1>3, <1>4, WriteCrash
<1>6. /\ SamePathsTo(inode_bitmap)
      /\ \A n \in inode_bitmap \ {file} : Shown(n)
      /\ inodes'[file].type = "REGULAR"
  BY <1>1, <1>2, <1>3, <1>4, WriteCrash DEF LeavesWrite
<1>7. PICK count \in 0..size :
        ContentsIn(inodes'[file], blocks') =
          Seen!Written(ContentsIn(inodes[file], blocks), from, count, value)
  <2>1. /\ file \in inode_bitmap /\ inodes[file].type = "REGULAR"
        /\ from \in Nat /\ from <= inodes[file].size /\ size \in Nat
        /\ x \in Staged(file, from, size, value) /\ WritesUpTo(o, file, x) /\ BrokenOff(o, k)
    BY <1>1, <1>2, <1>3
  <2> QED BY <2>1, WriteCrashContents, ZenonT(30)
<1>8. Reachable = inode_bitmap /\ Reachable' = inode_bitmap
  <2>1. Shape(inode_bitmap, data_bitmap)
    BY NowIsShaped
  <2>2. AllReached(inode_bitmap, Reach')
    BY <1>6, ReachedStays
  <2> QED BY <1>5, <2>1, <2>2, WholeIsReached, ShapedIsReached DEF LeavesShape
<1>9. StoredNames' = StoredNames
  BY <1>6, StoredIs DEF SamePathsTo
<1>10. SeenData = StoredData /\ file \in S
  BY <1>1, <1>8, SeenIsStored DEF FilesOf
<1>11. SeenData = [n \in S |-> SeenData[n]]
  BY <1>10, StoredIs DEF DataIn
<1>12. SeenData[file] = ContentsIn(inodes[file], blocks)
  BY <1>10, StoredIs DEF DataIn
<1>13. \A n \in S \ {file} : /\ inodes'[n].type = "REGULAR"
                             /\ ContentsIn(inodes'[n], blocks') = SeenData[n]
  <2>1. S \ {file} \in SUBSET FilesOf(inode_bitmap, inodes) /\ \A n \in S \ {file} : Shown(n)
    BY <1>6 DEF FilesOf
  <2> HIDE DEF S
  <2> QED BY <1>10, <2>1, ShownData
<1>14. FilesOf(Reachable', inodes') = S
  BY <1>1, <1>6, <1>8, <1>13 DEF Shown, FilesOf
<1> DEFINE new == Seen!Written(SeenData[file], from, count, value)
<1>15. SeenData' = [n \in S |-> ContentsIn(inodes'[n], blocks')]
  BY <1>14, SeenIs DEF DataIn
<1>16. ContentsIn(inodes'[file], blocks') = new
  BY <1>7, <1>12
<1> HIDE DEF S, new
<1>17. SeenData' = [n \in S |-> IF n = file THEN new ELSE SeenData[n]]
  BY <1>13, <1>15, <1>16
<1>18. SeenData' = [SeenData EXCEPT ![file] = new]
  BY <1>10, <1>11, <1>17
<1>19. SeenData' = [SeenData EXCEPT ![StoredOpen[fd].file] =
                      Seen!Written(@, StoredOpen[fd].offset, count, value)]
  BY <1>3, <1>18, Zenon DEF new
<1>20. Seen!Overwrite(fd, count, value)
  BY <1>9, <1>19, Zenon DEF Seen!Overwrite, StoredNames, SeenData, StoredOpen
<1>21. StoredOpen' = [z \in {} |-> 0]
  BY CrashShuts
<1> QED BY <1>3, <1>20, <1>21, Zenon DEF Seen!Crash, StoredNames, SeenData, StoredOpen

-----------------------------------------------------------------------------
(* Every step, as the user sees it.                                         *)

\* A crash in any operation.
LEMMA CrashIsSeen ==
    ASSUME ~RemovesOpenFiles, SessionInv, AllReached(inode_bitmap, Reach), Kinds,
           CrashInOperation
    PROVE  Seen!Crash
<1>1. PICK o \in Outcomes, k \in 0..MaxWrites : BrokenOff(o, k)
  BY DEF CrashInOperation
<1>2. k \in Nat /\ SoundNow /\ open_files' = <<>>
  BY DEF CrashInOperation, Remounted, MaxWrites, SessionInv, Inv
<1>3. ASSUME NEW path \in Paths \ {<<>>}, o \in NamesAt(path)
      PROVE  Seen!Crash
  BY <1>1, <1>2, <1>3, NamesCrashIsSeen
<1>4. ASSUME NEW fd \in DOMAIN open_files, NEW size \in Sizes, NEW value \in Values,
             NEW w \in WrittenFile(fd, size, value), o = w.outcome
      PROVE  Seen!Crash
  <2>1. CanWrite(fd) /\ size \in Nat
    BY FileSystemAssumption DEF SessionInv, Inv, OpenFilesAreLive, Descriptors, CanWrite
  <2>2. BrokenOff(w.outcome, k)
    BY <1>1, <1>4
  <2> QED BY <1>2, <2>1, <2>2, WriteCrashIsSeen
<1> QED BY <1>3, <1>4, OutcomesAre

\* In a session the inodes in use are those that paths lead to.
LEMMA SessionsAreReached ==
    SessionInv /\ AllReached(inode_bitmap, Reach) => Reachable = inode_bitmap
<1> SUFFICES ASSUME SessionInv, AllReached(inode_bitmap, Reach)
             PROVE  Reachable = inode_bitmap
  OBVIOUS
<1>1. Shape(inode_bitmap, data_bitmap)
  BY NowIsShaped DEF SessionInv, Inv
<1> QED BY <1>1, WholeIsReached

\* A step of a session.
LEMMA SessionIsSeen ==
    ASSUME ~RemovesOpenFiles, SessionInv, AllReached(inode_bitmap, Reach), Kinds,
           [Session]_cwdVars
    PROVE  Seen!Next
<1>1. SessionInv' /\ AllReached(inode_bitmap, Reach)'
  BY SessionStep, SessionReaches DEF AllReached
<1>2. (SessionInv /\ AllReached(inode_bitmap, Reach) => Reachable = inode_bitmap)'
  BY SessionsAreReached, PTL
<1>3. SameView
  BY <1>1, <1>2, SessionsAreReached, SeenIsStored DEF SameView
<1>4. [Next]_vars
  BY DEF Session, FormatHere, Leave, ChangeDirectory, cwdVars, Next
<1>5. [Store!Next]_Stored
  BY <1>4, NextImplements DEF SessionInv
<1> QED BY <1>3, <1>5, NextIsSeen

\* A format of what a crash has left.
LEMMA RecoverIsSeen ==
    ASSUME ~RemovesOpenFiles, CrashInv, Recover
    PROVE  Seen!Next
<1>1. Format /\ open_files = <<>> /\ open_files' = <<>>
  BY DEF Recover, FormatHere, Format, files
<1>2. SessionInv' /\ AllReached(inode_bitmap, Reach)'
  BY RecoverKeeps DEF CrashInv
<1>3. (SessionInv /\ AllReached(inode_bitmap, Reach) => Reachable = inode_bitmap)'
  BY SessionsAreReached, PTL
<1>4. Formatted
  BY <1>1, <1>2, FormatIsFormatted DEF SessionInv, Inv
<1>5. DOMAIN StoredOpen = {} /\ StoredOpen' = StoredOpen
  BY <1>1 DEF StoredOpen
<1>6. SeenData' = [file \in {} |-> <<>>]
  <2>1. FilesOf(inode_bitmap', inodes') = {}
    BY <1>4 DEF Formatted, FilesOf
  <2> QED BY <1>2, <1>3, <2>1, SeenIs DEF DataIn
<1>7. StoredNames' = [path \in {<<>>} |-> ROOT_INODE]
  <2>1. Reach'[<<>>] = {ROOT_INODE} /\ \A q \in NamePaths : q # <<>> => Reach'[q] = {}
    BY <1>4 DEF Formatted
  <2>2. NamesVia(Reach') = [path \in {<<>>} |-> ROOT_INODE]
    BY <2>1, RootIsNamed
  <2> QED BY <2>2, StoredIs
<1>8. Seen!Format
  BY <1>5, <1>6, <1>7, Zenon DEF Seen!Format, StoredNames, SeenData, StoredOpen
<1> QED BY <1>8, Zenon DEF Seen!Next

\* In a session whatever is allocated is a file or a directory.
KindsInSession == crashed = "no" => Kinds

\* So it is at the start.
LEMMA KindsStart == CrashInit => KindsInSession
<1> SUFFICES ASSUME CrashInit PROVE Kinds
  BY DEF KindsInSession
<1>1. inode_bitmap = {ROOT_INODE} /\ Inv
  BY FirstState DEF CrashInit, SessionInit, Init
<1> QED BY <1>1 DEF Kinds, Inv, SoundNow, Sound, Tree, Rooted, Directories

\* A format makes it so again, whatever a crash has left.
LEMMA KindsStep ==
    ASSUME ~RemovesOpenFiles, CrashInv, KindsInSession, [CrashNext]_crashVars
    PROVE  KindsInSession'
<1> SUFFICES ASSUME crashed' = "no"
             PROVE  Kinds'
  BY DEF KindsInSession
<1>1. ASSUME crashed = "no", [Session]_cwdVars
      PROVE  Kinds'
  <2>1. [Next]_vars
    BY <1>1 DEF Session, FormatHere, Leave, ChangeDirectory, cwdVars, Next
  <2> QED BY <1>1, <2>1, KindsStay DEF CrashInv, SessionInv, KindsInSession
<1>2. CASE Recover
  <2>1. Format /\ SoundNow'
    BY <1>2, RecoverKeeps DEF Recover, FormatHere, CrashInv, SessionInv, Inv
  <2> QED BY <2>1, FormatIsFormatted DEF Kinds, Formatted
<1>3. ~Crash
  BY DEF Crash, CrashInOperation, BrokenOff, CrashInFormat
<1>4. CASE UNCHANGED crashVars
  <2>1. crashed = "no" /\ UNCHANGED cwdVars
    BY <1>4 DEF crashVars
  <2> QED BY <1>1, <2>1
<1> QED BY <1>1, <1>2, <1>3, <1>4 DEF CrashNext

\* A step, with crashes.
LEMMA StepIsSeen ==
    ASSUME ~RemovesOpenFiles, CrashInv, KindsInSession, CrashNext, crashed' # "format"
    PROVE  Seen!Next \/ Seen!Crash
<1>1. CASE crashed = "no" /\ Session
  BY <1>1, SessionIsSeen DEF CrashInv, KindsInSession
<1>2. ASSUME crashed # "no", (Mount /\ UNCHANGED current_dir) \/ Leave,
             UNCHANGED <<crashed, doubtful>>
      PROVE  Seen!Next
  <2>1. UNCHANGED cwdVars
    BY <1>2, StartedAgain DEF CrashInv
  <2>2. UNCHANGED <<inode_bitmap, data_bitmap, bitmap_dirty, superblock, saved>>
        /\ UNCHANGED <<open_files, next_fd, current_dir, inodes, blocks>>
    BY <2>1 DEF cwdVars, vars, memory, files
  <2>3. PICK ib, db : Shape(ib, db) /\ AllReached(ib, Reach)
    BY <1>2 DEF CrashInv, Recoverable
  <2>4. Reach' = Reach
    BY <2>2, <2>3, SameDiskSamePaths
  <2>5. Reachable = ib /\ Reachable' = ib
    <3>1. Shaped(ib, db, inodes', blocks') /\ AllReached(ib, Reach')
      BY <2>2, <2>3, <2>4 DEF Shape
    <3> QED BY <2>3, <3>1, WholeIsReached, ShapedIsReached
  <2>6. StoredNames' = StoredNames /\ SeenData' = SeenData /\ StoredOpen' = StoredOpen
    BY <2>2, <2>4, <2>5, StoredIs, SeenIs DEF StoredOpen
  <2>7. UNCHANGED Seen!store
    BY <2>6, Zenon DEF Seen!store, StoredNames, SeenData, StoredOpen
  <2> QED BY <2>7, Zenon DEF Seen!Next
<1>3. CASE Recover
  BY <1>3, RecoverIsSeen
<1>4. CASE crashed = "no" /\ CrashInOperation
  BY <1>4, CrashIsSeen DEF CrashInv, KindsInSession
<1>5. ~\E k \in 0..NumInodes + 6 : CrashInFormat(k)
  BY DEF CrashInFormat
<1> QED BY <1>1, <1>2, <1>3, <1>4, <1>5 DEF CrashNext, Crash

\* As long as no file is removed or formatted away while it is open, a crash
\* out of an operation shows the user what was there before the operation,
\* or after it, or a part of a write; and every other step is one of the
\* tree of files (module FileStore), on disks of every size.
THEOREM CrashesAreAlwaysAtomic ==
    ASSUME ~RemovesOpenFiles PROVE CrashSpec => CrashesAreAtomic
<1>1. CrashInit => KindsInSession
  BY KindsStart
<1>2. CrashInv /\ KindsInSession /\ [CrashNext]_crashVars => KindsInSession'
  BY KindsStep
<1>3. CrashInv /\ KindsInSession /\ [CrashNext]_crashVars
        => [crashed' # "format" => Seen!Next \/ Seen!Crash]_crashVars
  BY StepIsSeen
<1>4. CrashSpec => []CrashInv
  BY CrashInvHolds
<1> QED BY <1>1, <1>2, <1>3, <1>4, PTL DEF CrashSpec, CrashesAreAtomic

-----------------------------------------------------------------------------
(* What is typed, after a crash.                                            *)

\* Block 0 begins with the entries of the root directory for itself, and no
\* name in it leads back to the root.
RootBegins ==
    LET entries == blocks[0].entries
    IN  /\ entries[0] = Entry(Dot, ROOT_INODE)
        /\ entries[1] = Entry(DotDot, ROOT_INODE)
        /\ \A j \in 2..Slots - 1 : entries[j].inode_num # INVALID_INODE =>
             entries[j].name \in Names /\ entries[j].inode_num # ROOT_INODE

\* It is the first block of the root directory, if there is one, even when
\* format() was broken off before it has written it.
RootStays ==
    /\ RootBegins
    /\ inodes[ROOT_INODE].type = "DIRECTORY" => inodes[ROOT_INODE].direct_blocks[0] = 0

\* Where bitmaps fit the disk, the first block of the root directory is such.
LEMMA ShapeBegins ==
    ASSUME NEW ib, NEW db, Shape(ib, db), inodes[ROOT_INODE].direct_blocks[0] = 0
    PROVE  RootBegins
<1> DEFINE at(j) == At(inodes, blocks, ROOT_INODE, <<0, j>>)
<1>1. /\ ROOT_INODE \in Directories(ib, inodes) /\ inodes[ROOT_INODE] \in Inode
      /\ inodes[ROOT_INODE].blocks_used > 0
      /\ at(0) = Entry(Dot, ROOT_INODE) /\ at(1) = Entry(DotDot, ROOT_INODE)
  BY InodeIsThere DEF Shape, Shaped, Begun, Rooted, Directories
<1>2. \A j \in 0..Slots - 1 : at(j) = blocks[0].entries[j]
  BY DEF At
<1>3. ASSUME NEW j \in 2..Slots - 1, at(j).inode_num # INVALID_INODE
      PROVE  at(j).name \in Names /\ at(j).inode_num # ROOT_INODE
  <2>1. j \in 0..Slots - 1 /\ 0 \in Indices(inodes[ROOT_INODE])
    BY <1>1, InodeFields DEF Indices
  <2>2. <<0, j>> \in LinksOf(inodes, blocks, ROOT_INODE)
    BY <1>3, <2>1 DEF LinksOf, Taken, Places, Heads
  <2> QED BY <1>1, <2>2 DEF Shape, Shaped, Begun, Linked
<1>4. 0 \in 0..Slots - 1 /\ 1 \in 0..Slots - 1 /\ \A j \in 2..Slots - 1 : j \in 0..Slots - 1
  BY Numbers
<1> HIDE DEF at
<1> QED BY <1>1, <1>2, <1>3, <1>4 DEF RootBegins

\* The outcomes of operations keep the root directory in its first block.
LEMMA OutcomesKeepRoot ==
    ASSUME Inv, NEW o,
           \/ \E path \in Paths \ {<<>>} : o \in NamesAt(path)
           \/ \E fd \in DOMAIN open_files, size \in Sizes, value \in Values :
                \E w \in WrittenFile(fd, size, value) : o = w.outcome
    PROVE  o.inodes[ROOT_INODE].direct_blocks[0] = inodes[ROOT_INODE].direct_blocks[0]
<1>1. /\ SoundNow /\ ROOT_INODE \in inode_bitmap /\ ROOT_INODE \in Inodes
      /\ inodes[ROOT_INODE].type = "DIRECTORY" /\ inodes \in InodeTable
  BY Numbers DEF Inv, SoundNow, Sound, Typed, Tree, Rooted, Directories
<1>2. ASSUME NEW path \in Paths \ {<<>>}, o \in NamesAt(path)
      PROVE  o.inodes[ROOT_INODE].direct_blocks[0] = inodes[ROOT_INODE].direct_blocks[0]
  <2>1. OfNames(o)
    BY <1>1, <1>2, NameOutcomes
  <2>2. CASE ChangesNothing(o)
    BY <1>1, <2>2 DEF ChangesNothing, Untouched
  <2>3. ASSUME NEW early \in Seq(Writes), NEW dir, NEW c, Commits(o, early, dir, c)
        PROVE  o.inodes[ROOT_INODE].direct_blocks[0] = inodes[ROOT_INODE].direct_blocks[0]
    <3>1. \A i \in 1..Len(early) : early[i] # InodeWrite(ROOT_INODE)
      BY <1>1, <2>3, WritesDiffer DEF Commits
    <3>2. ROOT_INODE = dir \/ o.inodes[ROOT_INODE] = inodes[ROOT_INODE]
      BY <1>1, <2>3, <3>1 DEF Commits
    <3> QED BY <2>3, <3>2 DEF Commits
  <2> QED BY <2>1, <2>2, <2>3 DEF OfNames
<1>3. ASSUME NEW fd \in DOMAIN open_files, NEW size \in Sizes, NEW value \in Values,
             NEW w \in WrittenFile(fd, size, value), o = w.outcome
      PROVE  o.inodes[ROOT_INODE] = inodes[ROOT_INODE]
  <2> DEFINE file == open_files[fd].inode_num
             x == Written(FirstTurn(fd, size), value)
  <2>1. file # ROOT_INODE
    BY <1>1 DEF Inv, OpenFilesAreLive
  <2>2. w = [outcome |-> Outcome(inode_bitmap, x.used, [inodes EXCEPT ![file] = x.inode],
                                 x.data, Append(x.order, InodeWrite(file)), TRUE),
             offset  |-> x.offset]
    BY Zenon DEF WrittenFile, FirstTurn
  <2>3. o.inodes = [inodes EXCEPT ![file] = x.inode]
    <3> HIDE DEF x, file
    <3> QED BY <1>3, <2>2, Zenon DEF Outcome
  <2> HIDE DEF x, file
  <2> QED BY <1>1, <2>1, <2>3 DEF InodeTable
<1> QED BY <1>2, <1>3

\* Where bitmaps fit the disk, and block 0 is the first of the root directory.
LEMMA ShapedRootStays ==
    ASSUME NEW ib, NEW db, Shape(ib, db), inodes[ROOT_INODE].direct_blocks[0] = 0
    PROVE  RootStays
  BY ShapeBegins DEF RootStays

\* Whatever bitmaps fit.
ShapesBegin ==
    \A ib, db : Shape(ib, db) /\ inodes[ROOT_INODE].direct_blocks[0] = 0 => RootStays

\* This is always so.
LEMMA ShapesDoBegin == ShapesBegin
  BY ShapedRootStays DEF ShapesBegin

\* In a session the root directory is there, and has not moved.
LEMMA SessionHasRoot ==
    ASSUME RootStays, Inv
    PROVE  inodes[ROOT_INODE].direct_blocks[0] = 0
  BY DEF RootStays, Inv, SoundNow, Sound, Tree, Rooted, Directories

\* A new file system has the root directory in block 0.
LEMMA FormattedRootIs ==
    FormattedInodes[ROOT_INODE].type = "DIRECTORY" /\ FormattedInodes[ROOT_INODE].direct_blocks[0] = 0
<1>1. FormattedInodes[ROOT_INODE] = NewDirectoryInode(0)
  BY Numbers DEF FormattedInodes, NewDirectoryInode
<1> QED BY <1>1, Numbers, NewDirectoryInodeIs

\* Steps of a session.
LEMMA SessionKeepsRoot ==
    ASSUME ~RemovesOpenFiles, SessionInv, RootStays, [Session]_cwdVars
    PROVE  RootStays'
<1>1. Inv /\ Inv' /\ inodes[ROOT_INODE].direct_blocks[0] = 0
  BY SessionStep, SessionHasRoot DEF SessionInv
<1>2. inodes'[ROOT_INODE].direct_blocks[0] = 0
  <2>1. CASE inodes' = inodes
    BY <1>1, <2>1
  <2>2. CASE Format
    BY <2>2, FormattedRootIs DEF Format
  <2>3. ASSUME NEW path \in Paths,
               CreateFile(path) \/ CreateDirectory(path) \/ RemoveFile(path)
        PROVE  inodes'[ROOT_INODE].direct_blocks[0] = 0
    <3>1. path # <<>>
      <4>1. Placements(<<>>) = {}
        BY DEF Placements, CanAdd
      <4>2. Created(<<>>) = {} /\ MadeDirectory(<<>>) = {}
        BY <4>1 DEF Created, MadeDirectory
      <4> QED BY <2>3, <4>2 DEF CreateFile, CreateDirectory, RemoveFile
    <3>2. PICK o \in NamesAt(path) : Complete(o)
      BY <2>3 DEF CreateFile, CreateDirectory, RemoveFile, NamesAt
    <3>3. inodes' = o.inodes
      BY <3>2 DEF Complete
    <3> QED BY <1>1, <3>1, <3>2, <3>3, OutcomesKeepRoot
  <2>4. ASSUME NEW fd \in Fds, NEW size \in Sizes, NEW value \in Values, WriteFile(fd, size, value)
        PROVE  inodes'[ROOT_INODE].direct_blocks[0] = 0
    <3>1. fd \in DOMAIN open_files
      BY <2>4 DEF WriteFile
    <3>2. PICK w \in WrittenFile(fd, size, value) : Complete(w.outcome)
      BY <2>4 DEF WriteFile
    <3>3. inodes' = w.outcome.inodes
      BY <3>2 DEF Complete
    <3> QED BY <1>1, <3>1, <3>2, <3>3, OutcomesKeepRoot
  <2>5. \/ inodes' = inodes \/ Format
        \/ \E path \in Paths : CreateFile(path) \/ CreateDirectory(path) \/ RemoveFile(path)
        \/ \E fd \in Fds, size \in Sizes, value \in Values : WriteFile(fd, size, value)
    BY DEF Session, FormatHere, Leave, ChangeDirectory, Operation, OpenFile, ReadFile,
           CloseFile, Mount, Restart, cwdVars, vars
  <2> QED BY <2>1, <2>2, <2>3, <2>4, <2>5
<1>3. Shape(inode_bitmap, data_bitmap)'
  <2>1. (SoundNow => Shape(inode_bitmap, data_bitmap))'
    BY NowIsShaped, PTL
  <2> QED BY <1>1, <2>1 DEF Inv
<1>4. ShapesBegin'
  BY ShapesDoBegin, PTL
<1> QED BY <1>2, <1>3, <1>4 DEF ShapesBegin

\* A crash in an operation.
LEMMA CrashKeepsRoot ==
    ASSUME SessionInv, AllReached(inode_bitmap, Reach), RootStays, CrashInOperation
    PROVE  RootStays'
<1>1. Inv /\ inodes[ROOT_INODE].direct_blocks[0] = 0 /\ ROOT_INODE \in Inodes
  BY SessionHasRoot, Numbers DEF SessionInv
<1>2. PICK o \in Outcomes, k \in 0..MaxWrites : BrokenOff(o, k)
  BY DEF CrashInOperation
<1>3. k \in Nat
  BY <1>2 DEF MaxWrites
<1>4. o.order \in Seq(Writes) /\ o.saves \in BOOLEAN
  BY <1>1, <1>2, <1>3, OutcomeCrash
<1>5. o.inodes[ROOT_INODE].direct_blocks[0] = inodes[ROOT_INODE].direct_blocks[0]
  BY <1>1, OutcomesAre, OutcomesKeepRoot
<1>6. inodes'[ROOT_INODE] \in {o.inodes[ROOT_INODE], inodes[ROOT_INODE]}
  BY <1>1, <1>2, <1>3, <1>4, BrokenOffIs
<1>7. inodes'[ROOT_INODE].direct_blocks[0] = 0
  BY <1>1, <1>5, <1>6
<1>8. CrashInv' /\ crashed' = "operation"
  BY <1>2, CrashInOperationKeeps DEF BrokenOff
<1>9. \E ib, db : Shape(ib, db)'
  BY <1>8 DEF CrashInv, Recoverable
<1>10. ShapesBegin'
  BY ShapesDoBegin, PTL
<1> QED BY <1>7, <1>9, <1>10 DEF ShapesBegin

\* Block 0 as format() writes it.
LEMMA RootBlockBegins ==
    ASSUME blocks' \in Disk, blocks'[0] = RootBlock
    PROVE  RootBegins'
<1>1. Entry(Dot, ROOT_INODE) \in DirectoryEntry /\ Entry(DotDot, ROOT_INODE) \in DirectoryEntry
  BY Numbers, EntryType
<1>2. /\ RootBlock.entries[0] = Entry(Dot, ROOT_INODE)
      /\ RootBlock.entries[1] = Entry(DotDot, ROOT_INODE)
      /\ \A j \in 0..Slots - 1 : j \notin {0, 1} => RootBlock.entries[j] = FreeEntry
  BY <1>1, NewDirectoryBlockIs DEF RootBlock
<1>3. \A j \in 2..Slots - 1 : RootBlock.entries[j].inode_num = INVALID_INODE
  BY <1>2, FreeEntryIs
<1> QED BY <1>2, <1>3 DEF RootBegins

\* A crash in format(), before or after it has cleared or written the root
\* directory.
LEMMA CrashInFormatKeepsRoot ==
    ASSUME CrashInv, RootStays, NEW k \in Nat, CrashInFormat(k)
    PROVE  RootStays'
<1>1. ROOT_INODE \in Inodes /\ 0 \in Blocks /\ blocks \in Disk /\ inodes \in InodeTable
  BY Numbers DEF CrashInv
<1>2. blocks' \in {blocks, [blocks EXCEPT ![0] = RootBlock]}
  BY DEF CrashInFormat
<1>3. RootBegins'
  <2>1. CASE blocks' = blocks
    BY <2>1 DEF RootStays, RootBegins
  <2>2. CASE blocks' = [blocks EXCEPT ![0] = RootBlock]
    <3>1. blocks' \in Disk
      BY CrashInFormatKeeps DEF CrashInv
    <3>2. blocks'[0] = RootBlock
      BY <1>1, <2>2 DEF Disk
    <3> QED BY <3>1, <3>2, RootBlockBegins
  <2> QED BY <1>2, <2>1, <2>2
<1>4. inodes'[ROOT_INODE] \in {inodes[ROOT_INODE], NewInode("NONE"), FormattedInodes[ROOT_INODE]}
  BY <1>1 DEF CrashInFormat
<1>5. NewInode("NONE").type # "DIRECTORY"
  BY NewInodeIs
<1> QED BY <1>3, <1>4, <1>5, FormattedRootIs DEF RootStays

\* A format, whatever it finds.
LEMMA FormatSetsRoot ==
    ASSUME blocks \in Disk, Format
    PROVE  RootStays'
<1>1. 0 \in Blocks /\ RootBlock \in Block
  BY Numbers, EntryType, NewDirectoryBlockIs DEF RootBlock
<1>2. blocks' = With(blocks, 0, RootBlock) /\ inodes' = FormattedInodes
  BY DEF Format, With
<1>3. blocks' \in Disk /\ blocks'[0] = RootBlock
  BY <1>1, <1>2, DiskWith
<1> QED BY <1>2, <1>3, RootBlockBegins, FormattedRootIs DEF RootStays

\* Every step keeps the root directory in block 0.
LEMMA RootStaysStep ==
    ASSUME ~RemovesOpenFiles, CrashInv, RootStays, [CrashNext]_crashVars
    PROVE  RootStays'
<1>1. CASE UNCHANGED <<inodes, blocks>>
  BY <1>1 DEF RootStays, RootBegins
<1>2. CASE crashed = "no" /\ Session
  BY <1>2, SessionKeepsRoot DEF CrashInv
<1>3. CASE Recover
  BY <1>3, FormatSetsRoot DEF Recover, FormatHere, CrashInv
<1>4. CASE crashed = "no" /\ CrashInOperation
  BY <1>4, CrashKeepsRoot DEF CrashInv
<1>5. ASSUME NEW k \in 0..NumInodes + 6, CrashInFormat(k)
      PROVE  RootStays'
  <2>1. k \in Nat
    OBVIOUS
  <2> QED BY <1>5, <2>1, CrashInFormatKeepsRoot
<1>6. (Mount \/ Leave \/ UNCHANGED crashVars) => UNCHANGED <<inodes, blocks>>
  BY DEF Mount, Leave, Restart, crashVars, cwdVars, vars
<1> QED BY <1>1, <1>2, <1>3, <1>4, <1>5, <1>6 DEF CrashNext, Crash

\* The first session starts so.
LEMMA RootStaysStart == CrashInit => RootStays
<1> SUFFICES ASSUME CrashInit PROVE RootStays
  OBVIOUS
<1>1. Inv /\ inodes = FormattedInodes
  BY CrashStarts DEF CrashInit, SessionInit, Init, CrashInv, SessionInv
<1>2. Shape(inode_bitmap, data_bitmap)
  BY <1>1, NowIsShaped DEF Inv
<1> QED BY <1>1, <1>2, FormattedRootIs, ShapedRootStays

\* An inode that is no directory leads nowhere.
LEMMA NoneLeadsNowhere ==
    ASSUME NEW n, inodes[n] = NewInode("NONE"), NEW part
    PROVE  inodes[n].type # "DIRECTORY" /\ LookupIn(n, part) = {}
  BY NewInodeIs DEF LookupIn

\* While the inode of the root directory is cleared, nothing leads anywhere.
LEMMA EmptiedIsNavigable ==
    ASSUME Emptied
    PROVE  Navigable({ROOT_INODE})
<1> DEFINE V == {ROOT_INODE}
<1>1. /\ inodes[ROOT_INODE].type # "DIRECTORY"
      /\ \A dir \in V : \A part : LookupIn(dir, part) = {}
  BY NoneLeadsNowhere DEF Emptied
<1>2. \A dir \in V : \A name \in Names : LookupIn(dir, name) \subseteq V
  BY <1>1
<1>3. \A q \in NamePaths : Lookup(q) \subseteq V
  BY <1>2, LookupWalks DEF NamePaths
<1>4. \A q \in NamePaths, a \in Names : Lookup(Append(q, a)) = Step(Lookup(q), a)
  BY <1>2, LookupGoesOn
<1>5. Lookup(<<>>) = {ROOT_INODE}
  BY <1>2, RootPathLeads
<1> QED BY <1>1, <1>3, <1>4, <1>5 DEF Navigable

\* The entries of a root directory that has one block, block 0.
LEMMA NewRootFinds ==
    ASSUME inodes \in InodeTable, Begins, RootBegins
    PROVE  /\ LookupIn(ROOT_INODE, Dot) = {ROOT_INODE}
           /\ LookupIn(ROOT_INODE, DotDot) = {ROOT_INODE}
           /\ \A a \in Names : /\ ROOT_INODE \notin LookupIn(ROOT_INODE, a)
                               /\ \A x, y \in LookupIn(ROOT_INODE, a) : x = y
<1> DEFINE entries == blocks[0].entries
<1>1. /\ inodes[ROOT_INODE] \in Inode /\ inodes[ROOT_INODE].type = "DIRECTORY"
      /\ inodes[ROOT_INODE].blocks_used = 1 /\ inodes[ROOT_INODE].direct_blocks[0] = 0
  <2>1. inodes[ROOT_INODE] = NewDirectoryInode(0)
    BY Numbers DEF Begins, FormattedInodes, NewDirectoryInode
  <2> QED BY <2>1, Numbers, NewDirectoryInodeIs
<1>2. Slots \in Nat /\ Slots >= 2
  BY FileSystemAssumption
<1>3. Positions(ROOT_INODE) = 0..Slots - 1
  BY <1>1, <1>2 DEF Positions
<1>4. ASSUME NEW k \in 0..Slots - 1
      PROVE  EntryAt(ROOT_INODE, k) = entries[k]
  <2>1. 0 = k \div Slots /\ k = k % Slots
    BY <1>2, Division
  <2> QED BY <1>1, <2>1 DEF EntryAt
<1>5. Used(ROOT_INODE) = {k \in 0..Slots - 1 : entries[k].inode_num # INVALID_INODE}
  BY <1>3, <1>4 DEF Used
<1>6. /\ entries[0].name = Dot /\ entries[0].inode_num = ROOT_INODE
      /\ entries[1].name = DotDot /\ entries[1].inode_num = ROOT_INODE
      /\ \A k \in 0..Slots - 1 : k \notin {0, 1} /\ entries[k].inode_num # INVALID_INODE =>
           entries[k].name \in Names /\ entries[k].inode_num # ROOT_INODE
  BY <1>2, EntryIs DEF RootBegins
<1> HIDE DEF entries
<1>7. ASSUME NEW part
      PROVE  LookupIn(ROOT_INODE, part) =
               {entries[k].inode_num :
                  k \in Firsts({j \in Used(ROOT_INODE) : entries[j].name = part})}
  <2>1. {j \in Used(ROOT_INODE) : EntryAt(ROOT_INODE, j).name = part}
          = {j \in Used(ROOT_INODE) : entries[j].name = part}
    BY <1>4, <1>5
  <2>2. \A k \in Named(ROOT_INODE, part) : EntryAt(ROOT_INODE, k) = entries[k]
    BY <1>4, <1>5 DEF Named, Firsts
  <2>3. LookupIn(ROOT_INODE, part) =
          {EntryAt(ROOT_INODE, k).inode_num : k \in Named(ROOT_INODE, part)}
    BY <1>1 DEF LookupIn
  <2> QED BY <2>1, <2>2, <2>3 DEF Named
<1>8. \A i \in Int : Firsts({i}) = {i}
  BY DEF Firsts
<1>9. 0 \in Used(ROOT_INODE) /\ 1 \in Used(ROOT_INODE)
  BY <1>2, <1>5, <1>6, Numbers
<1>10. {j \in Used(ROOT_INODE) : entries[j].name = Dot} = {0}
  BY <1>5, <1>6, <1>9, Numbers
<1>11. {j \in Used(ROOT_INODE) : entries[j].name = DotDot} = {1}
  BY <1>5, <1>6, <1>9, Numbers
<1>12. ASSUME NEW a \in Names
       PROVE  /\ ROOT_INODE \notin LookupIn(ROOT_INODE, a)
              /\ \A x, y \in LookupIn(ROOT_INODE, a) : x = y
  <2> DEFINE S == {j \in Used(ROOT_INODE) : entries[j].name = a}
  <2>1. S \in SUBSET Int /\ Firsts(S) \subseteq S
    BY <1>5 DEF Firsts
  <2>2. \A j \in S : entries[j].inode_num # ROOT_INODE
    BY <1>5, <1>6, Numbers
  <2>3. LookupIn(ROOT_INODE, a) = {entries[k].inode_num : k \in Firsts(S)}
    BY <1>7
  <2> HIDE DEF S
  <2>4. \A k, l \in Firsts(S) : k = l
    BY <2>1, FirstIsUnique
  <2> QED BY <2>1, <2>2, <2>3, <2>4
<1>13. LookupIn(ROOT_INODE, Dot) = {entries[0].inode_num}
  <2>1. Firsts({j \in Used(ROOT_INODE) : entries[j].name = Dot}) = {0}
    BY <1>8, <1>10
  <2>2. LookupIn(ROOT_INODE, Dot) =
          {entries[k].inode_num :
             k \in Firsts({j \in Used(ROOT_INODE) : entries[j].name = Dot})}
    BY <1>7
  <2> QED BY <2>1, <2>2
<1>14. LookupIn(ROOT_INODE, DotDot) = {entries[1].inode_num}
  <2>1. Firsts({j \in Used(ROOT_INODE) : entries[j].name = DotDot}) = {1}
    BY <1>8, <1>11
  <2>2. LookupIn(ROOT_INODE, DotDot) =
          {entries[k].inode_num :
             k \in Firsts({j \in Used(ROOT_INODE) : entries[j].name = DotDot})}
    BY <1>7
  <2> QED BY <2>1, <2>2
<1> QED BY <1>6, <1>12, <1>13, <1>14

\* Where the root directory is the only inode, names in its block may still
\* lead to inodes, and from these nowhere.
LEMMA BeginsIsNavigable ==
    ASSUME inodes \in InodeTable, blocks \in Disk, Begins, RootBegins
    PROVE  Navigable(Inodes)
<1>1. /\ LookupIn(ROOT_INODE, Dot) = {ROOT_INODE}
      /\ LookupIn(ROOT_INODE, DotDot) = {ROOT_INODE}
      /\ \A a \in Names : /\ ROOT_INODE \notin LookupIn(ROOT_INODE, a)
                          /\ \A x, y \in LookupIn(ROOT_INODE, a) : x = y
      /\ ROOT_INODE \in Inodes
  BY NewRootFinds, Numbers
<1>2. /\ \A n \in Inodes \ {ROOT_INODE} : inodes[n].type # "DIRECTORY"
      /\ \A n \in Inodes \ {ROOT_INODE} : \A part : LookupIn(n, part) = {}
  BY NoneLeadsNowhere DEF Begins
<1>3. \A a \in Names : LookupIn(ROOT_INODE, a) \subseteq Inodes
  BY NewRootLeads
<1>4. \A dir \in Inodes : \A a \in Names : LookupIn(dir, a) \subseteq Inodes
  BY <1>2, <1>3
<1>5. \A q \in NamePaths : Lookup(q) \subseteq Inodes
  BY <1>1, <1>4, LookupWalks DEF NamePaths
<1>6. \A q \in NamePaths, a \in Names : Lookup(Append(q, a)) = Step(Lookup(q), a)
  BY <1>1, <1>4, LookupGoesOn
<1>7. Lookup(<<>>) = {ROOT_INODE}
  BY <1>1, <1>4, RootPathLeads
<1>8. \A p \in NamePaths : p # <<>> =>
         /\ Parent(p) \in NamePaths /\ Name(p) \in Names
         /\ Lookup(p) = Step(Lookup(Parent(p)), Name(p))
  BY <1>6, PathCases
<1>9. ASSUME NEW q \in NamePaths, q # <<>>
      PROVE  /\ ROOT_INODE \notin Lookup(q)
             /\ \A x, y \in Lookup(q) : x = y
  <2>1. /\ Parent(q) \in NamePaths /\ Name(q) \in Names
        /\ Lookup(q) = Step(Lookup(Parent(q)), Name(q))
    BY <1>8, <1>9
  <2>2. ROOT_INODE \notin Lookup(q)
    BY <1>1, <1>2, <1>5, <2>1 DEF Step
  <2>3. CASE Parent(q) = <<>>
    <3>1. Lookup(q) = LookupIn(ROOT_INODE, Name(q))
      BY <1>7, <2>1, <2>3 DEF Step
    <3> QED BY <1>1, <2>1, <2>2, <3>1
  <2>4. CASE Parent(q) # <<>>
    <3> DEFINE p == Parent(q)
    <3>1. p \in NamePaths /\ p # <<>> /\ Parent(p) \in NamePaths /\ Name(p) \in Names
          /\ Lookup(p) = Step(Lookup(Parent(p)), Name(p))
      BY <1>8, <2>1, <2>4
    <3>2. ROOT_INODE \notin Lookup(p)
      BY <1>1, <1>2, <1>5, <3>1 DEF Step
    <3>3. \A dir \in Lookup(p) : LookupIn(dir, Name(q)) = {}
      BY <1>2, <1>5, <3>1, <3>2
    <3>4. Lookup(q) = {}
      BY <2>1, <3>3 DEF Step
    <3> QED BY <3>4
  <2> QED BY <2>2, <2>3, <2>4
<1>10. ASSUME NEW q \in NamePaths, NEW dir \in Lookup(q), inodes[dir].type = "DIRECTORY"
      PROVE  LookupIn(dir, Dot) = Lookup(q) /\ LookupIn(dir, DotDot) = Lookup(Parent(q))
  <2>1. dir = ROOT_INODE
    BY <1>2, <1>5, <1>10
  <2>2. q = <<>>
    BY <1>9, <2>1
  <2>3. Parent(<<>>) = <<>>
    BY DEF Parent
  <2> QED BY <1>1, <1>7, <2>1, <2>2, <2>3
<1>11. \A q \in NamePaths : \A x \in Lookup(q) : Lookup(q) = {x}
  BY <1>7, <1>9
<1>12. \A dir \in Inodes : \A part \in Names \cup {Dot, DotDot} : LookupIn(dir, part) \subseteq Inodes
  BY <1>1, <1>2, <1>4
<1> QED BY <1>5, <1>6, <1>7, <1>10, <1>11, <1>12 DEF Navigable

\* What is typed leads, on whatever a crash has left, where its normalized
\* path leads.
LEMMA TypedAgrees ==
    ASSUME CrashInv, HalfFormatted, RootStays
    PROVE  NormalizedPathsAgree
<1>1. current_dir \in NamePaths
  BY PathCases DEF CrashInv, Started, SessionInv
<1>2. \E U : Navigable(U)
  <2>1. Whole \/ Emptied \/ Begins
    BY WholeUnlessFormatting
  <2>2. CASE Whole
    BY <2>2, ShapeIsNavigable DEF Whole
  <2>3. CASE Emptied
    BY <2>3, EmptiedIsNavigable
  <2>4. CASE Begins
    BY <2>4, BeginsIsNavigable DEF CrashInv, RootStays
  <2> QED BY <2>1, <2>2, <2>3, <2>4
<1> QED BY <1>1, <1>2, FollowedAgrees DEF NormalizedPathsAgree

\* A path that is typed with "." and ".." leads where the entries on the disk
\* lead, after every crash in an operation or in format() too.
THEOREM NormalizedPathsAgreeAfterCrashes ==
    ASSUME ~RemovesOpenFiles PROVE CrashSpec => []NormalizedPathsAgree
<1>1. RootStays /\ CrashInv /\ HalfFormatted /\ [CrashNext]_crashVars => RootStays'
  BY RootStaysStep
<1>2. CrashInv /\ HalfFormatted /\ RootStays => NormalizedPathsAgree
  BY TypedAgrees
<1> QED BY <1>1, <1>2, CrashesLeave, RootStaysStart, PTL DEF CrashSpec
=============================================================================
