----------------------------- MODULE FileSystem -----------------------------
(***************************************************************************)
(* The file system on the disk (src/fs): bitmaps, inode table, directory   *)
(* blocks, data blocks, and the table of open files.  Every operation of   *)
(* FileSystem is one action and runs to its end; a call that is refused    *)
(* before it changes anything is not an action.                            *)
(*                                                                         *)
(* Paths are given as the sequence of names that normalize_path() returns. *)
(* Sizes and offsets count cells, BlockSize of them to a block; a          *)
(* directory's size counts its entries.                                    *)
(***************************************************************************)
EXTENDS Enumeration

CONSTANTS
    NumInodes,           \* MAX_INODES
    NumBlocks,           \* MAX_DATA_BLOCKS
    DirectBlocks,        \* DIRECT_BLOCKS
    BlockSize,           \* cells in a block of a file
    Slots,               \* entries in a block of a directory
    Names,               \* names of files and directories
    MaxDepth,            \* bound: length of the paths in use
    Values,              \* contents of a cell
    Sizes,               \* sizes of reads and writes
    MaxFd,               \* bound: descriptors handed out before opening stops
    RemovesOpenFiles     \* whether open files are removed or formatted away

Inodes == 0..NumInodes - 1
Blocks == 0..NumBlocks - 1      \* bitmap indices, block numbers - 7
Fds == 3..MaxFd
Paths == UNION {[1..n -> Names] : n \in 0..MaxDepth}
ROOT_INODE == 0
INVALID_INODE == -1
INVALID_BLOCK == -1
Junk == -1                      \* a cell that holds something else's bytes
Dot == "."
DotDot == ".."

ASSUME FileSystemAssumption ==
    /\ NumInodes \in Nat \ {0} /\ NumBlocks \in Nat \ {0}
    /\ DirectBlocks \in Nat \ {0} /\ BlockSize \in Nat \ {0}
    /\ Slots \in Nat /\ Slots >= 2
    /\ Names \cap {Dot, DotDot} = {}
    /\ MaxDepth \in Nat /\ MaxFd \in Nat /\ MaxFd >= 2
    /\ Values \subseteq Nat /\ Sizes \subseteq Nat
    /\ RemovesOpenFiles \in BOOLEAN

VARIABLES
    inode_bitmap,        \* allocated inodes, in memory
    data_bitmap,         \* allocated blocks, in memory
    bitmap_dirty,        \* bitmap_dirty_
    saved,               \* both bitmaps as they are on the disk
    superblock,          \* the space counters
    inodes,              \* the inode table on the disk
    blocks,              \* the data blocks on the disk
    open_files,          \* FileDescriptorTable::open_files_
    next_fd              \* FileDescriptorTable::next_fd_

memory == <<inode_bitmap, data_bitmap, bitmap_dirty, superblock>>
files == <<open_files, next_fd>>
vars == <<memory, saved, inodes, blocks, files>>

Inode ==
    [type : {"NONE", "REGULAR", "DIRECTORY"}, size : Nat,
     blocks_used : 0..DirectBlocks,
     direct_blocks : [0..DirectBlocks - 1 -> Blocks \cup {INVALID_BLOCK}]]

NewInode(type) ==
    [type |-> type, size |-> 0, blocks_used |-> 0,
     direct_blocks |-> [i \in 0..DirectBlocks - 1 |-> INVALID_BLOCK]]

DirectoryEntry ==
    [name : Names \cup {Dot, DotDot}, inode_num : Inodes \cup {INVALID_INODE}]

Entry(name, inode_num) == [name |-> name, inode_num |-> inode_num]
FreeEntry == Entry(Dot, INVALID_INODE)

\* A block holds the cells of a file or the entries of a directory; read as
\* the other, it is junk.
Block ==
    [cells : [0..BlockSize - 1 -> Values \cup {Junk}],
     entries : [0..Slots - 1 -> DirectoryEntry]]

Cells(cells) ==
    [cells |-> cells, entries |-> [j \in 0..Slots - 1 |-> FreeEntry]]
Entries(entries) ==
    [cells |-> [i \in 0..BlockSize - 1 |-> Junk], entries |-> entries]

NewDirectoryBlock(first, second) ==
    Entries([j \in 0..Slots - 1 |->
               IF j = 0 THEN first ELSE IF j = 1 THEN second ELSE FreeEntry])

\* Faulty variant: one bit too many.
FreeBitBeyond(bitmap, max) == Firsts((0..max) \ bitmap)

\* find_free_bit(): the lowest clear bit, if there is one.
FreeBit(bitmap, max) == Firsts((0..max - 1) \ bitmap)

-----------------------------------------------------------------------------
(* Directories.                                                             *)

\* The places of a directory for entries, in the order they are searched.
Positions(dir) == 0..inodes[dir].blocks_used * Slots - 1

EntryAt(dir, k) ==
    blocks[inodes[dir].direct_blocks[k \div Slots]].entries[k % Slots]

Used(dir) == {k \in Positions(dir) : EntryAt(dir, k).inode_num # INVALID_INODE}

Named(dir, name) == Firsts({k \in Used(dir) : EntryAt(dir, k).name = name})

\* lookup_in_directory()
LookupIn(dir, name) ==
    IF inodes[dir].type = "DIRECTORY"
    THEN {EntryAt(dir, k).inode_num : k \in Named(dir, name)}
    ELSE {}

\* lookup_path(): the inode a path leads to, if it leads to one.
Lookup(path) ==
    LET walk[n \in 0..Len(path)] ==
          IF n = 0 THEN {ROOT_INODE}
          ELSE UNION {LookupIn(dir, path[n]) : dir \in walk[n - 1]}
    IN  walk[Len(path)]

Parent(path) == SubSeq(path, 1, Len(path) - 1)
Name(path) == path[Len(path)]

\* The writes of an inode and of a block to the disk, as operations list them.
InodeWrite(n) == <<"inode", n>>
BlockWrite(b) == <<"block", b>>

AddOrder(dir, b) == <<BlockWrite(b), InodeWrite(dir)>>

(***************************************************************************)
(* add_directory_entry(): the first free slot is taken, else a block is    *)
(* allocated; none if the directory is full or the disk is.  `used' are    *)
(* the blocks the caller has allocated, `table' and `data' the disk as it  *)
(* left it.  `taken' are the blocks allocated here, `order' the writes.    *)
(***************************************************************************)
Added(dir, entry, used, table, data) ==
    LET free == Positions(dir) \ Used(dir)
        n    == table[dir].blocks_used
        slot(k) == table[dir].direct_blocks[k \div Slots]
    IN  IF free # {}
        THEN {[inodes |-> [table EXCEPT ![dir].size = @ + 1],
               blocks |-> [data EXCEPT ![slot(k)].entries[k % Slots] = entry],
               taken  |-> {},
               order  |-> AddOrder(dir, slot(k))] : k \in Firsts(free)}
        ELSE {[inodes |-> [table EXCEPT ![dir].size = @ + 1,
                                        ![dir].blocks_used = n + 1,
                                        ![dir].direct_blocks[n] = b],
               blocks |-> [data EXCEPT ![b] = NewDirectoryBlock(entry, FreeEntry)],
               taken  |-> {b},
               order  |-> AddOrder(dir, b)] :
                 b \in {b \in FreeBit(used, NumBlocks) : n < DirectBlocks}}

-----------------------------------------------------------------------------
(* Operations on names.  A name can be added if its parent is a directory   *)
(* that does not have it yet.                                               *)

\* Faulty variant: the name may exist already.
CanAddAgain(path, parent) ==
    /\ path # <<>>
    /\ parent \in Lookup(Parent(path))
    /\ inodes[parent].type = "DIRECTORY"

CanAdd(path, parent) ==
    /\ path # <<>>
    /\ parent \in Lookup(Parent(path))
    /\ inodes[parent].type = "DIRECTORY"
    /\ LookupIn(parent, Name(path)) = {}

\* refresh_space_counters_from_bitmaps(), save_superblock(), save_bitmaps().
Counters(used_inodes, used_blocks) ==
    [free_inodes |-> NumInodes - Cardinality(used_inodes),
     free_blocks |-> NumBlocks - Cardinality(used_blocks)]

\* Faulty variant: the bitmap of the data blocks is not written.
SaveInodesOnly ==
    /\ superblock' = Counters(inode_bitmap', data_bitmap')
    /\ saved' = [saved EXCEPT !.inodes = inode_bitmap']
    /\ bitmap_dirty' = FALSE

\* Faulty variant: the bitmaps are left for the end of the session.
SaveLater ==
    /\ superblock' = Counters(inode_bitmap', data_bitmap')
    /\ bitmap_dirty' = TRUE
    /\ UNCHANGED saved

Save ==
    /\ superblock' = Counters(inode_bitmap', data_bitmap')
    /\ saved' = [inodes |-> inode_bitmap', blocks |-> data_bitmap']
    /\ bitmap_dirty' = FALSE

(***************************************************************************)
(* What an operation leaves: the bitmaps in memory, the inode table and    *)
(* the blocks, the order in which it wrote them, and whether it ends with  *)
(* saving the bitmaps.                                                     *)
(***************************************************************************)
Outcome(inode_bits, data_bits, table, data, order, saves) ==
    [inode_bitmap |-> inode_bits, data_bitmap |-> data_bits,
     inodes |-> table, blocks |-> data, order |-> order, saves |-> saves]

Complete(o) ==
    /\ inode_bitmap' = o.inode_bitmap
    /\ data_bitmap' = o.data_bitmap
    /\ inodes' = o.inodes
    /\ blocks' = o.blocks
    /\ IF o.saves THEN Save
       ELSE bitmap_dirty' = TRUE /\ UNCHANGED <<saved, superblock>>

\* Faulty variant: the entry is written before the inode it names.
FinishedEntryFirst(path, parent, new, used, table, data, order) ==
    {Outcome(inode_bitmap \cup {new}, used \cup a.taken,
             a.inodes, a.blocks, a.order \o order, TRUE) :
       a \in Added(parent, Entry(Name(path), new), used, table, data)}

\* The end of creating inode `new', with the disk as the caller left it: it
\* is added to its parent, or its bits are cleared again and nothing saved.
Finished(path, parent, new, used, table, data, order) ==
    LET added == Added(parent, Entry(Name(path), new), used, table, data)
    IN  IF added = {}
        THEN {Outcome(inode_bitmap, data_bitmap, table, data, order, FALSE)}
        ELSE {Outcome(inode_bitmap \cup {new}, used \cup a.taken,
                      a.inodes, a.blocks, order \o a.order, TRUE) : a \in added}

\* The inode that a create takes, with the directory it goes to.
Placements(path) ==
    {at \in Inodes \X FreeBit(inode_bitmap, NumInodes) : CanAdd(path, at[1])}

\* create_file()
Created(path) ==
    UNION {LET parent == at[1]
               new    == at[2]
           IN  Finished(path, parent, new, data_bitmap,
                        [inodes EXCEPT ![new] = NewInode("REGULAR")], blocks,
                        <<InodeWrite(new)>>) : at \in Placements(path)}

CreateFile(path) == (\E o \in Created(path) : Complete(o)) /\ UNCHANGED files

\* create_directory(); without a free block the inode's bit is cleared again.
MadeDirectory(path) ==
    UNION {LET parent == at[1]
               new    == at[2]
               room   == FreeBit(data_bitmap, NumBlocks)
           IN  IF room = {}
               THEN {Outcome(inode_bitmap, data_bitmap, inodes, blocks, <<>>, FALSE)}
               ELSE UNION {
                 Finished(path, parent, new, data_bitmap \cup {b},
                          [inodes EXCEPT ![new] =
                             [NewInode("DIRECTORY") EXCEPT
                                !.size = 2, !.blocks_used = 1, !.direct_blocks[0] = b]],
                          [blocks EXCEPT ![b] =
                             NewDirectoryBlock(Entry(Dot, new), Entry(DotDot, parent))],
                          <<BlockWrite(b), InodeWrite(new)>>) : b \in room} :
             at \in Placements(path)}

CreateDirectory(path) ==
    (\E o \in MadeDirectory(path) : Complete(o)) /\ UNCHANGED files

\* Faulty variant: the last block of a file stays allocated.
FreedButLast(inode) == {inode.direct_blocks[i] : i \in 0..inode.blocks_used - 2}

\* The blocks that go with a file.
Freed(inode) == {inode.direct_blocks[i] : i \in 0..inode.blocks_used - 1}

IsOpen(inode_num) == \E fd \in DOMAIN open_files : open_files[fd].inode_num = inode_num

\* Faulty variant: rm takes directories as well.
RemovableAny(file) == IsOpen(file) => RemovesOpenFiles

Removable(file) ==
    /\ inodes[file].type # "DIRECTORY"
    /\ IsOpen(file) => RemovesOpenFiles

\* remove_file(): only the entry and its directory are written, the freed
\* inode stays as it was.
Removed(path) ==
    {LET parent == at[1]
         block  == inodes[parent].direct_blocks[at[2] \div Slots]
         file   == EntryAt(parent, at[2]).inode_num
     IN  Outcome(inode_bitmap \ {file}, data_bitmap \ Freed(inodes[file]),
                 [inodes EXCEPT ![parent].size = @ - 1],
                 [blocks EXCEPT ![block].entries[at[2] % Slots] = FreeEntry],
                 AddOrder(parent, block), TRUE) :
       at \in {at \in UNION {{<<parent, k>> : k \in Named(parent, Name(path))} :
                               parent \in {n \in Lookup(Parent(path)) :
                                             inodes[n].type = "DIRECTORY"}} :
                 Removable(EntryAt(at[1], at[2]).inode_num)}}

RemoveFile(path) ==
    /\ path # <<>>
    /\ \E o \in Removed(path) : Complete(o)
    /\ UNCHANGED files

-----------------------------------------------------------------------------
(* Open files.                                                              *)

OpenFile(path) ==
    /\ next_fd <= MaxFd
    /\ \E file \in Lookup(path) :
         /\ inodes[file].type = "REGULAR"
         /\ open_files' =
              [fd \in DOMAIN open_files \cup {next_fd} |->
                 IF fd = next_fd THEN [inode_num |-> file, offset |-> 0]
                 ELSE open_files[fd]]
    /\ next_fd' = next_fd + 1
    /\ UNCHANGED <<memory, saved, inodes, blocks>>

CloseFile(fd) ==
    /\ fd \in DOMAIN open_files
    /\ open_files' = [g \in DOMAIN open_files \ {fd} |-> open_files[g]]
    /\ UNCHANGED <<next_fd, memory, saved, inodes, blocks>>

\* How far a read gets: to the end of the file, within its blocks.
ReadFile(fd, size) ==
    /\ fd \in DOMAIN open_files
    /\ LET offset == open_files[fd].offset
           inode  == inodes[open_files[fd].inode_num]
           end    == IF inode.size < inode.blocks_used * BlockSize
                     THEN inode.size ELSE inode.blocks_used * BlockSize
           rest   == IF offset < end THEN end - offset ELSE 0
       IN  open_files' = [open_files EXCEPT ![fd].offset =
                            @ + (IF size < rest THEN size ELSE rest)]
    /\ UNCHANGED <<next_fd, memory, saved, inodes, blocks>>

(***************************************************************************)
(* The loop of write_file(): `w' holds the inode, the blocks and the data  *)
(* bitmap as changed so far, the offset, the cells left to write, and the  *)
(* order of the writes.  A turn fills the rest of one block, in a new      *)
(* block if the offset is past the last; no space ends the loop.           *)
(***************************************************************************)
Ensured(w, index) ==
    IF index < w.inode.blocks_used THEN {w}
    ELSE {[w EXCEPT !.inode.direct_blocks[index] = b,
                    !.inode.blocks_used = @ + 1,
                    !.used = @ \cup {b}] :
            b \in {b \in FreeBit(w.used, NumBlocks) : index < DirectBlocks}}

\* Faulty variants: a block is not read before a part of it is written; the
\* size follows the offset down.
MergedUnread(cells, part, value) ==
    [i \in 0..BlockSize - 1 |-> IF i \in part THEN value ELSE Junk]
GrownToOffset(size, offset) == offset

Merged(cells, part, value) ==
    [i \in 0..BlockSize - 1 |-> IF i \in part THEN value ELSE cells[i]]

Grown(size, offset) == IF offset > size THEN offset ELSE size

Filled(w, value) ==
    LET within == w.offset % BlockSize
        chunk  == IF w.left < BlockSize - within THEN w.left ELSE BlockSize - within
        b      == w.inode.direct_blocks[w.offset \div BlockSize]
    IN  [w EXCEPT !.data[b] =
                     Cells(Merged(w.data[b].cells, within..within + chunk - 1, value)),
                  !.offset = @ + chunk,
                  !.left = @ - chunk,
                  !.order = Append(@, BlockWrite(b)),
                  !.inode.size = Grown(@, w.offset + chunk)]

Written(start, value) ==
    LET turn[k \in 0..DirectBlocks + 1] ==
          IF k = 0 THEN start
          ELSE LET w    == turn[k - 1]
                   room == Ensured(w, w.offset \div BlockSize)
               IN  IF w.left = 0 \/ room = {} THEN w
                   ELSE CHOOSE x \in {Filled(r, value) : r \in room} : TRUE
    IN  turn[DirectBlocks + 1]

\* The inode is written after its blocks, then the bitmaps are saved.
WrittenFile(fd, size, value) ==
    {LET file == open_files[fd].inode_num
         w    == Written([inode  |-> inodes[file], data |-> blocks,
                          used   |-> data_bitmap, order |-> <<>>,
                          offset |-> open_files[fd].offset, left |-> size], value)
     IN  [outcome |-> Outcome(inode_bitmap, w.used, [inodes EXCEPT ![file] = w.inode],
                              w.data, Append(w.order, InodeWrite(file)), TRUE),
          offset  |-> w.offset]}

WriteFile(fd, size, value) ==
    /\ fd \in DOMAIN open_files
    /\ \E w \in WrittenFile(fd, size, value) :
         /\ Complete(w.outcome)
         /\ open_files' = [open_files EXCEPT ![fd].offset = w.offset]
    /\ UNCHANGED next_fd

-----------------------------------------------------------------------------
(* The whole file system.                                                   *)

\* format() and init_root_directory() leave the root directory in block 0.
FormattedInodes ==
    [n \in Inodes |->
       IF n # ROOT_INODE THEN NewInode("NONE")
       ELSE [NewInode("DIRECTORY") EXCEPT
               !.size = 2, !.blocks_used = 1, !.direct_blocks[0] = 0]]

RootBlock == NewDirectoryBlock(Entry(Dot, ROOT_INODE), Entry(DotDot, ROOT_INODE))

\* Faulty variant: the bitmap of the data blocks is not cleared.
FormatKeepingBlocks ==
    /\ open_files # <<>> => RemovesOpenFiles
    /\ inode_bitmap' = {ROOT_INODE}
    /\ data_bitmap' = data_bitmap \cup {0}
    /\ inodes' = FormattedInodes
    /\ blocks' = [blocks EXCEPT ![0] = RootBlock]
    /\ Save
    /\ UNCHANGED files

\* format(): the descriptors stay open.
Format ==
    /\ open_files # <<>> => RemovesOpenFiles
    /\ inode_bitmap' = {ROOT_INODE}
    /\ data_bitmap' = {0}
    /\ inodes' = FormattedInodes
    /\ blocks' = [blocks EXCEPT ![0] = RootBlock]
    /\ Save
    /\ UNCHANGED files

\* mount(): the bitmaps are those of the disk.
Mount ==
    /\ inode_bitmap' = saved.inodes
    /\ data_bitmap' = saved.blocks
    /\ bitmap_dirty' = FALSE
    /\ superblock' = Counters(saved.inodes, saved.blocks)
    /\ UNCHANGED <<saved, inodes, blocks, files>>

\* Leaving the simulator saves dirty bitmaps; the next start mounts.
Restart ==
    LET disk == IF bitmap_dirty THEN [inodes |-> inode_bitmap, blocks |-> data_bitmap]
                ELSE saved
    IN  /\ saved' = disk
        /\ inode_bitmap' = disk.inodes
        /\ data_bitmap' = disk.blocks
        /\ bitmap_dirty' = FALSE
        /\ superblock' = Counters(disk.inodes, disk.blocks)
        /\ open_files' = <<>>
        /\ next_fd' = 3
        /\ UNCHANGED <<inodes, blocks>>

Init ==
    /\ inode_bitmap = {ROOT_INODE}
    /\ data_bitmap = {0}
    /\ bitmap_dirty = FALSE
    /\ saved = [inodes |-> inode_bitmap, blocks |-> data_bitmap]
    /\ superblock = Counters(inode_bitmap, data_bitmap)
    /\ inodes = FormattedInodes
    /\ blocks = [b \in Blocks |->
                   IF b = 0 THEN RootBlock ELSE Cells([i \in 0..BlockSize - 1 |-> Junk])]
    /\ open_files = <<>>
    /\ next_fd = 3

\* The commands of a session, and the calls of its programs.
Operation ==
    \/ \E path \in Paths :
         CreateFile(path) \/ CreateDirectory(path) \/ RemoveFile(path) \/ OpenFile(path)
    \/ \E fd \in Fds, size \in Sizes :
         ReadFile(fd, size) \/ \E value \in Values : WriteFile(fd, size, value)
    \/ \E fd \in Fds : CloseFile(fd)
    \/ Mount

Next == Operation \/ Format \/ Restart

Spec == Init /\ [][Next]_vars

-----------------------------------------------------------------------------
(* Properties.                                                              *)

TypeOK ==
    /\ inode_bitmap \in SUBSET Inodes /\ data_bitmap \in SUBSET Blocks
    /\ bitmap_dirty \in BOOLEAN
    /\ saved \in [inodes : SUBSET Inodes, blocks : SUBSET Blocks]
    /\ superblock \in [free_inodes : 0..NumInodes, free_blocks : 0..NumBlocks]
    /\ inodes \in [Inodes -> Inode]
    /\ blocks \in [Blocks -> Block]
    /\ next_fd \in 3..MaxFd + 1
    /\ DOMAIN open_files \subseteq 3..next_fd - 1
    /\ open_files \in [DOMAIN open_files -> [inode_num : Inodes, offset : Nat]]

\* Allocation and reclamation of blocks go through the bitmap: a bit is set
\* iff one live inode names the block, and only once.
BlocksAreAccounted ==
    /\ data_bitmap = UNION {{inodes[n].direct_blocks[i] : i \in 0..inodes[n].blocks_used - 1} :
                             n \in inode_bitmap}
    /\ \A m, n \in inode_bitmap :
         \A i \in 0..inodes[m].blocks_used - 1, j \in 0..inodes[n].blocks_used - 1 :
           inodes[m].direct_blocks[i] = inodes[n].direct_blocks[j] => m = n /\ i = j

\* The entries of the live directories other than "." and "..".
Links ==
    UNION {{<<dir, k>> : k \in {k \in Used(dir) : EntryAt(dir, k).name \in Names}} :
             dir \in {n \in inode_bitmap : inodes[n].type = "DIRECTORY"}}

\* The directories form a tree of exactly the allocated inodes: each is in
\* one directory under one name, ".." leads back, no set of inodes is cut off
\* from the root, and the size of a directory counts its entries.
DirectoriesAreATree ==
    /\ inode_bitmap = {ROOT_INODE} \cup {EntryAt(l[1], l[2]).inode_num : l \in Links}
    /\ \A l, m \in Links :
         (\/ EntryAt(l[1], l[2]).inode_num = EntryAt(m[1], m[2]).inode_num
          \/ l[1] = m[1] /\ EntryAt(l[1], l[2]).name = EntryAt(m[1], m[2]).name)
           => l = m
    /\ \A S \in SUBSET (inode_bitmap \ {ROOT_INODE}) :
         S # {} => \E l \in Links : l[1] \notin S /\ EntryAt(l[1], l[2]).inode_num \in S
    /\ \A l \in Links :
         LET child == EntryAt(l[1], l[2]).inode_num
         IN  /\ child # ROOT_INODE
             /\ inodes[child].type = "DIRECTORY" =>
                  LookupIn(child, DotDot) = {l[1]} /\ LookupIn(child, Dot) = {child}
    /\ \A n \in inode_bitmap : inodes[n].type = "DIRECTORY" =>
         inodes[n].size = Cardinality(Used(n))

\* Between operations the disk has the bitmaps that memory has, failed
\* operations included, and the counters agree: a restart restores the state.
NothingIsUnsaved ==
    /\ saved = [inodes |-> inode_bitmap, blocks |-> data_bitmap]
    /\ superblock = Counters(inode_bitmap, data_bitmap)

\* A descriptor names a live regular file and is not past its end: a write
\* through it leaves no hole.
OpenFilesAreLive ==
    \A fd \in DOMAIN open_files :
        LET n == open_files[fd].inode_num
        IN  /\ n \in inode_bitmap
            /\ inodes[n].type = "REGULAR"
            /\ open_files[fd].offset <= inodes[n].size

Contents(inode) ==
    [i \in 1..inode.size |->
        blocks[inode.direct_blocks[(i - 1) \div BlockSize]].cells[(i - 1) % BlockSize]]

Store == INSTANCE FileStore WITH
           Files <- Inodes, Root <- ROOT_INODE,
           names <- [path \in {p \in Paths : Lookup(p) # {}} |->
                       CHOOSE n \in Lookup(path) : TRUE],
           data  <- [n \in {m \in inode_bitmap : inodes[m].type = "REGULAR"} |->
                       Contents(inodes[n])],
           open  <- [fd \in DOMAIN open_files |->
                       [file   |-> open_files[fd].inode_num,
                        offset |-> open_files[fd].offset]]

\* Seen through paths and descriptors, this is a tree of files: whatever
\* operations and restarts come between, a file reads as it was written.
ImplementsFileStore == Store!Spec
=============================================================================
