------------------------- MODULE CrashingFileSystem -------------------------
(***************************************************************************)
(* The file system when the simulator dies, or the disk fails, between two *)
(* of the writes of an operation.  The disk keeps the writes made so far,  *)
(* memory is lost, and the next start mounts what is there.  A disk that   *)
(* fails takes no write from then on, since the stream keeps its error,    *)
(* and every command is refused until a restart: this is the same.         *)
(*                                                                         *)
(* After such a restart the bitmaps need not fit the inodes.  The code has *)
(* no check of the disk; the model goes on with format, mount and          *)
(* restart, and leaves open what other operations do to such a disk.       *)
(***************************************************************************)
EXTENDS WorkingDirectory

VARIABLES
    crashed,         \* "no", or what a crash broke off since the last format
    doubtful         \* inodes and blocks whose bits it was about to change

crashVars == <<cwdVars, crashed, doubtful>>

None == [inodes |-> {}, blocks |-> {}]

InodeBits == <<"inode bitmap">>
DataBits == <<"data bitmap">>

\* save_bitmaps().  The space counters in the superblock, written before,
\* are corrected by the next mount.
SaveOrder == <<InodeBits, DataBits>>

\* mount() at the start.
Remounted ==
    /\ inode_bitmap' = saved'.inodes
    /\ data_bitmap' = saved'.blocks
    /\ bitmap_dirty' = FALSE
    /\ superblock' = Counters(saved'.inodes, saved'.blocks)
    /\ open_files' = <<>>
    /\ next_fd' = 3
    /\ current_dir' = <<>>

Differing(S, T) == (S \ T) \cup (T \ S)

\* The operation that ends with outcome o is broken off after k writes.
BrokenOff(o, k) ==
    LET order == o.order \o (IF o.saves THEN SaveOrder ELSE <<>>)
        Made(write) == \E i \in 1..k : order[i] = write
    IN  /\ k <= Len(order)
        /\ inodes' = [n \in Inodes |-> IF Made(InodeWrite(n)) THEN o.inodes[n] ELSE inodes[n]]
        /\ blocks' = [b \in Blocks |-> IF Made(BlockWrite(b)) THEN o.blocks[b] ELSE blocks[b]]
        /\ saved' = [inodes |-> IF Made(InodeBits) THEN o.inode_bitmap ELSE saved.inodes,
                     blocks |-> IF Made(DataBits) THEN o.data_bitmap ELSE saved.blocks]
        /\ doubtful' = [inodes |-> Differing(inode_bitmap, o.inode_bitmap),
                        blocks |-> Differing(data_bitmap, o.data_bitmap)]
        /\ crashed' = "operation"

\* No operation writes more often than this.
MaxWrites == DirectBlocks + 6

Outcomes ==
    (UNION {Created(path) \cup MadeDirectory(path) \cup Removed(path) : path \in Paths \ {<<>>}})
    \cup (UNION {{w.outcome : w \in WrittenFile(fd, size, value)} :
                   fd \in DOMAIN open_files, size \in Sizes, value \in Values})

CrashInOperation ==
    /\ \E o \in Outcomes, k \in 0..MaxWrites : BrokenOff(o, k)
    /\ Remounted

\* format() clears both bitmaps, then the inode table in ascending order,
\* then writes inode and block of the root directory, then the bitmaps.
CrashInFormat(k) ==
    LET table == NumInodes + 2
    IN  /\ saved' = [inodes |-> IF k < 1 THEN saved.inodes
                                ELSE IF k < table + 3 THEN {} ELSE {ROOT_INODE},
                     blocks |-> IF k < 2 THEN saved.blocks
                                ELSE IF k < table + 4 THEN {} ELSE {0}]
        /\ inodes' = [n \in Inodes |->
                        IF n = ROOT_INODE /\ k > table THEN FormattedInodes[n]
                        ELSE IF k > n + 2 THEN NewInode("NONE") ELSE inodes[n]]
        /\ blocks' = IF k > table + 1 THEN [blocks EXCEPT ![0] = RootBlock] ELSE blocks
        /\ doubtful' = [inodes |-> Inodes, blocks |-> Blocks]
        /\ crashed' = "format"
        /\ Remounted

Crash ==
    \/ crashed = "no" /\ CrashInOperation
    \/ \E k \in 0..NumInodes + 6 : CrashInFormat(k)

CrashInit == SessionInit /\ crashed = "no" /\ doubtful = None

Recover == FormatHere /\ crashed' = "no" /\ doubtful' = None

CrashNext ==
    \/ crashed = "no" /\ Session /\ UNCHANGED <<crashed, doubtful>>
    \/ crashed # "no" /\ ((Mount /\ UNCHANGED current_dir) \/ Leave)
                      /\ UNCHANGED <<crashed, doubtful>>
    \/ Recover
    \/ Crash

CrashSpec == CrashInit /\ [][CrashNext]_crashVars

-----------------------------------------------------------------------------
(* Properties.                                                              *)

\* The current directory always is one, except after half a format, which
\* mount() accepts although there is no root directory.
DirectoryUnlessFormatting == crashed # "format" => CurrentDirectoryIsLive

\* "formats automatically if it finds no file system to mount"
\* (README.md:47): whatever a session starts on, there is a root directory.
SessionsHaveRoot == IsDirectory(<<>>)

\* The files that paths lead to.
Reachable == UNION {Lookup(path) : path \in Paths}

BlocksOf(n) == {inodes[n].direct_blocks[i] : i \in 0..inodes[n].blocks_used - 1}

\* After a crash the saved bitmaps are right about every inode and block
\* but those of the operation that was broken off: no other file is lost to
\* a later allocation, nothing else has leaked.
OnlyInterruptedIsInDoubt ==
    /\ Differing(inode_bitmap, Reachable) \subseteq doubtful.inodes
    /\ Differing(data_bitmap, UNION {BlocksOf(n) : n \in Reachable}) \subseteq doubtful.blocks

\* A format makes a sound disk of whatever a crash has left.
FormatRepairs ==
    crashed = "no" => BlocksAreAccounted /\ DirectoriesAreATree /\ NothingIsUnsaved

Seen == INSTANCE FileStore WITH
          Files <- Inodes, Root <- ROOT_INODE,
          names <- [path \in {p \in Paths : Lookup(p) # {}} |->
                      CHOOSE n \in Lookup(path) : TRUE],
          data  <- [n \in {m \in Reachable : inodes[m].type = "REGULAR"} |->
                      Contents(inodes[n])],
          open  <- [fd \in DOMAIN open_files |->
                      [file   |-> open_files[fd].inode_num,
                       offset |-> open_files[fd].offset]]

\* For the user a crash is atomic: the mounted file system shows what it
\* showed before the operation, or after it, or a part of a write.
CrashesAreAtomic ==
    [][crashed' # "format" => Seen!Next \/ Seen!Crash]_crashVars
=============================================================================
