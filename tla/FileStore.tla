----------------------------- MODULE FileStore -----------------------------
(***************************************************************************)
(* What the file system promises its users: a tree of names for files,     *)
(* regular files that are sequences of values, and descriptors with an     *)
(* offset.  Blocks, bitmaps and directory slots are invisible; an          *)
(* operation that lacks space is refused, or writes less than asked.       *)
(***************************************************************************)
EXTENDS Naturals, Sequences

CONSTANTS Files, Values, Sizes, Root    \* Root is in Files

VARIABLES
    names,       \* existing paths to the files they name
    data,        \* regular files to their contents
    open         \* descriptors to the file and the offset

store == <<names, data, open>>

Parent(path) == SubSeq(path, 1, Len(path) - 1)

With(f, x, y) == [z \in DOMAIN f \cup {x} |-> IF z = x THEN y ELSE f[z]]
Except(f, x) == [z \in DOMAIN f \ {x} |-> f[z]]

\* A new name for a new file in an existing directory.
Name(path, file) ==
    /\ path \notin DOMAIN names
    /\ Parent(path) \in DOMAIN names
    /\ names[Parent(path)] \notin DOMAIN data
    /\ \A other \in DOMAIN names : names[other] # file
    /\ names' = With(names, path, file)

MakeFile(path, file) == data' = With(data, file, <<>>) /\ Name(path, file)

MakeDirectory(path, file) == UNCHANGED data /\ Name(path, file)

Remove(path) ==
    /\ path \in DOMAIN names
    /\ names[path] \in DOMAIN data
    /\ \A fd \in DOMAIN open : open[fd].file # names[path]
    /\ data' = Except(data, names[path])
    /\ names' = Except(names, path)

\* One change to the names in use.
Rename ==
    \/ \E path \in DOMAIN names \ DOMAIN names' : Remove(path)
    \/ \E path \in DOMAIN names' \ DOMAIN names, file \in Files :
         MakeFile(path, file) \/ MakeDirectory(path, file)

Open(path, fd) ==
    /\ fd \notin DOMAIN open
    /\ path \in DOMAIN names
    /\ names[path] \in DOMAIN data
    /\ open' = With(open, fd, [file |-> names[path], offset |-> 0])
    /\ UNCHANGED <<names, data>>

Close(fd) ==
    /\ fd \in DOMAIN open
    /\ open' = Except(open, fd)
    /\ UNCHANGED <<names, data>>

\* A read stops at the end of the file.
Read(fd, size) ==
    /\ fd \in DOMAIN open
    /\ LET rest == Len(data[open[fd].file]) - open[fd].offset
       IN  open' = [open EXCEPT ![fd].offset = @ + (IF size < rest THEN size ELSE rest)]
    /\ UNCHANGED <<names, data>>

\* A write puts `size' values, or fewer, at the offset.
Written(old, offset, count, value) ==
    [i \in 1..(IF Len(old) > offset + count THEN Len(old) ELSE offset + count) |->
        IF i \in offset + 1..offset + count THEN value ELSE old[i]]

Overwrite(fd, count, value) ==
    /\ data' = [data EXCEPT ![open[fd].file] =
                  Written(@, open[fd].offset, count, value)]
    /\ UNCHANGED names

Write(fd, size, value) ==
    /\ fd \in DOMAIN open
    /\ \E count \in 0..size :
         /\ open' = [open EXCEPT ![fd].offset = @ + count]
         /\ Overwrite(fd, count, value)

Format ==
    /\ DOMAIN open = {}
    /\ data' = [file \in {} |-> <<>>]
    /\ names' = [path \in {<<>>} |-> Root]
    /\ UNCHANGED open

\* The files survive a restart, the descriptors do not.
Restart ==
    /\ open' = [fd \in {} |-> 0]
    /\ UNCHANGED <<names, data>>

\* A restart out of an operation: it took place, or a part of the write, or
\* nothing.
Crash ==
    /\ open' = [fd \in {} |-> 0]
    /\ \/ UNCHANGED <<names, data>>
       \/ Rename
       \/ \E fd \in DOMAIN open, size \in Sizes, value \in Values :
            \E count \in 0..size : Overwrite(fd, count, value)

Init ==
    /\ names = [path \in {<<>>} |-> Root]
    /\ data = [file \in {} |-> <<>>]
    /\ open = [fd \in {} |-> 0]

Next ==
    \/ UNCHANGED store                   \* an operation that is refused
    \/ Restart
    \/ \E fd \in DOMAIN open :
         \/ Close(fd)
         \/ \E size \in Sizes :
              \/ Read(fd, size)
              \/ \E value \in Values : Write(fd, size, value)
    \/ Format
    \/ \E fd \in DOMAIN open' \ DOMAIN open, path \in DOMAIN names : Open(path, fd)
    \/ Rename /\ UNCHANGED open

Spec == Init /\ [][Next]_store
=============================================================================
