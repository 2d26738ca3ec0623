-------------------------- MODULE WorkingDirectory --------------------------
(***************************************************************************)
(* The current directory (FileSystem::current_dir_), the cd command, and   *)
(* how normalize_path() turns what the user types into a path from the     *)
(* root.  The path is worked out on the names alone; the directories on    *)
(* the disk have entries "." and ".." of their own.                        *)
(***************************************************************************)
EXTENDS FileSystem

CONSTANT ArgLength       \* bound: names in a path as it is typed

VARIABLE current_dir     \* current_dir_, as the names from the root

cwdVars == <<vars, current_dir>>

\* A path as it is typed: from the root or not, with "." and "..".
Args ==
    [absolute : BOOLEAN,
     parts : UNION {[1..n -> Names \cup {Dot, DotDot}] : n \in 0..ArgLength}]

\* Faulty variant: ".." does not leave a directory of the root.
StepOutButOne(stack) == IF Len(stack) > 1 THEN Parent(stack) ELSE stack

\* What ".." does to the names so far; above the root is the root.
StepOut(stack) == Parent(stack)

\* normalize_path()
Normalize(arg) ==
    LET stack[n \in 0..Len(arg.parts)] ==
          IF n = 0 THEN IF arg.absolute THEN <<>> ELSE current_dir
          ELSE CASE arg.parts[n] = Dot    -> stack[n - 1]
                 [] arg.parts[n] = DotDot -> StepOut(stack[n - 1])
                 [] OTHER                 -> Append(stack[n - 1], arg.parts[n])
    IN  stack[Len(arg.parts)]

IsDirectory(path) == \E n \in Lookup(path) : inodes[n].type = "DIRECTORY"

\* change_directory()
ChangeDirectory(arg) ==
    /\ Len(Normalize(arg)) <= MaxDepth
    /\ IsDirectory(Normalize(arg))
    /\ current_dir' = Normalize(arg)
    /\ UNCHANGED vars

\* format() keeps the current directory; with RemovesOpenFiles also one
\* that it formats away.
FormatHere ==
    /\ current_dir # <<>> => RemovesOpenFiles
    /\ Format
    /\ UNCHANGED current_dir

Leave == Restart /\ current_dir' = <<>>

SessionInit == Init /\ current_dir = <<>>

Session ==
    \/ Operation /\ UNCHANGED current_dir
    \/ FormatHere
    \/ Leave
    \/ \E arg \in Args : ChangeDirectory(arg)

SessionSpec == SessionInit /\ [][Session]_cwdVars

-----------------------------------------------------------------------------
(* Properties.                                                              *)

\* The current directory always exists and is a directory: nothing that a
\* session does takes it away (format apart, which keeps the string).
CurrentDirectoryIsLive == IsDirectory(current_dir)

\* Where the entries on the disk lead, "." and ".." included, if they do.
Followed(arg) ==
    LET walk[n \in 0..Len(arg.parts)] ==
          IF n = 0 THEN IF arg.absolute THEN {ROOT_INODE} ELSE Lookup(current_dir)
          ELSE UNION {LookupIn(dir, arg.parts[n]) : dir \in walk[n - 1]}
    IN  walk[Len(arg.parts)]

\* normalize_path() may work on names alone: whenever the entries on the
\* disk lead somewhere, the normalized path leads to the same inode.
NormalizedPathsAgree ==
    \A arg \in Args :
        Followed(arg) # {} => Lookup(Normalize(arg)) = Followed(arg)
=============================================================================
