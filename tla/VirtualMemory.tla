--------------------------- MODULE VirtualMemory ---------------------------
(***************************************************************************)
(* What the memory manager promises a process: an address space of its own *)
(* whose pages start as zeroes and change only when the process writes     *)
(* them.  Frames, page tables, swap and replacement are invisible.         *)
(***************************************************************************)
CONSTANTS Pids, Pages, Values, Zero      \* Zero is a member of Values

VARIABLE memory      \* live pids to the contents of their pages

Create(pid) ==
    /\ pid \notin DOMAIN memory
    /\ memory' = [p \in DOMAIN memory \cup {pid} |->
                    IF p = pid THEN [g \in Pages |-> Zero] ELSE memory[p]]

Free(pid) ==
    /\ pid \in DOMAIN memory
    /\ memory' = [p \in DOMAIN memory \ {pid} |-> memory[p]]

Write(pid, page, value) ==
    /\ pid \in DOMAIN memory
    /\ memory' = [memory EXCEPT ![pid][page] = value]

Init == memory = [p \in {} |-> Zero]

Next ==
    \E pid \in Pids :
        \/ Create(pid)
        \/ Free(pid)
        \/ \E page \in Pages, value \in Values : Write(pid, page, value)

Spec == Init /\ [][Next]_memory
=============================================================================
