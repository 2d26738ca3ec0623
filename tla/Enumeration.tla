---------------------------- MODULE Enumeration ----------------------------
(***************************************************************************)
(* First and ascending choices from finite sets of numbers: how the loops  *)
(* of the code over positions, pids and pages visit them.                  *)
(***************************************************************************)
EXTENDS Integers, Sequences, FiniteSets

\* The least members of S: at most one.
Firsts(S) == {i \in S : \A j \in S : i <= j}

\* The ascending enumerations of a finite set of numbers: exactly one.
Ascending(S) ==
    {w \in [1..Cardinality(S) -> S] :
        \A i, j \in DOMAIN w : i < j => w[i] < w[j]}
=============================================================================
