------------------------------ MODULE MCKernel ------------------------------
(***************************************************************************)
(* Kernel for TLC, with as many other commands as MaxSteers says.          *)
(***************************************************************************)
EXTENDS Kernel

CONSTANT MaxSteers         \* bound: number of commands but create and kill

VARIABLE steers

MCInit == KernelInit /\ steers = 0

MCNext ==
    \/ KernelTick /\ UNCHANGED steers
    \/ (\E size \in Lengths : KernelCreate(size)) /\ UNCHANGED steers
    \/ (\E p \in Pids : KernelKill(p)) /\ UNCHANGED steers
    \/ steers < MaxSteers /\ Command /\ steers' = steers + 1

MCSpec == MCInit /\ [][MCNext]_<<kernelVars, steers>>
=============================================================================
