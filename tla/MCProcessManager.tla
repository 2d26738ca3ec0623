------------------------- MODULE MCProcessManager --------------------------
(***************************************************************************)
(* ProcessManager for TLC.  Run, Block and Wakeup are counted and stop at  *)
(* MaxSteers: the processes are then left to the ticks, which is what the  *)
(* liveness properties need and what keeps the ready queue finite.         *)
(***************************************************************************)
EXTENDS ProcessManager

CONSTANT MaxSteers         \* bound: number of Run, Block and Wakeup commands

VARIABLE steers

mcVars == <<processes, ready_queue, cur_pid, next_pid, disk, steers>>

MCInit == Init /\ steers = 0

MCTick == Tick /\ UNCHANGED steers

MCNext ==
    \/ MCTick
    \/ (\E size \in Lengths : Create(size)) /\ UNCHANGED steers
    \/ (\E p \in Pids : Kill(p)) /\ UNCHANGED steers
    \/ steers < MaxSteers /\ Steer /\ steers' = steers + 1

MCSpec == MCInit /\ [][MCNext]_mcVars

\* The user keeps typing `tick': nothing else drives the simulator, and the
\* command loop accepts it in every state.
MCFairSpec == MCSpec /\ WF_mcVars(MCTick)
=============================================================================
