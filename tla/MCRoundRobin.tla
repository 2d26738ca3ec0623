--------------------------- MODULE MCRoundRobin ----------------------------
(***************************************************************************)
(* MCProcessManager with a history variable that counts turns, to state    *)
(* what round robin means (README.md:14, "Round-Robin"): a Ready process   *)
(* waits for at most one turn of every other process.                      *)
(***************************************************************************)
EXTENDS MCProcessManager

VARIABLES
    turns,       \* turns[q][p]: turns p began since q became Ready, up to 2
    steered      \* processes that were run, blocked or woken by hand

rrVars == <<mcVars, turns, steered>>

\* The process to which a tick gives the processor.
Beginner == IF cur_pid # NoPid THEN {} ELSE {d.pid : d \in Dispatched}

StaysReady(q) ==
    /\ q \in Live /\ processes[q].state = "Ready"
    /\ q \in DOMAIN processes' /\ processes'[q].state = "Ready"

Counts(begun) ==
    turns' = [q \in Pids |-> [p \in Pids |->
                IF ~StaysReady(q) \/ q \in begun THEN 0
                ELSE IF p \in begun /\ turns[q][p] < 2 THEN turns[q][p] + 1
                ELSE turns[q][p]]]

RRInit ==
    /\ MCInit
    /\ turns = [q \in Pids |-> [p \in Pids |-> 0]]
    /\ steered = {}

\* Being run by hand is no turn; being dispatched by a block is one.
RRSteer ==
    /\ steers < MaxSteers
    /\ steers' = steers + 1
    /\ \E p \in Pids :
         /\ steered' = steered \cup {p}
         /\ \/ (Run(p) \/ Wakeup(p)) /\ Counts({})
            \/ (\E duration \in Durations : Block(p, duration))
               /\ Counts({cur_pid'} \ {cur_pid})

RRTick == MCTick /\ Counts(Beginner) /\ UNCHANGED steered

RRNext ==
    \/ RRTick
    \/ (\E size \in Lengths : Create(size)) /\ Counts({}) /\ UNCHANGED <<steers, steered>>
    \/ (\E p \in Pids : Kill(p)) /\ Counts({}) /\ UNCHANGED <<steers, steered>>
    \/ RRSteer

RRSpec == RRInit /\ [][RRNext]_rrVars

\* The fairness of MCFairSpec: the user keeps typing `tick'.
RRFairSpec == RRSpec /\ WF_rrVars(RRTick)

\* While a process stays Ready, no process that the user left alone begins
\* a second turn, whatever the user does to others.
OneTurnUnlessSteered ==
    \A q \in Pids, p \in Pids \ steered : turns[q][p] <= 1
=============================================================================
