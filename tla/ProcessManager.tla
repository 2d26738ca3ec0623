--------------------------- MODULE ProcessManager ---------------------------
(***************************************************************************)
(* The scheduler of Tinix (src/proc/process_manager.cpp): process table,   *)
(* round-robin ready queue, current process, sleeping and waiting for the  *)
(* disk.  Every shell command and every tick is one action: the simulator  *)
(* is single threaded and runs each to its end.                            *)
(*                                                                         *)
(* What the instructions of a program are is data: a process is created    *)
(* with a length and every tick picks the instruction it executes.  The    *)
(* memory and file instructions do not touch the scheduler's state and     *)
(* count here as Compute.                                                  *)
(***************************************************************************)
EXTENDS DeviceManager

CONSTANTS
    MaxPid,          \* bound: pids handed out before creation stops
    TimeSlice,       \* config::DEFAULT_TIME_SLICE
    Lengths,         \* sizes of the programs that are created
    Durations,       \* arguments of S and block, as the int they become
    DevIds           \* device ids that programs name

Disk == 0            \* kDiskDeviceId, the only registered device
NoDevice == -1       \* UINT32_MAX in the code
Pids == 1..MaxPid

ASSUME ProcessManagerAssumption ==
    /\ MaxPid \in Nat
    /\ TimeSlice \in Nat \ {0}
    /\ Lengths \subseteq Nat
    /\ Durations \subseteq Int
    /\ DevIds \subseteq Nat

VARIABLES
    processes,       \* processes_: live pids to their PCBs
    ready_queue,     \* ready_queue_: pids, some of them stale
    cur_pid,         \* cur_pid_
    next_pid,        \* next_pid_
    disk             \* the device record of the disk

vars == <<processes, ready_queue, cur_pid, next_pid, disk>>

\* A PCB; `left' is the number of instructions not yet executed,
\* program->size() - pc.
PCB == [state           : {"Ready", "Running", "Blocked"},
        time_slice_left : 1..TimeSlice,
        left            : Nat,
        blocked_time    : Int,
        blocked_reason  : {"None", "Sleep", "Device"},
        waiting_device  : DevIds \cup {NoDevice}]

NewPCB(size) ==
    [state |-> "Ready", time_slice_left |-> TimeSlice, left |-> size,
     blocked_time |-> 0, blocked_reason |-> "None",
     waiting_device |-> NoDevice]

Live == DOMAIN processes

-----------------------------------------------------------------------------
(* State changes of a PCB, and the steps that several operations share.     *)
(* They take the process table and the queues as arguments: a tick applies  *)
(* several of them in a row.                                                *)

PutToSleep(pcb, duration) ==
    [pcb EXCEPT !.state = "Blocked", !.blocked_time = duration,
                !.blocked_reason = "Sleep", !.waiting_device = NoDevice]

PutOnWait(pcb, dev) ==
    [pcb EXCEPT !.state = "Blocked", !.blocked_time = 0,
                !.blocked_reason = "Device", !.waiting_device = dev]

\* Faulty variants: the slice is not refilled; the state stays Running.
RequeuedWithoutSlice(pcb) == [pcb EXCEPT !.state = "Ready"]
RequeuedRunning(pcb) == [pcb EXCEPT !.time_slice_left = TimeSlice]

Requeued(pcb) ==
    [pcb EXCEPT !.state = "Ready", !.time_slice_left = TimeSlice]

Roused(pcb) ==
    [pcb EXCEPT !.state = "Ready", !.blocked_time = 0,
                !.blocked_reason = "None", !.waiting_device = NoDevice]

\* The waiters that a hand-over may choose.
WaitsForDisk(pcb) ==
    /\ pcb.state = "Blocked"
    /\ pcb.blocked_reason = "Device"
    /\ pcb.waiting_device = Disk

Waiting(procs) == {p \in DOMAIN procs : WaitsForDisk(procs[p])}

\* Faulty variant: the entry of the dispatched process is not popped.
ScheduledUnpopped(procs, queue) ==
    LET runnable == {i \in DOMAIN queue : /\ queue[i] \in DOMAIN procs
                                          /\ procs[queue[i]].state = "Ready"}
    IN  IF runnable = {}
        THEN {[pid |-> NoPid, procs |-> procs, queue |-> <<>>]}
        ELSE {[pid   |-> queue[i],
               procs |-> [procs EXCEPT ![queue[i]].state = "Running"],
               queue |-> SubSeq(queue, i, Len(queue))] :
                 i \in Firsts(runnable)}

\* schedule(): the first queued process that is alive and Ready runs; what
\* was queued before it, stale or not Ready, is dropped for good.
Scheduled(procs, queue) ==
    LET runnable == {i \in DOMAIN queue : /\ queue[i] \in DOMAIN procs
                                          /\ procs[queue[i]].state = "Ready"}
    IN  IF runnable = {}
        THEN {[pid |-> NoPid, procs |-> procs, queue |-> <<>>]}
        ELSE {[pid   |-> queue[i],
               procs |-> [procs EXCEPT ![queue[i]].state = "Running"],
               queue |-> SubSeq(queue, i + 1, Len(queue))] :
                 i \in Firsts(runnable)}

\* wakeup_device_waiter(): the new owner, if there is one, becomes Ready.
RouseHeir(procs, heir) ==
    IF heir = NoPid THEN procs ELSE [procs EXCEPT ![heir] = Roused(@)]

\* Faulty variant: the new owner is made Ready but not queued.
PushNoHeir(queue, heir) == queue

PushHeir(queue, heir) ==
    IF heir = NoPid THEN queue ELSE Append(queue, heir)

\* The end of p: its claims on the device are dropped, a waiter may inherit
\* the device, its table entry goes.  Its ready queue entries stay.
Reaped(procs, queue, dev, p) ==
    {LET heir == IF dev.owner_pid = p THEN d.owner_pid ELSE NoPid
     IN  [procs |-> Restrict(RouseHeir(procs, heir), DOMAIN procs \ {p}),
          queue |-> PushHeir(queue, heir),
          disk  |-> d] :
       d \in ReleasedAll(dev, p, Waiting(procs) \ {p})}

\* check_blocked_processes(): sleepers count down; those that reach zero
\* are queued in pid order.  A time that is not positive never counts down.
\* The faulty variant stops one tick short.
CountingToOne(pcb) ==
    /\ pcb.state = "Blocked"
    /\ pcb.blocked_reason = "Sleep"
    /\ pcb.blocked_time > 1

Counting(pcb) ==
    /\ pcb.state = "Blocked"
    /\ pcb.blocked_reason = "Sleep"
    /\ pcb.blocked_time > 0

Counted(pcb) ==
    IF ~Counting(pcb) THEN pcb
    ELSE IF pcb.blocked_time > 1 THEN [pcb EXCEPT !.blocked_time = @ - 1]
    ELSE [pcb EXCEPT !.blocked_time = 0, !.state = "Ready",
                     !.blocked_reason = "None"]

CheckBlocked(procs, queue) ==
    /\ processes' = [p \in DOMAIN procs |-> Counted(procs[p])]
    /\ \E woken \in Ascending({p \in DOMAIN procs :
                                 /\ Counting(procs[p])
                                 /\ procs[p].blocked_time = 1}) :
         ready_queue' = queue \o woken

-----------------------------------------------------------------------------
(* tick().  It dispatches a process if none is current, executes one of its *)
(* instructions, accounts for it and lets the sleepers count down.          *)

\* The process this tick works for, and the table and ready queue after it
\* was dispatched.
Dispatched ==
    IF cur_pid # NoPid
    THEN {[pid |-> cur_pid, procs |-> processes, queue |-> ready_queue]}
    ELSE Scheduled(processes, ready_queue)

\* Accounting after the instruction of p, in the order of the code: a
\* finished program goes, else an exhausted slice requeues p whatever its
\* instruction did to its state, else a blocked p gives up the processor.
Account(p, procs, queue, dev) ==
    LET pcb  == procs[p]
        ran  == [pcb EXCEPT !.left = IF @ > 0 THEN @ - 1 ELSE 0,
                            !.time_slice_left = @ - 1]
    IN  /\ next_pid' = next_pid
        /\ \/ /\ ran.left = 0
              /\ \E r \in Reaped(procs, queue, dev, p) :
                   /\ CheckBlocked(r.procs, r.queue)
                   /\ disk' = r.disk
              /\ cur_pid' = NoPid
           \/ /\ ran.left > 0
              /\ ran.time_slice_left <= 0
              /\ CheckBlocked([procs EXCEPT ![p] = Requeued(ran)], Append(queue, p))
              /\ disk' = dev
              /\ cur_pid' = NoPid
           \/ /\ ran.left > 0
              /\ ran.time_slice_left > 0
              /\ CheckBlocked([procs EXCEPT ![p] = ran], queue)
              /\ disk' = dev
              /\ cur_pid' = IF ran.state = "Blocked" THEN NoPid ELSE p

IdleTick ==
    \E d \in Dispatched :
        /\ d.pid = NoPid
        /\ CheckBlocked(d.procs, d.queue)
        /\ UNCHANGED <<cur_pid, next_pid, disk>>

\* C, MR, MW, FO, FC, FR, FW, and the tick of a program without instructions.
ComputeTick ==
    \E d \in Dispatched :
        /\ d.pid # NoPid
        /\ Account(d.pid, d.procs, d.queue, disk)

SleepTick ==
    \E d \in Dispatched, duration \in Durations :
        /\ d.pid # NoPid
        /\ d.procs[d.pid].left > 0
        /\ Account(d.pid, [d.procs EXCEPT ![d.pid] = PutToSleep(@, duration)],
                   d.queue, disk)

\* DR: the caller blocks unless request() returned true, which it never
\* does for a device that is not registered.
DevRequestTick ==
    \E d \in Dispatched, dev \in DevIds :
        /\ d.pid # NoPid
        /\ d.procs[d.pid].left > 0
        /\ Account(d.pid,
                   IF dev = Disk /\ Grants(disk, d.pid)
                   THEN d.procs
                   ELSE [d.procs EXCEPT ![d.pid] = PutOnWait(@, dev)],
                   d.queue,
                   IF dev = Disk THEN Requested(disk, d.pid) ELSE disk)

\* DD by the owner of the disk; by anyone else, or for another device, it
\* is refused and changes nothing.
DevReleaseTick ==
    \E d \in Dispatched :
        /\ d.pid # NoPid
        /\ d.procs[d.pid].left > 0
        /\ IF disk.owner_pid = d.pid
           THEN \E after \in HandedOver(disk.wait_queue, Waiting(d.procs)) :
                  Account(d.pid, RouseHeir(d.procs, after.owner_pid),
                          PushHeir(d.queue, after.owner_pid), after)
           ELSE Account(d.pid, d.procs, d.queue, disk)

Tick == IdleTick \/ ComputeTick \/ SleepTick \/ DevRequestTick \/ DevReleaseTick

-----------------------------------------------------------------------------
(* The commands of the shell.                                               *)

\* create_process_with_program()
Create(size) ==
    /\ next_pid <= MaxPid
    /\ processes' = [p \in Live \cup {next_pid} |->
                       IF p = next_pid THEN NewPCB(size) ELSE processes[p]]
    /\ ready_queue' = Append(ready_queue, next_pid)
    /\ next_pid' = next_pid + 1
    /\ UNCHANGED <<cur_pid, disk>>

\* terminate_process(): a killed current process leaves the processor idle
\* until the next tick.
Kill(p) ==
    /\ p \in Live
    /\ \E r \in Reaped(processes, ready_queue, disk, p) :
         /\ processes' = r.procs
         /\ ready_queue' = r.queue
         /\ disk' = r.disk
    /\ cur_pid' = IF p = cur_pid THEN NoPid ELSE cur_pid
    /\ UNCHANGED next_pid

\* run_process(): p preempts the current process.  The ready queue entry of
\* p stays behind.
Run(p) ==
    /\ p \in Live
    /\ processes[p].state = "Ready"
    /\ processes' = [q \in Live |->
         CASE q = p -> [processes[q] EXCEPT !.state = "Running"]
           [] q = cur_pid /\ q # p -> [processes[q] EXCEPT !.state = "Ready"]
           [] OTHER -> processes[q]]
    /\ ready_queue' = IF cur_pid = NoPid THEN ready_queue
                      ELSE Append(ready_queue, cur_pid)
    /\ cur_pid' = p
    /\ UNCHANGED <<next_pid, disk>>

\* block_process(): blocking the current process dispatches another one.
Block(p, duration) ==
    /\ p \in Live
    /\ processes[p].state \in {"Running", "Ready"}
    /\ LET procs == [processes EXCEPT ![p] = PutToSleep(@, duration)]
       IN  IF p = cur_pid
           THEN \E d \in Scheduled(procs, ready_queue) :
                  /\ processes' = d.procs
                  /\ ready_queue' = d.queue
                  /\ cur_pid' = d.pid
           ELSE /\ processes' = procs
                /\ UNCHANGED <<ready_queue, cur_pid>>
    /\ UNCHANGED <<next_pid, disk>>

\* wakeup_process(): also ends a wait for the device.
Wakeup(p) ==
    /\ p \in Live
    /\ processes[p].state = "Blocked"
    /\ processes' = [processes EXCEPT ![p] = Roused(@)]
    /\ disk' \in Cancelled(disk, p)
    /\ ready_queue' = Append(ready_queue, p)
    /\ UNCHANGED <<cur_pid, next_pid>>

Init ==
    /\ processes = <<>>
    /\ ready_queue = <<>>
    /\ cur_pid = NoPid
    /\ next_pid = 1
    /\ disk = FreeDevice

\* The commands that change the course of existing processes.
Steer ==
    \E p \in Pids :
        \/ Run(p)
        \/ \E duration \in Durations : Block(p, duration)
        \/ Wakeup(p)

Next ==
    \/ Tick
    \/ \E size \in Lengths : Create(size)
    \/ \E p \in Pids : Kill(p)
    \/ Steer

Spec == Init /\ [][Next]_vars

-----------------------------------------------------------------------------
(* Properties.                                                              *)

\* Every variable has its type; live pids were handed out; every claim on
\* the disk is by a pid.
TypeOK ==
    /\ next_pid \in 1..MaxPid + 1
    /\ Live \subseteq 1..next_pid - 1
    /\ processes \in [Live -> PCB]
    /\ ready_queue \in Seq(Pids)
    /\ cur_pid \in Live \cup {NoPid}
    /\ disk \in [owner_pid : Pids \cup {NoPid}, wait_queue : Seq(Pids)]

\* One process runs at a time and it is the one cur_pid_ names: dispatch,
\* preemption, blocking, slice end, completion and kill all keep the two
\* records of "who runs" in step.
RunningIsCurrent ==
    \A p \in Live : processes[p].state = "Running" <=> p = cur_pid

\* No Ready process is forgotten: schedule() throws away every entry it
\* skips, and yet a Ready process always has one left.
ReadyIsQueued ==
    \A p \in Live : processes[p].state = "Ready" => p \in Range(ready_queue)

\* No lost wake-up: whoever is blocked on the disk is in its queue, and
\* somebody else owns the disk and will hand it over.
NoLostWakeup ==
    \A p \in Live : WaitsForDisk(processes[p]) =>
        /\ p \in Range(disk.wait_queue)
        /\ disk.owner_pid \notin {NoPid, p}

\* The disk's owner and waiters are live and pairwise different, and a free
\* disk has no waiters: no process dies without dropping its claims.
ClaimsAreSound ==
    /\ disk.owner_pid \in Live \cup {NoPid}
    /\ Range(disk.wait_queue) \subseteq Live \ {disk.owner_pid}
    /\ \A i, j \in DOMAIN disk.wait_queue :
          disk.wait_queue[i] = disk.wait_queue[j] => i = j
    /\ disk.owner_pid = NoPid => disk.wait_queue = <<>>

\* Service is first come, first served: no step gives the disk to a waiter
\* while a process queued before it is blocked on the disk.
FifoService ==
    [][\A j \in DOMAIN disk.wait_queue :
         disk'.owner_pid = disk.wait_queue[j] =>
           \A i \in 1..j - 1 : disk.wait_queue[i] \notin Waiting(processes)]_vars

\* The disk is never taken away: its owner changes only when the owner
\* itself is the process that the tick executes, or has just been removed.
OwnerKeepsDisk ==
    [][disk'.owner_pid # disk.owner_pid =>
         \/ disk.owner_pid = NoPid
         \/ disk.owner_pid \notin DOMAIN processes'
         \/ \E d \in Dispatched : d.pid = disk.owner_pid]_vars

\* Whoever waits for something is Blocked: a Ready or Running process has
\* no unfinished sleep and no device request.
WaitingIsBlocked ==
    \A p \in Live :
        processes[p].state # "Blocked" => processes[p].blocked_reason = "None"

\* Every sleep ends, every wait for a device ends, every program finishes.
SleepEnds ==
    \A p \in Pids :
        (p \in Live /\ processes[p].state = "Blocked"
                    /\ processes[p].blocked_reason = "Sleep")
        ~> ~(p \in Live /\ processes[p].state = "Blocked"
                        /\ processes[p].blocked_reason = "Sleep")

DeviceWaitEnds ==
    \A p \in Pids :
        (p \in Live /\ processes[p].state = "Blocked"
                    /\ processes[p].blocked_reason = "Device")
        ~> ~(p \in Live /\ processes[p].state = "Blocked"
                        /\ processes[p].blocked_reason = "Device")

ProgramsFinish == \A p \in Pids : (p \in Live) ~> (p \notin Live)
=============================================================================
