------------------------ MODULE ProcessManagerProofs ------------------------
(***************************************************************************)
(* The safety invariants of ProcessManager hold for any number of          *)
(* processes, slice, program lengths, durations and device ids.            *)
(*                                                                         *)
(* A tick applies several operations in a row to a process table, a ready  *)
(* queue and the device.  Consistent states what each of them preserves    *)
(* about the three; one lemma per operation shows that it does.            *)
(***************************************************************************)
EXTENDS ProcessManager, EnumerationTheorems, SequenceTheorems

-----------------------------------------------------------------------------
(* What the operations of DeviceManager do to the claims on a device, for   *)
(* every set of pids and every queue.                                       *)

Device(P) == [owner_pid : P \cup {NoPid}, wait_queue : Seq(P)]

NoRepeats(queue) ==
    \A i, j \in 1..Len(queue) : queue[i] = queue[j] => i = j

\* The claims on a device are sound when its owner and its waiters are
\* live, pairwise different, and nobody waits for a free device.
Sound(dev, live) ==
    /\ dev.owner_pid \in live \cup {NoPid}
    /\ \A i \in 1..Len(dev.wait_queue) :
         dev.wait_queue[i] \in live /\ dev.wait_queue[i] # dev.owner_pid
    /\ NoRepeats(dev.wait_queue)
    /\ dev.owner_pid = NoPid => dev.wait_queue = <<>>

\* What is in a queue is at one of its positions.
LEMMA RangeOfQueue ==
    ASSUME NEW P, NEW queue \in Seq(P)
    PROVE  \A x : x \in Range(queue) <=> \E i \in 1..Len(queue) : queue[i] = x
  BY DEF Range

\* A queue to which a waiter is appended gains that waiter only.
LEMMA RangeOfAppend ==
    ASSUME NEW P, NEW queue \in Seq(P), NEW p \in P
    PROVE  /\ Append(queue, p) \in Seq(P)
           /\ p \in Range(Append(queue, p))
           /\ \A x : x \in Range(Append(queue, p)) <=> x = p \/ x \in Range(queue)
<1>1. /\ Append(queue, p) \in Seq(P)
      /\ Len(Append(queue, p)) = Len(queue) + 1
      /\ Append(queue, p)[Len(queue) + 1] = p
      /\ \A i \in 1..Len(queue) : Append(queue, p)[i] = queue[i]
      /\ Len(queue) \in Nat
  OBVIOUS
<1>2. \A x : x \in Range(Append(queue, p)) <=>
               \E i \in 1..Len(queue) + 1 : Append(queue, p)[i] = x
  <2> DEFINE longer == Append(queue, p)
  <2>1. longer \in Seq(P) /\ Len(longer) = Len(queue) + 1
    BY <1>1
  <2> HIDE DEF longer
  <2>2. \A x : x \in Range(longer) <=> \E i \in 1..Len(queue) + 1 : longer[i] = x
    BY <2>1, RangeOfQueue
  <2> QED BY <2>2 DEF longer
<1>3. \A i : i \in 1..Len(queue) + 1 <=> i = Len(queue) + 1 \/ i \in 1..Len(queue)
  BY <1>1
<1> QED BY <1>1, <1>2, <1>3, RangeOfQueue

\* The rest of a queue behind position i.
LEMMA RestOfQueue ==
    ASSUME NEW P, NEW queue \in Seq(P), NEW i \in 1..Len(queue)
    PROVE  LET rest == SubSeq(queue, i + 1, Len(queue))
           IN  /\ rest \in Seq(P)
               /\ Len(rest) = Len(queue) - i
               /\ \A k \in 1..Len(rest) : rest[k] = queue[i + k]
  OBVIOUS

\* Removing p keeps everybody else, once if it was there once.
LEMMA WithoutProperties ==
    ASSUME NEW P, NEW queue \in Seq(P), NEW p, NEW rest \in Without(queue, p)
    PROVE  /\ rest \in Seq(P)
           /\ \A x : x \in Range(rest) <=> x \in Range(queue) /\ x # p
           /\ NoRepeats(queue) => NoRepeats(rest)
<1> DEFINE keep == {i \in DOMAIN queue : queue[i] # p}
<1>1. PICK w \in Ascending(keep) : rest = [k \in DOMAIN w |-> queue[w[k]]]
  BY DEF Without
<1>2. keep \subseteq 1..Len(queue) /\ Len(queue) \in Nat
  BY LenProperties
<1>3. keep \in SUBSET Int /\ IsFiniteSet(keep)
  <2>1. 1..Len(queue) \subseteq Int /\ IsFiniteSet(1..Len(queue))
    BY <1>2, FS_Interval
  <2> QED BY <1>2, <2>1, FS_Subset
<1>4. /\ w \in Seq(keep)
      /\ \A i, j \in 1..Len(w) : w[i] = w[j] => i = j
      /\ \A x \in keep : \E i \in 1..Len(w) : w[i] = x
  <2> HIDE DEF keep
  <2> QED BY <1>3, AscendingIsBijective
<1>5. /\ Len(w) \in Nat
      /\ DOMAIN w = 1..Len(w)
      /\ \A k \in 1..Len(w) : w[k] \in keep
  <2> HIDE DEF keep
  <2> QED BY <1>4, LenProperties, ElementOfSeq
<1>6. \A k \in 1..Len(w) : w[k] \in 1..Len(queue) /\ queue[w[k]] \in P /\ queue[w[k]] # p
  BY <1>2, <1>5, ElementOfSeq
<1>7. /\ rest \in Seq(P)
      /\ Len(rest) = Len(w)
      /\ \A k \in 1..Len(w) : rest[k] = queue[w[k]]
  <2>1. rest = [k \in 1..Len(w) |-> queue[w[k]]]
    BY <1>1, <1>5
  <2> HIDE DEF keep
  <2> QED BY <1>5, <1>6, <2>1
<1>8. ASSUME NEW x PROVE x \in Range(rest) <=> x \in Range(queue) /\ x # p
  <2>1. x \in Range(rest) <=> \E k \in 1..Len(w) : queue[w[k]] = x
    BY <1>7, RangeOfQueue
  <2>2. x \in Range(queue) <=> \E i \in 1..Len(queue) : queue[i] = x
    BY RangeOfQueue
  <2>3. ASSUME NEW i \in 1..Len(queue), queue[i] = x, x # p
        PROVE  \E k \in 1..Len(w) : queue[w[k]] = x
    BY <1>2, <1>4, <2>3, LenProperties, ZenonT(30)
  <2> QED BY <1>6, <2>1, <2>2, <2>3
<1>9. ASSUME NoRepeats(queue) PROVE NoRepeats(rest)
  <2>1. SUFFICES ASSUME NEW i \in 1..Len(w), NEW j \in 1..Len(w), rest[i] = rest[j]
                 PROVE  i = j
    BY <1>7 DEF NoRepeats
  <2>2. queue[w[i]] = queue[w[j]]
    BY <1>7, <2>1
  <2>3. w[i] = w[j]
    BY <1>6, <1>9, <2>2 DEF NoRepeats
  <2> QED BY <1>4, <2>3
<1> QED BY <1>7, <1>8, <1>9

\* A hand-over chooses its heir among the waiters that still wait; it
\* drops nobody else who does, and leaves a free device without a queue.
LEMMA HandedOverProperties ==
    ASSUME NEW P, NoPid \notin P, NEW queue \in Seq(P), NoRepeats(queue),
           NEW waiting, NEW dev \in HandedOver(queue, waiting)
    PROVE  /\ dev \in Device(P)
           /\ Sound(dev, Range(queue))
           /\ dev.owner_pid \in waiting \cup {NoPid}
           /\ \A x \in waiting : x \in Range(queue) =>
                x = dev.owner_pid \/ x \in Range(dev.wait_queue)
<1> DEFINE heirs == {i \in DOMAIN queue : queue[i] \in waiting}
<1>1. CASE heirs = {}
  <2>1. dev = [owner_pid |-> NoPid, wait_queue |-> <<>>]
    BY <1>1 DEF HandedOver, FreeDevice
  <2>2. \A x \in waiting : x \notin Range(queue)
    BY <1>1, RangeOfQueue
  <2> QED BY <2>1, <2>2 DEF Device, Sound, NoRepeats
<1>2. CASE heirs # {}
  <2>1. PICK i \in Firsts(heirs) :
          dev = [owner_pid |-> queue[i],
                 wait_queue |-> SubSeq(queue, i + 1, Len(queue))]
    BY <1>2 DEF HandedOver
  <2>2. /\ i \in 1..Len(queue) /\ queue[i] \in waiting
        /\ \A j \in 1..Len(queue) : queue[j] \in waiting => i <= j
    BY DEF Firsts
  <2> DEFINE rest == dev.wait_queue
  <2>3. /\ dev.owner_pid = queue[i]
        /\ rest \in Seq(P)
        /\ Len(rest) = Len(queue) - i
        /\ \A k \in 1..Len(rest) : rest[k] = queue[i + k]
    BY <2>1, <2>2, RestOfQueue
  <2>4. Len(queue) \in Nat /\ Len(rest) \in Nat
    BY <2>3
  <2> HIDE DEF rest
  <2>5. \A k \in 1..Len(rest) : i + k \in 1..Len(queue) /\ i + k # i
    BY <2>2, <2>3, <2>4
  <2>6. \A j \in 1..Len(queue) : j > i => j - i \in 1..Len(rest) /\ rest[j - i] = queue[j]
    <3> SUFFICES ASSUME NEW j \in 1..Len(queue), j > i
                 PROVE  j - i \in 1..Len(rest) /\ rest[j - i] = queue[j]
      OBVIOUS
    <3>1. j - i \in 1..Len(rest) /\ i + (j - i) = j
      BY <2>2, <2>3, <2>4
    <3> QED BY <2>3, <3>1
  <2>7. \A k \in 1..Len(rest) : rest[k] \in Range(queue) /\ rest[k] # dev.owner_pid
    <3>1. SUFFICES ASSUME NEW k \in 1..Len(rest)
                   PROVE  rest[k] \in Range(queue) /\ rest[k] # dev.owner_pid
      OBVIOUS
    <3>2. rest[k] = queue[i + k] /\ i + k \in 1..Len(queue) /\ i + k # i
      BY <2>3, <2>5
    <3>3. queue[i + k] # queue[i]
      BY <2>2, <3>2 DEF NoRepeats
    <3> QED BY <2>3, <3>2, <3>3, RangeOfQueue
  <2>8. NoRepeats(rest)
    <3>1. SUFFICES ASSUME NEW k \in 1..Len(rest), NEW l \in 1..Len(rest),
                          rest[k] = rest[l]
                   PROVE  k = l
      BY DEF NoRepeats
    <3>2. queue[i + k] = queue[i + l]
      BY <2>3, <3>1
    <3>3. i + k = i + l
      BY <2>5, <3>2 DEF NoRepeats
    <3> QED BY <2>2, <2>4, <3>3
  <2>9. dev.owner_pid \in Range(queue) /\ dev.owner_pid # NoPid
    BY <2>2, <2>3, RangeOfQueue
  <2>10. Sound(dev, Range(queue))
    BY <2>7, <2>8, <2>9 DEF Sound, rest
  <2>11. ASSUME NEW x \in waiting, x \in Range(queue)
         PROVE  x = dev.owner_pid \/ x \in Range(rest)
    <3>1. PICK j \in 1..Len(queue) : queue[j] = x
      BY <2>11, RangeOfQueue
    <3>2. i = j \/ j > i
      BY <2>2, <3>1
    <3> QED BY <2>3, <2>6, <3>1, <3>2, RangeOfQueue
  <2>12. dev \in Device(P)
    BY <2>1, <2>2, <2>3 DEF Device, rest
  <2> QED BY <2>2, <2>3, <2>10, <2>11, <2>12 DEF rest
<1> QED BY <1>1, <1>2

\* A shorter queue with the same owner is still sound.
LEMMA CancelledProperties ==
    ASSUME NEW P, NEW live \in SUBSET P, NEW dev \in Device(P), Sound(dev, live),
           NEW p, NEW after \in Cancelled(dev, p)
    PROVE  /\ after \in Device(P)
           /\ Sound(after, live)
           /\ p # dev.owner_pid => Sound(after, live \ {p})
           /\ after.owner_pid = dev.owner_pid
           /\ \A x : x \in Range(dev.wait_queue) /\ x # p =>
                x \in Range(after.wait_queue)
<1>1. dev.wait_queue \in Seq(P) /\ dev.owner_pid \in P \cup {NoPid}
  BY DEF Device
<1>2. PICK rest \in Without(dev.wait_queue, p) :
        after = [dev EXCEPT !.wait_queue = rest]
  BY DEF Cancelled
<1>3. /\ rest \in Seq(P)
      /\ \A x : x \in Range(rest) <=> x \in Range(dev.wait_queue) /\ x # p
      /\ NoRepeats(dev.wait_queue) => NoRepeats(rest)
  BY <1>1, <1>2, WithoutProperties
<1>4. /\ after \in Device(P)
      /\ after.owner_pid = dev.owner_pid
      /\ after.wait_queue = rest
  BY <1>2, <1>3 DEF Device
<1>5. \A i \in 1..Len(rest) :
        rest[i] \in live \ {p} /\ rest[i] # dev.owner_pid
  <2>1. SUFFICES ASSUME NEW i \in 1..Len(rest)
                 PROVE  rest[i] \in live \ {p} /\ rest[i] # dev.owner_pid
    OBVIOUS
  <2>2. rest[i] \in Range(dev.wait_queue) /\ rest[i] # p
    BY <1>3, RangeOfQueue
  <2> QED BY <1>1, <2>2, RangeOfQueue DEF Sound
<1>6. dev.owner_pid = NoPid => rest = <<>>
  <2>1. SUFFICES ASSUME dev.wait_queue = <<>> PROVE rest = <<>>
    BY DEF Sound
  <2>2. \A x : x \notin Range(rest)
    <3>1. Len(dev.wait_queue) = 0
      BY <2>1
    <3>2. \A x : x \notin Range(dev.wait_queue)
      BY <1>1, <3>1, RangeOfQueue
    <3> QED BY <1>3, <3>2
  <2>3. 1 \notin 1..Len(rest)
    BY <1>3, <2>2, RangeOfQueue
  <2>4. Len(rest) \in Nat
    BY <1>3, LenProperties
  <2>5. Len(rest) = 0
    BY <2>3, <2>4
  <2> QED BY <1>3, <2>5, EmptySeq
<1>7. Sound(after, live) /\ (p # dev.owner_pid => Sound(after, live \ {p}))
  BY <1>3, <1>4, <1>5, <1>6 DEF Sound
<1> QED BY <1>3, <1>4, <1>7

\* When p gives everything up, nobody who still waits is lost and nothing
\* is left in the name of p.
LEMMA ReleasedAllProperties ==
    ASSUME NEW P, NoPid \notin P, NEW live \in SUBSET P,
           NEW dev \in Device(P), Sound(dev, live),
           NEW p \in live, NEW waiting, p \notin waiting,
           NEW after \in ReleasedAll(dev, p, waiting)
    PROVE  /\ after \in Device(P)
           /\ Sound(after, live \ {p})
           /\ IF dev.owner_pid = p
              THEN after.owner_pid \in waiting \cup {NoPid}
              ELSE after.owner_pid = dev.owner_pid
           /\ \A x \in waiting : x \in Range(dev.wait_queue) =>
                x = after.owner_pid \/ x \in Range(after.wait_queue)
<1>1. dev.wait_queue \in Seq(P) /\ dev.owner_pid \in P \cup {NoPid}
  BY DEF Device
<1>2. PICK rest \in Without(dev.wait_queue, p) :
        after \in IF dev.owner_pid = p
                 THEN HandedOver(rest, waiting)
                 ELSE {[dev EXCEPT !.wait_queue = rest]}
  BY DEF ReleasedAll
<1>3. /\ rest \in Seq(P)
      /\ \A x : x \in Range(rest) <=> x \in Range(dev.wait_queue) /\ x # p
      /\ NoRepeats(rest)
  BY <1>1, <1>2, WithoutProperties DEF Sound
<1>4. Range(rest) \subseteq live \ {p}
  BY <1>1, <1>3, RangeOfQueue DEF Sound
<1>5. CASE dev.owner_pid = p
  <2>1. after \in HandedOver(rest, waiting)
    BY <1>2, <1>5
  <2>2. /\ after \in Device(P)
        /\ Sound(after, Range(rest))
        /\ after.owner_pid \in waiting \cup {NoPid}
        /\ \A x \in waiting : x \in Range(rest) =>
             x = after.owner_pid \/ x \in Range(after.wait_queue)
    BY <1>3, <2>1, HandedOverProperties
  <2>3. Sound(after, live \ {p})
    BY <1>4, <2>2 DEF Sound
  <2>4. \A x \in waiting : x \in Range(dev.wait_queue) =>
          x = after.owner_pid \/ x \in Range(after.wait_queue)
    <3>1. SUFFICES ASSUME NEW x \in waiting, x \in Range(dev.wait_queue)
                   PROVE  x = after.owner_pid \/ x \in Range(after.wait_queue)
      OBVIOUS
    <3>2. x \in Range(rest)
      BY <1>3, <3>1
    <3> QED BY <2>2, <3>2
  <2> QED BY <1>5, <2>2, <2>3, <2>4
<1>6. CASE dev.owner_pid # p
  <2>1. after \in Cancelled(dev, p)
    BY <1>2, <1>6 DEF Cancelled
  <2>2. p # dev.owner_pid
    BY <1>6
  <2>3. /\ after \in Device(P)
        /\ Sound(after, live \ {p})
        /\ after.owner_pid = dev.owner_pid
        /\ \A x : x \in Range(dev.wait_queue) /\ x # p =>
             x \in Range(after.wait_queue)
    <3>1. after \in Device(P)
      BY <2>1, CancelledProperties
    <3>2. Sound(after, live \ {p})
      BY <2>1, <2>2, CancelledProperties
    <3>3. after.owner_pid = dev.owner_pid
      BY <2>1, CancelledProperties
    <3>4. after.wait_queue = rest
      BY <1>2, <1>6 DEF Device
    <3> QED BY <1>3, <3>1, <3>2, <3>3, <3>4
  <2> QED BY <1>6, <2>3
<1> QED BY <1>5, <1>6

\* A request takes a free device or adds the caller to the queue: never
\* does it take a device from its owner or drop a waiter.
LEMMA RequestedProperties ==
    ASSUME NEW P, NoPid \notin P, NEW live \in SUBSET P,
           NEW dev \in Device(P), Sound(dev, live), NEW p \in live
    PROVE  /\ Requested(dev, p) \in Device(P)
           /\ Sound(Requested(dev, p), live)
           /\ dev.owner_pid # NoPid => Requested(dev, p).owner_pid = dev.owner_pid
           /\ ~Grants(dev, p) => p \in Range(Requested(dev, p).wait_queue)
           /\ \A x \in Range(dev.wait_queue) :
                x \in Range(Requested(dev, p).wait_queue)
<1> DEFINE after == Requested(dev, p)
           queue == dev.wait_queue
<1>1. queue \in Seq(P) /\ dev.owner_pid \in P \cup {NoPid} /\ p # NoPid /\ p \in P
  BY DEF Device
<1>2. CASE dev.owner_pid = NoPid
  <2>1. after = [dev EXCEPT !.owner_pid = p] /\ queue = <<>>
    BY <1>2 DEF Requested, Sound
  <2> QED BY <1>1, <1>2, <2>1, RangeOfQueue DEF Sound, Device, Grants, NoRepeats
<1>3. CASE dev.owner_pid # NoPid /\ (dev.owner_pid = p \/ p \in Range(queue))
  <2>1. after = dev
    BY <1>3 DEF Requested
  <2> QED BY <1>3, <2>1 DEF Grants
<1>4. CASE dev.owner_pid \notin {NoPid, p} /\ p \notin Range(queue)
  <2>1. after = [dev EXCEPT !.wait_queue = Append(queue, p)]
    BY <1>4 DEF Requested
  <2>2. /\ after \in Device(P)
        /\ after.owner_pid = dev.owner_pid
        /\ after.wait_queue = Append(queue, p)
    BY <1>1, <2>1 DEF Device
  <2>3. /\ Len(queue) \in Nat
        /\ Len(Append(queue, p)) = Len(queue) + 1
        /\ Append(queue, p)[Len(queue) + 1] = p
        /\ \A i \in 1..Len(queue) : /\ Append(queue, p)[i] = queue[i]
                                     /\ queue[i] # p
    BY <1>1, <1>4, RangeOfQueue
  <2>4. \A i : i \in 1..Len(queue) + 1 <=> i = Len(queue) + 1 \/ i \in 1..Len(queue)
    BY <2>3
  <2>5. NoRepeats(Append(queue, p))
    BY <2>3, <2>4 DEF Sound, NoRepeats
  <2>6. \A i \in 1..Len(queue) + 1 :
          Append(queue, p)[i] \in live /\ Append(queue, p)[i] # dev.owner_pid
    BY <1>4, <2>3, <2>4 DEF Sound
  <2>7. Sound(after, live)
    BY <1>4, <2>2, <2>3, <2>5, <2>6 DEF Sound
  <2>8. /\ p \in Range(Append(queue, p))
        /\ \A x \in Range(queue) : x \in Range(Append(queue, p))
    BY <1>1, RangeOfAppend
  <2> QED BY <2>2, <2>7, <2>8
<1> QED BY <1>1, <1>2, <1>3, <1>4

-----------------------------------------------------------------------------
(* The process table, the ready queue and the device together.              *)

Typed(procs, queue, dev) ==
    /\ procs \in [DOMAIN procs -> PCB]
    /\ DOMAIN procs \subseteq Pids
    /\ queue \in Seq(Pids)
    /\ dev \in Device(Pids)

ReadyQueued(procs, queue) ==
    \A q \in DOMAIN procs : procs[q].state = "Ready" => q \in Range(queue)

WaitersQueued(procs, dev) ==
    \A q \in DOMAIN procs : WaitsForDisk(procs[q]) => q \in Range(dev.wait_queue)

Consistent(procs, queue, dev) ==
    /\ Typed(procs, queue, dev)
    /\ ReadyQueued(procs, queue)
    /\ Sound(dev, DOMAIN procs)
    /\ WaitersQueued(procs, dev)

\* p, or nobody if p is NoPid, is the process that is Running.
OnlyRuns(procs, p) ==
    \A q \in DOMAIN procs : procs[q].state = "Running" <=> q = p

\* The inductive invariant.
IInv ==
    /\ Consistent(processes, ready_queue, disk)
    /\ OnlyRuns(processes, cur_pid)
    /\ cur_pid \in Live \cup {NoPid}
    /\ next_pid \in 1..MaxPid + 1
    /\ Live \subseteq 1..next_pid - 1

\* NoPid is nobody's pid, and there are finitely many pids.
LEMMA PidFacts == NoPid \notin Pids /\ Pids \subseteq Int /\ IsFiniteSet(Pids)
<1>1. MaxPid \in Nat
  BY ProcessManagerAssumption
<1>2. IsFiniteSet(1..MaxPid)
  BY <1>1, FS_Interval
<1> QED BY <1>1, <1>2 DEF NoPid, Pids

\* The assignments that block or wake a process give a PCB.
LEMMA PCBUpdate ==
    ASSUME NEW pcb \in PCB, NEW state \in {"Ready", "Running", "Blocked"},
           NEW time \in Int, NEW reason \in {"None", "Sleep", "Device"},
           NEW dev \in DevIds \cup {NoDevice}
    PROVE  [pcb EXCEPT !.state = state, !.blocked_time = time,
                       !.blocked_reason = reason, !.waiting_device = dev] \in PCB
  BY DEF PCB

\* The accounting of a tick, and the refill of the slice, give a PCB.
LEMMA PCBRun ==
    ASSUME NEW pcb \in PCB, NEW left \in Nat, NEW slice \in Int
    PROVE  LET ran == [pcb EXCEPT !.left = left, !.time_slice_left = slice]
           IN  /\ slice \in 1..TimeSlice => ran \in PCB
               /\ Requeued(ran) \in PCB
               /\ Requeued(ran).state = "Ready"
<1>1. TimeSlice \in 1..TimeSlice
  BY ProcessManagerAssumption
<1> QED BY <1>1 DEF PCB, Requeued

\* Every state change of a PCB gives a PCB.
LEMMA PCBFacts ==
    ASSUME NEW pcb \in PCB
    PROVE  /\ \A duration \in Durations : PutToSleep(pcb, duration) \in PCB
           /\ \A dev \in DevIds : PutOnWait(pcb, dev) \in PCB
           /\ Roused(pcb) \in PCB
           /\ Counted(pcb) \in PCB
<1>1. Durations \subseteq Int /\ NoDevice \in DevIds \cup {NoDevice} /\ 0 \in Int
  BY ProcessManagerAssumption
<1>2. \A duration \in Durations : PutToSleep(pcb, duration) \in PCB
  BY <1>1, PCBUpdate DEF PutToSleep
<1>3. \A dev \in DevIds : PutOnWait(pcb, dev) \in PCB
  BY <1>1, PCBUpdate DEF PutOnWait
<1>4. Roused(pcb) \in PCB
  BY <1>1, PCBUpdate DEF Roused
<1>5. Counted(pcb) \in PCB
  <2>1. CASE ~Counting(pcb)
    BY <2>1 DEF Counted
  <2>2. CASE Counting(pcb) /\ pcb.blocked_time > 1
    BY <2>2 DEF Counted, PCB
  <2>3. CASE Counting(pcb) /\ ~(pcb.blocked_time > 1)
    <3>1. Counted(pcb) =
            [state |-> "Ready", time_slice_left |-> pcb.time_slice_left,
             left |-> pcb.left, blocked_time |-> 0, blocked_reason |-> "None",
             waiting_device |-> pcb.waiting_device]
      BY <2>3 DEF Counted, PCB
    <3> QED BY <1>1, <3>1 DEF PCB
  <2> QED BY <2>1, <2>2, <2>3
<1> QED BY <1>2, <1>3, <1>4, <1>5

\* check_blocked_processes() wakes sleepers only, and queues those it wakes.
LEMMA CheckBlockedConsistent ==
    ASSUME NEW procs, NEW queue, NEW dev, Consistent(procs, queue, dev),
           CheckBlocked(procs, queue)
    PROVE  /\ Consistent(processes', ready_queue', dev)
           /\ DOMAIN processes' = DOMAIN procs
           /\ \A q \in DOMAIN procs :
                processes'[q].state = "Running" <=> procs[q].state = "Running"
<1> DEFINE due == {p \in DOMAIN procs : /\ Counting(procs[p])
                                        /\ procs[p].blocked_time = 1}
<1>1. /\ procs \in [DOMAIN procs -> PCB]
      /\ DOMAIN procs \subseteq Pids
      /\ queue \in Seq(Pids)
      /\ dev \in Device(Pids)
  BY DEF Consistent, Typed
<1>2. PICK woken \in Ascending(due) : ready_queue' = queue \o woken
  BY DEF CheckBlocked
<1>3. due \in SUBSET Int /\ IsFiniteSet(due) /\ due \subseteq Pids
  <2>1. due \subseteq Pids
    BY <1>1
  <2> HIDE DEF due
  <2> QED BY <2>1, PidFacts, FS_Subset
<1>4. woken \in Seq(due) /\ \A p \in due : \E i \in 1..Len(woken) : woken[i] = p
  <2> HIDE DEF due
  <2> QED BY <1>3, AscendingIsBijective
<1>5. woken \in Seq(Pids)
  <2> HIDE DEF due
  <2> QED BY <1>3, <1>4, SeqMonotonic
<1>6. /\ queue \o woken \in Seq(Pids)
      /\ \A x : x \in Range(queue) \/ x \in Range(woken) => x \in Range(queue \o woken)
  BY <1>1, <1>5, RangeConcatenation
<1>7. \A p \in due : p \in Range(woken)
  <2> HIDE DEF due
  <2> QED BY <1>4, <1>5, RangeOfQueue
<1>8. processes' = [p \in DOMAIN procs |-> Counted(procs[p])]
  BY DEF CheckBlocked
<1>9. DOMAIN processes' = DOMAIN procs
  BY <1>8
<1>10. ASSUME NEW q \in DOMAIN procs
       PROVE  /\ processes'[q] \in PCB
              /\ processes'[q].state = "Running" <=> procs[q].state = "Running"
              /\ processes'[q].state = "Ready" => procs[q].state = "Ready" \/ q \in due
              /\ WaitsForDisk(processes'[q]) => WaitsForDisk(procs[q])
  <2>1. processes'[q] = Counted(procs[q]) /\ procs[q] \in PCB
    BY <1>1, <1>8
  <2>2. processes'[q] \in PCB
    BY <2>1, PCBFacts
  <2>3. CASE ~Counting(procs[q])
    BY <2>1, <2>2, <2>3 DEF Counted
  <2>4. CASE Counting(procs[q]) /\ procs[q].blocked_time > 1
    BY <2>1, <2>2, <2>4 DEF Counted, Counting, WaitsForDisk, PCB
  <2>5. CASE Counting(procs[q]) /\ ~(procs[q].blocked_time > 1)
    <3>1. procs[q].blocked_time = 1
      BY <2>1, <2>5 DEF Counting, PCB
    <3> QED BY <2>1, <2>2, <2>5, <3>1 DEF Counted, Counting, WaitsForDisk, PCB
  <2> QED BY <2>3, <2>4, <2>5
<1>11. Typed(processes', ready_queue', dev)
  BY <1>1, <1>2, <1>6, <1>8, <1>9, <1>10 DEF Typed
<1>12. ReadyQueued(processes', ready_queue')
  BY <1>2, <1>6, <1>7, <1>9, <1>10 DEF ReadyQueued, Consistent
<1>13. WaitersQueued(processes', dev)
  BY <1>9, <1>10 DEF WaitersQueued, Consistent
<1> QED BY <1>9, <1>10, <1>11, <1>12, <1>13 DEF Consistent

\* schedule(), when nobody runs: what it drops from the ready queue was of
\* no use to any process that is Ready afterwards.
LEMMA ScheduledConsistent ==
    ASSUME NEW procs, NEW queue, NEW dev, Consistent(procs, queue, dev),
           OnlyRuns(procs, NoPid), NEW d \in Scheduled(procs, queue)
    PROVE  /\ Consistent(d.procs, d.queue, dev)
           /\ DOMAIN d.procs = DOMAIN procs
           /\ d.pid \in DOMAIN procs \cup {NoPid}
           /\ OnlyRuns(d.procs, d.pid)
<1> DEFINE runnable == {i \in DOMAIN queue : /\ queue[i] \in DOMAIN procs
                                             /\ procs[queue[i]].state = "Ready"}
<1>1. /\ procs \in [DOMAIN procs -> PCB]
      /\ DOMAIN procs \subseteq Pids
      /\ queue \in Seq(Pids)
      /\ dev \in Device(Pids)
      /\ ReadyQueued(procs, queue)
      /\ Sound(dev, DOMAIN procs)
      /\ WaitersQueued(procs, dev)
  BY DEF Consistent, Typed
<1>2. CASE runnable = {}
  <2>1. d = [pid |-> NoPid, procs |-> procs, queue |-> <<>>]
    BY <1>2 DEF Scheduled
  <2>2. \A q \in DOMAIN procs : procs[q].state # "Ready"
    BY <1>1, <1>2, RangeOfQueue DEF ReadyQueued
  <2>3. <<>> \in Seq(Pids)
    OBVIOUS
  <2> QED BY <1>1, <2>1, <2>2, <2>3 DEF Consistent, Typed, ReadyQueued
<1>3. CASE runnable # {}
  <2>1. PICK i \in Firsts(runnable) :
          d = [pid   |-> queue[i],
               procs |-> [procs EXCEPT ![queue[i]].state = "Running"],
               queue |-> SubSeq(queue, i + 1, Len(queue))]
    BY <1>3 DEF Scheduled
  <2> DEFINE p == queue[i]
             rest == SubSeq(queue, i + 1, Len(queue))
  <2>2. /\ i \in 1..Len(queue) /\ p \in DOMAIN procs /\ procs[p].state = "Ready"
        /\ \A j \in 1..Len(queue) :
             queue[j] \in DOMAIN procs /\ procs[queue[j]].state = "Ready" => i <= j
    BY <1>1 DEF Firsts
  <2>3. /\ rest \in Seq(Pids)
        /\ Len(queue) \in Nat
        /\ Len(rest) = Len(queue) - i
        /\ \A k \in 1..Len(rest) : rest[k] = queue[i + k]
    BY <1>1, <2>2, RestOfQueue, LenProperties
  <2>4. /\ d.pid = p /\ d.queue = rest
        /\ d.procs = [procs EXCEPT ![p].state = "Running"]
    BY <2>1
  <2> HIDE DEF p, rest, runnable
  <2>5. /\ DOMAIN d.procs = DOMAIN procs
        /\ d.procs[p] = [procs[p] EXCEPT !.state = "Running"]
        /\ \A q \in DOMAIN procs \ {p} : d.procs[q] = procs[q]
    BY <1>1, <2>2, <2>4
  <2>6. d.procs[p] \in PCB /\ d.procs[p].state = "Running"
    BY <1>1, <2>2, <2>5 DEF PCB
  <2>7. Typed(d.procs, d.queue, dev)
    BY <1>1, <2>3, <2>4, <2>5, <2>6 DEF Typed
  <2>8. OnlyRuns(d.procs, d.pid)
    BY <1>1, <2>4, <2>5, <2>6, PidFacts DEF OnlyRuns
  <2>9. ASSUME NEW q \in DOMAIN procs, d.procs[q].state = "Ready"
        PROVE  q \in Range(d.queue)
    <3>1. q # p /\ procs[q].state = "Ready"
      BY <2>5, <2>6, <2>9
    <3>2. PICK j \in 1..Len(queue) : queue[j] = q
      BY <1>1, <3>1, RangeOfQueue DEF ReadyQueued
    <3>3. i <= j /\ j # i
      BY <2>2, <3>1, <3>2 DEF p
    <3>4. j - i \in 1..Len(rest) /\ rest[j - i] = q
      BY <2>2, <2>3, <3>2, <3>3
    <3> QED BY <2>3, <2>4, <3>4, RangeOfQueue
  <2>10. WaitersQueued(d.procs, dev)
    BY <1>1, <2>5, <2>6 DEF WaitersQueued, WaitsForDisk
  <2> QED BY <1>1, <2>2, <2>4, <2>5, <2>7, <2>8, <2>9, <2>10
          DEF Consistent, ReadyQueued
<1> QED BY <1>2, <1>3

\* The new owner of the device stops waiting and is queued; the others
\* are as they were.
LEMMA RousingFacts ==
    ASSUME NEW procs, NEW queue, procs \in [DOMAIN procs -> PCB],
           DOMAIN procs \subseteq Pids, queue \in Seq(Pids),
           ReadyQueued(procs, queue), NEW heir \in Waiting(procs) \cup {NoPid}
    PROVE  LET after == RouseHeir(procs, heir)
           IN  /\ after \in [DOMAIN procs -> PCB]
               /\ PushHeir(queue, heir) \in Seq(Pids)
               /\ ReadyQueued(after, PushHeir(queue, heir))
               /\ \A q \in DOMAIN procs :
                    /\ q # heir => after[q] = procs[q]
                    /\ WaitsForDisk(after[q]) => WaitsForDisk(procs[q]) /\ q # heir
                    /\ after[q].state = "Running" <=> procs[q].state = "Running"
<1> DEFINE after == RouseHeir(procs, heir)
           longer == PushHeir(queue, heir)
<1>1. CASE heir = NoPid
  <2>1. after = procs /\ longer = queue
    BY <1>1 DEF RouseHeir, PushHeir
  <2>2. heir \notin DOMAIN procs
    BY <1>1, PidFacts
  <2> HIDE DEF after, longer
  <2>3. /\ after \in [DOMAIN procs -> PCB] /\ longer \in Seq(Pids)
        /\ ReadyQueued(after, longer)
        /\ \A q \in DOMAIN procs :
             /\ q # heir => after[q] = procs[q]
             /\ WaitsForDisk(after[q]) => WaitsForDisk(procs[q]) /\ q # heir
             /\ after[q].state = "Running" <=> procs[q].state = "Running"
    BY <2>1, <2>2
  <2> QED BY <2>3 DEF after, longer
<1>2. CASE heir # NoPid
  <2>1. heir \in DOMAIN procs /\ WaitsForDisk(procs[heir])
    BY <1>2 DEF Waiting
  <2>2. after = [procs EXCEPT ![heir] = Roused(procs[heir])]
    BY <1>2 DEF RouseHeir
  <2>3. longer = Append(queue, heir) /\ heir \in Pids
    BY <1>2, <2>1 DEF PushHeir
  <2>4. /\ longer \in Seq(Pids) /\ heir \in Range(longer)
        /\ \A x \in Range(queue) : x \in Range(longer)
    BY <2>3, RangeOfAppend
  <2>5. Roused(procs[heir]) \in PCB
    BY <2>1, PCBFacts
  <2>6. Roused(procs[heir]).state = "Ready"
    BY <2>1 DEF Roused, PCB
  <2> HIDE DEF after, longer
  <2>7. /\ DOMAIN after = DOMAIN procs
        /\ after[heir] = Roused(procs[heir])
        /\ \A q \in DOMAIN procs \ {heir} : after[q] = procs[q]
    BY <2>1, <2>2
  <2>8. after \in [DOMAIN procs -> PCB]
    BY <2>5, <2>7, <2>2
  <2>9. ReadyQueued(after, longer)
    BY <2>4, <2>7 DEF ReadyQueued
  <2>10. /\ ~WaitsForDisk(after[heir]) /\ after[heir].state # "Running"
         /\ procs[heir].state # "Running"
    BY <2>1, <2>6, <2>7 DEF WaitsForDisk
  <2>11. /\ after \in [DOMAIN procs -> PCB] /\ longer \in Seq(Pids)
         /\ ReadyQueued(after, longer)
         /\ \A q \in DOMAIN procs :
              /\ q # heir => after[q] = procs[q]
              /\ WaitsForDisk(after[q]) => WaitsForDisk(procs[q]) /\ q # heir
              /\ after[q].state = "Running" <=> procs[q].state = "Running"
    BY <2>4, <2>7, <2>8, <2>9, <2>10
  <2> QED BY <2>11 DEF after, longer
<1> QED BY <1>1, <1>2

\* The end of p leaves everything consistent for the others.
LEMMA ReapedConsistent ==
    ASSUME NEW procs, NEW queue, NEW dev, Consistent(procs, queue, dev),
           NEW p \in DOMAIN procs, NEW r \in Reaped(procs, queue, dev, p)
    PROVE  /\ Consistent(r.procs, r.queue, r.disk)
           /\ DOMAIN r.procs = DOMAIN procs \ {p}
           /\ \A q \in DOMAIN procs \ {p} :
                r.procs[q].state = "Running" <=> procs[q].state = "Running"
<1> DEFINE live == DOMAIN procs
           waiting == Waiting(procs) \ {p}
<1>1. /\ procs \in [live -> PCB]
      /\ live \in SUBSET Pids
      /\ queue \in Seq(Pids)
      /\ dev \in Device(Pids)
      /\ ReadyQueued(procs, queue)
      /\ Sound(dev, live)
      /\ WaitersQueued(procs, dev)
  BY DEF Consistent, Typed
<1>2. PICK d \in ReleasedAll(dev, p, waiting) :
        LET heir == IF dev.owner_pid = p THEN d.owner_pid ELSE NoPid
        IN  r = [procs |-> Restrict(RouseHeir(procs, heir), live \ {p}),
                 queue |-> PushHeir(queue, heir),
                 disk  |-> d]
  BY DEF Reaped
<1> DEFINE heir == IF dev.owner_pid = p THEN d.owner_pid ELSE NoPid
           after == RouseHeir(procs, heir)
           longer == PushHeir(queue, heir)
<1>3. r = [procs |-> Restrict(after, live \ {p}), queue |-> longer, disk |-> d]
  BY <1>2
<1>4. p \notin waiting /\ waiting \subseteq Waiting(procs)
  OBVIOUS
<1>5. /\ d \in Device(Pids)
      /\ Sound(d, live \ {p})
      /\ IF dev.owner_pid = p
         THEN d.owner_pid \in waiting \cup {NoPid}
         ELSE d.owner_pid = dev.owner_pid
      /\ \A x \in waiting : x \in Range(dev.wait_queue) =>
           x = d.owner_pid \/ x \in Range(d.wait_queue)
  <2>1. p \in live /\ d \in ReleasedAll(dev, p, waiting) /\ NoPid \notin Pids
    BY <1>2, PidFacts
  <2>2. dev \in Device(Pids) /\ Sound(dev, live) /\ live \in SUBSET Pids
    BY <1>1
  <2> HIDE DEF waiting, live
  <2> QED BY <1>4, <2>1, <2>2, ReleasedAllProperties
<1>6. heir \in Waiting(procs) \cup {NoPid}
  BY <1>4, <1>5
<1>7. /\ after \in [live -> PCB]
      /\ longer \in Seq(Pids)
      /\ ReadyQueued(after, longer)
      /\ \A q \in live :
           /\ q # heir => after[q] = procs[q]
           /\ WaitsForDisk(after[q]) => WaitsForDisk(procs[q]) /\ q # heir
           /\ after[q].state = "Running" <=> procs[q].state = "Running"
  <2> HIDE DEF heir
  <2> QED BY <1>1, <1>6, RousingFacts
<1> HIDE DEF after, longer
<1>8. /\ r.procs = [q \in live \ {p} |-> after[q]]
      /\ r.queue = longer /\ r.disk = d
  BY <1>3 DEF Restrict
<1>9. /\ DOMAIN r.procs = live \ {p}
      /\ \A q \in live \ {p} : r.procs[q] = after[q]
  BY <1>8
<1>10. Typed(r.procs, r.queue, r.disk)
  BY <1>1, <1>5, <1>7, <1>8, <1>9 DEF Typed
<1>11. ReadyQueued(r.procs, r.queue)
  <2>1. DOMAIN after = live
    BY <1>7
  <2> QED BY <1>7, <1>8, <1>9, <2>1 DEF ReadyQueued
<1>12. ASSUME NEW q \in live \ {p}, WaitsForDisk(r.procs[q])
       PROVE  q \in Range(d.wait_queue)
  <2>1. WaitsForDisk(procs[q]) /\ q # heir
    BY <1>7, <1>9, <1>12
  <2>2. q \in waiting /\ q \in Range(dev.wait_queue)
    BY <1>1, <2>1 DEF Waiting, WaitersQueued
  <2>3. q # d.owner_pid
    <3>1. CASE dev.owner_pid = p
      BY <2>1, <3>1
    <3>2. CASE dev.owner_pid # p
      <4>1. dev.wait_queue \in Seq(Pids)
        BY <1>1 DEF Device
      <4>2. q # dev.owner_pid
        BY <1>1, <2>2, <4>1, RangeOfQueue DEF Sound
      <4> QED BY <1>5, <3>2, <4>2
    <3> QED BY <3>1, <3>2
  <2> QED BY <1>5, <2>2, <2>3
<1>13. WaitersQueued(r.procs, r.disk)
  BY <1>8, <1>9, <1>12 DEF WaitersQueued
<1>14. Sound(r.disk, DOMAIN r.procs)
  BY <1>5, <1>8, <1>9
<1> QED BY <1>7, <1>9, <1>10, <1>11, <1>13, <1>14 DEF Consistent

\* The end of a tick in which p executed an instruction.
LEMMA AccountConsistent ==
    ASSUME NEW procs, NEW queue, NEW dev, Consistent(procs, queue, dev),
           NEW p \in DOMAIN procs, procs[p].state \in {"Running", "Blocked"},
           \A q \in DOMAIN procs \ {p} : procs[q].state # "Running",
           Account(p, procs, queue, dev)
    PROVE  /\ Consistent(processes', ready_queue', disk')
           /\ OnlyRuns(processes', cur_pid')
           /\ cur_pid' \in DOMAIN processes' \cup {NoPid}
           /\ DOMAIN processes' \subseteq DOMAIN procs
           /\ next_pid' = next_pid
<1> DEFINE pcb == procs[p]
           ran == [pcb EXCEPT !.left = IF @ > 0 THEN @ - 1 ELSE 0,
                              !.time_slice_left = @ - 1]
<1>1. /\ procs \in [DOMAIN procs -> PCB]
      /\ DOMAIN procs \subseteq Pids
      /\ queue \in Seq(Pids)
      /\ dev \in Device(Pids)
      /\ ReadyQueued(procs, queue)
      /\ Sound(dev, DOMAIN procs)
      /\ WaitersQueued(procs, dev)
  BY DEF Consistent, Typed
<1>2. TimeSlice \in Nat \ {0} /\ NoPid \notin DOMAIN procs
  BY <1>1, ProcessManagerAssumption, PidFacts
<1>3. pcb \in PCB
  BY <1>1
<1> DEFINE left == IF pcb.left > 0 THEN pcb.left - 1 ELSE 0
           slice == pcb.time_slice_left - 1
<1>8. /\ ran = [pcb EXCEPT !.left = left, !.time_slice_left = slice]
      /\ left \in Nat /\ slice \in Int /\ slice < TimeSlice
  BY <1>2, <1>3 DEF PCB
<1>9. /\ slice \in 1..TimeSlice => ran \in PCB
      /\ Requeued(ran) \in PCB
      /\ Requeued(ran).state = "Ready"
  <2> HIDE DEF left, slice, pcb, ran
  <2> QED BY <1>3, <1>8, PCBRun
<1>4. /\ ran.state = pcb.state
      /\ ran.blocked_reason = pcb.blocked_reason
      /\ ran.waiting_device = pcb.waiting_device
      /\ ran.time_slice_left = pcb.time_slice_left - 1
      /\ ran.left \in Nat
  BY <1>3 DEF PCB
<1>5. CASE /\ \E r \in Reaped(procs, queue, dev, p) :
                 CheckBlocked(r.procs, r.queue) /\ disk' = r.disk
           /\ cur_pid' = NoPid
  <2>1. PICK r \in Reaped(procs, queue, dev, p) :
          CheckBlocked(r.procs, r.queue) /\ disk' = r.disk
    BY <1>5
  <2>2. /\ Consistent(r.procs, r.queue, r.disk)
        /\ DOMAIN r.procs = DOMAIN procs \ {p}
        /\ \A q \in DOMAIN r.procs : r.procs[q].state # "Running"
    BY ReapedConsistent
  <2>3. /\ Consistent(processes', ready_queue', disk')
        /\ DOMAIN processes' = DOMAIN r.procs
        /\ \A q \in DOMAIN r.procs : processes'[q].state # "Running"
    BY <2>1, <2>2, CheckBlockedConsistent
  <2> QED BY <1>2, <1>5, <2>2, <2>3 DEF OnlyRuns, Account
<1>6. CASE /\ ran.time_slice_left <= 0
           /\ CheckBlocked([procs EXCEPT ![p] = Requeued(ran)], Append(queue, p))
           /\ disk' = dev
           /\ cur_pid' = NoPid
  <2> DEFINE next == [procs EXCEPT ![p] = Requeued(ran)]
  <2>1. Requeued(ran) \in PCB /\ Requeued(ran).state = "Ready"
    BY <1>9
  <2>2. /\ DOMAIN next = DOMAIN procs
        /\ next[p] = Requeued(ran)
        /\ \A q \in DOMAIN procs \ {p} : next[q] = procs[q]
    BY <1>1
  <2> HIDE DEF next
  <2>3. /\ Append(queue, p) \in Seq(Pids) /\ p \in Range(Append(queue, p))
        /\ \A x \in Range(queue) : x \in Range(Append(queue, p))
    BY <1>1, RangeOfAppend
  <2>4. Typed(next, Append(queue, p), dev)
    <3>1. next \in [DOMAIN procs -> PCB]
      BY <1>1, <2>1, <2>2 DEF next
    <3> QED BY <1>1, <2>2, <2>3, <3>1 DEF Typed
  <2>5. ReadyQueued(next, Append(queue, p)) /\ WaitersQueued(next, dev)
    BY <1>1, <2>1, <2>2, <2>3 DEF ReadyQueued, WaitersQueued, WaitsForDisk
  <2>6. Consistent(next, Append(queue, p), dev)
    BY <1>1, <2>2, <2>4, <2>5 DEF Consistent
  <2>7. \A q \in DOMAIN next : next[q].state # "Running"
    BY <2>1, <2>2
  <2>8. /\ Consistent(processes', ready_queue', disk')
        /\ DOMAIN processes' = DOMAIN procs
        /\ \A q \in DOMAIN procs : processes'[q].state # "Running"
    BY <1>6, <2>2, <2>6, <2>7, CheckBlockedConsistent DEF next
  <2> QED BY <1>2, <1>6, <2>8 DEF OnlyRuns, Account
<1>7. CASE /\ ran.time_slice_left > 0
           /\ CheckBlocked([procs EXCEPT ![p] = ran], queue)
           /\ disk' = dev
           /\ cur_pid' = IF ran.state = "Blocked" THEN NoPid ELSE p
  <2> DEFINE next == [procs EXCEPT ![p] = ran]
  <2>1. ran \in PCB
    <3>1. slice \in 1..TimeSlice
      BY <1>2, <1>4, <1>7, <1>8
    <3> QED BY <1>9, <3>1
  <2> HIDE DEF ran
  <2>2. /\ DOMAIN next = DOMAIN procs
        /\ next[p] = ran
        /\ \A q \in DOMAIN procs \ {p} : next[q] = procs[q]
        /\ next \in [DOMAIN procs -> PCB]
    BY <1>1, <2>1
  <2> HIDE DEF next
  <2>3. Typed(next, queue, dev)
    BY <1>1, <2>2 DEF Typed
  <2>4. ReadyQueued(next, queue) /\ WaitersQueued(next, dev)
    BY <1>1, <1>4, <2>2 DEF ReadyQueued, WaitersQueued, WaitsForDisk
  <2>5. Consistent(next, queue, dev)
    BY <1>1, <2>2, <2>3, <2>4 DEF Consistent
  <2>6. OnlyRuns(next, cur_pid')
    BY <1>2, <1>4, <1>7, <2>2 DEF OnlyRuns
  <2>7. /\ Consistent(processes', ready_queue', disk')
        /\ DOMAIN processes' = DOMAIN procs
        /\ \A q \in DOMAIN procs :
             processes'[q].state = "Running" <=> next[q].state = "Running"
    BY <1>7, <2>2, <2>5, CheckBlockedConsistent DEF next
  <2>8. OnlyRuns(processes', cur_pid')
    BY <2>2, <2>6, <2>7 DEF OnlyRuns
  <2> QED BY <1>7, <2>7, <2>8 DEF Account
<1> QED BY <1>5, <1>6, <1>7 DEF Account

-----------------------------------------------------------------------------
(* The actions.                                                             *)

\* The process that a tick works for runs, and alone.
LEMMA DispatchedConsistent ==
    ASSUME IInv, NEW d \in Dispatched
    PROVE  /\ Consistent(d.procs, d.queue, disk)
           /\ DOMAIN d.procs = Live
           /\ d.pid \in Live \cup {NoPid}
           /\ OnlyRuns(d.procs, d.pid)
           /\ NoPid \notin Live
<1>1. NoPid \notin Live
  BY PidFacts DEF IInv, Consistent, Typed, Live
<1>2. CASE cur_pid # NoPid
  <2>1. d = [pid |-> cur_pid, procs |-> processes, queue |-> ready_queue]
    BY <1>2 DEF Dispatched
  <2> QED BY <1>1, <1>2, <2>1 DEF IInv, Live
<1>3. CASE cur_pid = NoPid
  <2>1. d \in Scheduled(processes, ready_queue)
    BY <1>3 DEF Dispatched
  <2>2. Consistent(processes, ready_queue, disk) /\ OnlyRuns(processes, NoPid)
    BY <1>3 DEF IInv
  <2> QED BY <1>1, <2>1, <2>2, ScheduledConsistent DEF Live
<1> QED BY <1>2, <1>3

\* What Account establishes is the invariant.
LEMMA AccountInvariant ==
    ASSUME IInv,
           Consistent(processes', ready_queue', disk'),
           OnlyRuns(processes', cur_pid'),
           cur_pid' \in DOMAIN processes' \cup {NoPid},
           DOMAIN processes' \subseteq Live,
           next_pid' = next_pid
    PROVE  IInv'
  BY DEF IInv, Live

(***************************************************************************)
(* The instruction of a tick, taken apart from what follows it: d.pid ran, *)
(* and left `procs', `queue' and `dev' to be accounted for.  It changed    *)
(* itself only, or it passed the disk on.                                  *)
(***************************************************************************)
Executed(d, procs, queue, dev) ==
    /\ d.pid # NoPid
    /\ Consistent(procs, queue, dev)
    /\ DOMAIN procs = Live
    /\ d.pid \in Live
    /\ procs[d.pid].state \in {"Running", "Blocked"}
    /\ \A q \in Live \ {d.pid} : procs[q].state # "Running"
    /\ \/ queue = d.queue /\ \A q \in Live \ {d.pid} : procs[q] = d.procs[q]
       \/ \E heir \in Waiting(d.procs) \cup {NoPid} :
            procs = RouseHeir(d.procs, heir) /\ queue = PushHeir(d.queue, heir)
    /\ Account(d.pid, procs, queue, dev)

\* A tick that is not idle executes an instruction, one case for each kind.
LEMMA TickExecutes ==
    ASSUME IInv, Tick, ~IdleTick
    PROVE  \E d \in Dispatched : \E procs, queue, dev : Executed(d, procs, queue, dev)
<1>1. ASSUME NEW d \in Dispatched, d.pid # NoPid
      PROVE  /\ Consistent(d.procs, d.queue, disk)
             /\ d.procs \in [Live -> PCB]
             /\ DOMAIN d.procs = Live /\ Live \subseteq Pids
             /\ d.queue \in Seq(Pids) /\ disk \in Device(Pids)
             /\ d.pid \in Live /\ d.procs[d.pid].state = "Running"
             /\ \A q \in Live \ {d.pid} : d.procs[q].state # "Running"
  BY <1>1, DispatchedConsistent DEF OnlyRuns, Consistent, Typed
<1>2. CASE ComputeTick
  <2>1. PICK d \in Dispatched : d.pid # NoPid /\ Account(d.pid, d.procs, d.queue, disk)
    BY <1>2 DEF ComputeTick
  <2>2. Executed(d, d.procs, d.queue, disk)
    BY <1>1, <2>1 DEF Executed
  <2> QED BY <2>2
\* A process that goes to sleep or on wait while it runs.
<1>3. ASSUME NEW d \in Dispatched, d.pid # NoPid, NEW blocked \in PCB,
             blocked.state = "Blocked", NEW dev, dev \in Device(Pids), Sound(dev, Live),
             \A x \in Range(disk.wait_queue) : x \in Range(dev.wait_queue),
             WaitsForDisk(blocked) => d.pid \in Range(dev.wait_queue),
             Account(d.pid, [d.procs EXCEPT ![d.pid] = blocked], d.queue, dev)
      PROVE  \E procs : Executed(d, procs, d.queue, dev)
  <2> DEFINE procs == [d.procs EXCEPT ![d.pid] = blocked]
  <2>1. /\ procs \in [Live -> PCB] /\ DOMAIN procs = Live
        /\ procs[d.pid] = blocked
        /\ \A q \in Live \ {d.pid} : procs[q] = d.procs[q]
    BY <1>1, <1>3
  <2> HIDE DEF procs
  <2>2. Typed(procs, d.queue, dev)
    BY <1>1, <1>3, <2>1 DEF Typed
  <2>3. ReadyQueued(procs, d.queue)
    BY <1>1, <1>3, <2>1 DEF ReadyQueued, Consistent
  <2>4. WaitersQueued(procs, dev)
    BY <1>1, <1>3, <2>1 DEF WaitersQueued, Consistent
  <2>5. Consistent(procs, d.queue, dev)
    BY <1>3, <2>1, <2>2, <2>3, <2>4 DEF Consistent
  <2>6. Account(d.pid, procs, d.queue, dev)
    BY <1>3 DEF procs
  <2>7. Executed(d, procs, d.queue, dev)
    BY <1>1, <1>3, <2>1, <2>5, <2>6 DEF Executed
  <2> QED BY <2>7
<1>4. CASE SleepTick
  <2>1. PICK d \in Dispatched, duration \in Durations :
          /\ d.pid # NoPid
          /\ Account(d.pid, [d.procs EXCEPT ![d.pid] = PutToSleep(@, duration)],
                     d.queue, disk)
    BY <1>4 DEF SleepTick
  <2> DEFINE blocked == PutToSleep(d.procs[d.pid], duration)
  <2>2. d.procs[d.pid] \in PCB
    BY <1>1, <2>1
  <2>3. blocked \in PCB
    BY <2>2, PCBFacts
  <2>4. blocked.state = "Blocked" /\ ~WaitsForDisk(blocked)
    BY <2>2 DEF PutToSleep, WaitsForDisk, PCB
  <2>5. Account(d.pid, [d.procs EXCEPT ![d.pid] = blocked], d.queue, disk)
    BY <2>1
  <2>6. disk \in Device(Pids) /\ Sound(disk, Live)
    BY <1>1, <2>1 DEF Consistent
  <2> HIDE DEF blocked
  <2> QED BY <1>3, <2>1, <2>3, <2>4, <2>5, <2>6
<1>5. CASE DevRequestTick
  <2>1. PICK d \in Dispatched, dev \in DevIds :
          /\ d.pid # NoPid
          /\ Account(d.pid,
                     IF dev = Disk /\ Grants(disk, d.pid)
                     THEN d.procs
                     ELSE [d.procs EXCEPT ![d.pid] = PutOnWait(@, dev)],
                     d.queue,
                     IF dev = Disk THEN Requested(disk, d.pid) ELSE disk)
    BY <1>5 DEF DevRequestTick
  <2> DEFINE after == IF dev = Disk THEN Requested(disk, d.pid) ELSE disk
  <2>2. /\ Consistent(d.procs, d.queue, disk)
        /\ disk \in Device(Pids) /\ Sound(disk, Live)
        /\ Live \in SUBSET Pids /\ d.pid \in Live
        /\ d.procs[d.pid] \in PCB
    BY <1>1, <2>1 DEF Consistent
  <2>3. /\ after \in Device(Pids) /\ Sound(after, Live)
        /\ \A x \in Range(disk.wait_queue) : x \in Range(after.wait_queue)
        /\ dev = Disk /\ ~Grants(disk, d.pid) => d.pid \in Range(after.wait_queue)
    <3>1. CASE dev = Disk
      <4>1. after = Requested(disk, d.pid)
        BY <3>1
      <4> HIDE DEF after
      <4> QED BY <2>2, <4>1, PidFacts, RequestedProperties
    <3>2. CASE dev # Disk
      BY <2>2, <3>2
    <3> QED BY <3>1, <3>2
  <2>4. CASE dev = Disk /\ Grants(disk, d.pid)
    <3>1. Account(d.pid, d.procs, d.queue, after)
      BY <2>1, <2>4
    <3> HIDE DEF after
    <3>2. Typed(d.procs, d.queue, after) /\ WaitersQueued(d.procs, after)
      BY <2>2, <2>3 DEF Consistent, Typed, WaitersQueued
    <3>3. DOMAIN d.procs = Live
      BY <1>1, <2>1
    <3>4. Consistent(d.procs, d.queue, after)
      BY <2>2, <2>3, <3>2, <3>3 DEF Consistent
    <3>5. Executed(d, d.procs, d.queue, after)
      BY <1>1, <2>1, <3>1, <3>3, <3>4 DEF Executed
    <3> QED BY <3>5
  <2>5. CASE ~(dev = Disk /\ Grants(disk, d.pid))
    <3> DEFINE blocked == PutOnWait(d.procs[d.pid], dev)
    <3>1. blocked \in PCB
      BY <2>2, PCBFacts
    <3>2. blocked.state = "Blocked" /\ blocked.waiting_device = dev
      BY <2>2 DEF PutOnWait, PCB
    <3>3. Account(d.pid, [d.procs EXCEPT ![d.pid] = blocked], d.queue, after)
      BY <2>1, <2>5
    <3>4. WaitsForDisk(blocked) => d.pid \in Range(after.wait_queue)
      BY <2>3, <2>5, <3>2 DEF WaitsForDisk
    <3> HIDE DEF blocked, after
    <3> QED BY <1>3, <2>1, <2>3, <3>1, <3>2, <3>3, <3>4
  <2> QED BY <2>4, <2>5
<1>6. CASE DevReleaseTick
  <2>1. PICK d \in Dispatched :
          /\ d.pid # NoPid
          /\ IF disk.owner_pid = d.pid
             THEN \E after \in HandedOver(disk.wait_queue, Waiting(d.procs)) :
                    Account(d.pid, RouseHeir(d.procs, after.owner_pid),
                            PushHeir(d.queue, after.owner_pid), after)
             ELSE Account(d.pid, d.procs, d.queue, disk)
    BY <1>6 DEF DevReleaseTick
  <2>2. CASE disk.owner_pid # d.pid
    <3>1. Account(d.pid, d.procs, d.queue, disk)
      BY <2>1, <2>2
    <3>2. ComputeTick
      BY <2>1, <3>1 DEF ComputeTick
    <3> QED BY <1>2, <3>2
  <2>3. CASE disk.owner_pid = d.pid
    <3>1. PICK after \in HandedOver(disk.wait_queue, Waiting(d.procs)) :
            Account(d.pid, RouseHeir(d.procs, after.owner_pid),
                    PushHeir(d.queue, after.owner_pid), after)
      BY <2>1, <2>3
    <3> DEFINE queue == disk.wait_queue
               heir == after.owner_pid
               procs == RouseHeir(d.procs, heir)
               longer == PushHeir(d.queue, heir)
    <3>2. /\ d.procs \in [Live -> PCB] /\ DOMAIN d.procs = Live
          /\ Live \subseteq Pids
          /\ d.queue \in Seq(Pids)
          /\ ReadyQueued(d.procs, d.queue)
          /\ Sound(disk, Live)
          /\ WaitersQueued(d.procs, disk)
          /\ queue \in Seq(Pids) /\ NoRepeats(queue)
          /\ \A x \in Range(queue) : x \in Live
      <4>1. disk.wait_queue \in Seq(Pids)
        BY <1>1, <2>1 DEF Device
      <4> QED BY <1>1, <2>1, <4>1, RangeOfQueue DEF Consistent, Sound
    <3>3. /\ after \in Device(Pids)
          /\ Sound(after, Range(queue))
          /\ heir \in Waiting(d.procs) \cup {NoPid}
          /\ \A x \in Waiting(d.procs) : x \in Range(queue) =>
               x = heir \/ x \in Range(after.wait_queue)
      BY <3>1, <3>2, PidFacts, HandedOverProperties
    <3>4. /\ procs \in [Live -> PCB]
          /\ longer \in Seq(Pids)
          /\ ReadyQueued(procs, longer)
          /\ \A q \in Live :
               /\ q # heir => procs[q] = d.procs[q]
               /\ WaitsForDisk(procs[q]) => WaitsForDisk(d.procs[q]) /\ q # heir
               /\ procs[q].state = "Running" <=> d.procs[q].state = "Running"
      <4> HIDE DEF heir
      <4> QED BY <3>2, <3>3, RousingFacts
    <3>5. Account(d.pid, procs, longer, after)
      BY <3>1
    <3> HIDE DEF heir, procs, longer
    <3>6. DOMAIN procs = Live
      BY <3>4
    <3>7. Typed(procs, longer, after)
      BY <3>2, <3>3, <3>4, <3>6 DEF Typed
    <3>8. Sound(after, Live)
      BY <3>2, <3>3 DEF Sound
    <3>9. WaitersQueued(procs, after)
      BY <3>2, <3>3, <3>4, <3>6 DEF WaitersQueued, Waiting
    <3>10. Consistent(procs, longer, after)
      BY <3>4, <3>6, <3>7, <3>8, <3>9 DEF Consistent
    <3>11. /\ d.pid \in DOMAIN procs /\ procs[d.pid].state \in {"Running", "Blocked"}
           /\ \A q \in DOMAIN procs \ {d.pid} : procs[q].state # "Running"
      BY <1>1, <2>1, <3>4, <3>6
    <3>12. procs = RouseHeir(d.procs, heir) /\ longer = PushHeir(d.queue, heir)
      BY DEF procs, longer
    <3>13. Executed(d, procs, longer, after)
      BY <1>1, <2>1, <3>3, <3>5, <3>6, <3>10, <3>11, <3>12 DEF Executed
    <3> QED BY <3>13
  <2> QED BY <2>2, <2>3
<1> QED BY <1>2, <1>4, <1>5, <1>6 DEF Tick

\* tick(): idle, or an instruction with its accounting.
LEMMA TickInvariant == ASSUME IInv, Tick PROVE IInv'
<1>1. CASE IdleTick
  <2>1. PICK d \in Dispatched : /\ d.pid = NoPid
                                /\ CheckBlocked(d.procs, d.queue)
                                /\ UNCHANGED <<cur_pid, next_pid, disk>>
    BY <1>1 DEF IdleTick
  <2>2. /\ Consistent(d.procs, d.queue, disk) /\ DOMAIN d.procs = Live
        /\ OnlyRuns(d.procs, NoPid) /\ NoPid \notin Live
    BY <2>1, DispatchedConsistent
  <2>3. /\ Consistent(processes', ready_queue', disk)
        /\ DOMAIN processes' = Live
        /\ \A q \in Live : processes'[q].state # "Running"
    BY <2>1, <2>2, CheckBlockedConsistent DEF OnlyRuns
  <2>4. cur_pid = NoPid
    <3>1. cur_pid # NoPid => d.pid = cur_pid
      BY DEF Dispatched
    <3> QED BY <2>1, <3>1
  <2> QED BY <2>1, <2>2, <2>3, <2>4, AccountInvariant DEF OnlyRuns
<1>2. CASE ~IdleTick
  <2>1. PICK d \in Dispatched : \E procs, queue, dev : Executed(d, procs, queue, dev)
    BY <1>2, TickExecutes
  <2>2. PICK procs, queue, dev : Executed(d, procs, queue, dev)
    BY <2>1
  <2>3. /\ Consistent(processes', ready_queue', disk')
        /\ OnlyRuns(processes', cur_pid')
        /\ cur_pid' \in DOMAIN processes' \cup {NoPid}
        /\ DOMAIN processes' \subseteq Live
        /\ next_pid' = next_pid
    BY <2>2, AccountConsistent DEF Executed
  <2> QED BY <2>3, AccountInvariant
<1> QED BY <1>1, <1>2

\* create_process_with_program(): a fresh pid enters the ready queue.
LEMMA CreateInvariant == ASSUME IInv, NEW size \in Lengths, Create(size) PROVE IInv'
<1> DEFINE new == next_pid
<1>1. /\ processes \in [Live -> PCB] /\ Live \subseteq Pids
      /\ ready_queue \in Seq(Pids) /\ disk \in Device(Pids)
      /\ ReadyQueued(processes, ready_queue) /\ Sound(disk, Live)
      /\ WaitersQueued(processes, disk)
  BY DEF IInv, Consistent, Typed, Live
<1>2. /\ new \in Pids /\ new \notin Live /\ new # NoPid
      /\ next_pid' \in 1..MaxPid + 1
      /\ Live \cup {new} \subseteq 1..next_pid' - 1
  <2>1. MaxPid \in Nat /\ next_pid <= MaxPid /\ next_pid' = next_pid + 1
    BY ProcessManagerAssumption DEF Create
  <2> QED BY <2>1, PidFacts DEF IInv, Pids, NoPid
<1>3. NewPCB(size) \in PCB
  <2>1. size \in Nat /\ TimeSlice \in 1..TimeSlice /\ 0 \in Int
    BY ProcessManagerAssumption
  <2> QED BY <2>1 DEF NewPCB, PCB
<1>4. NewPCB(size).state = "Ready" /\ ~WaitsForDisk(NewPCB(size))
  BY DEF NewPCB, WaitsForDisk
<1>5. /\ processes' = [p \in Live \cup {new} |->
                         IF p = new THEN NewPCB(size) ELSE processes[p]]
      /\ ready_queue' = Append(ready_queue, new)
      /\ cur_pid' = cur_pid /\ disk' = disk
  BY DEF Create
<1> HIDE DEF new
<1>6. /\ Live' = Live \cup {new}
      /\ processes'[new] = NewPCB(size)
      /\ \A q \in Live : processes'[q] = processes[q]
  BY <1>2, <1>5 DEF Live
<1>7. /\ ready_queue' \in Seq(Pids)
      /\ \A x : x \in Range(ready_queue') <=> x = new \/ x \in Range(ready_queue)
  BY <1>1, <1>2, <1>5, RangeOfAppend
<1>8. Typed(processes', ready_queue', disk')
  BY <1>1, <1>2, <1>3, <1>5, <1>6, <1>7 DEF Typed, Live
<1>9. ReadyQueued(processes', ready_queue') /\ WaitersQueued(processes', disk')
  BY <1>1, <1>4, <1>5, <1>6, <1>7 DEF ReadyQueued, WaitersQueued, Live
<1>10. Sound(disk', Live')
  BY <1>1, <1>5, <1>6 DEF Sound
<1>11. OnlyRuns(processes', cur_pid')
  BY <1>2, <1>4, <1>5, <1>6 DEF IInv, OnlyRuns, Live
<1> QED BY <1>2, <1>5, <1>6, <1>8, <1>9, <1>10, <1>11 DEF IInv, Consistent, Live

\* terminate_process() of any process, the current one included.
LEMMA KillInvariant == ASSUME IInv, NEW p \in Pids, Kill(p) PROVE IInv'
<1>1. p \in Live /\ Consistent(processes, ready_queue, disk)
  BY DEF IInv, Kill
<1>2. PICK r \in Reaped(processes, ready_queue, disk, p) :
        processes' = r.procs /\ ready_queue' = r.queue /\ disk' = r.disk
  BY DEF Kill
<1>3. /\ Consistent(r.procs, r.queue, r.disk)
      /\ DOMAIN r.procs = Live \ {p}
      /\ \A q \in Live \ {p} :
           r.procs[q].state = "Running" <=> processes[q].state = "Running"
  BY <1>1, <1>2, ReapedConsistent DEF Live
<1>4. cur_pid' = (IF p = cur_pid THEN NoPid ELSE cur_pid) /\ next_pid' = next_pid
  BY DEF Kill
<1>5. NoPid \notin Live
  BY PidFacts DEF IInv, Consistent, Typed, Live
<1>6. OnlyRuns(processes', cur_pid')
  BY <1>2, <1>3, <1>4, <1>5 DEF IInv, OnlyRuns, Live
<1> QED BY <1>2, <1>3, <1>4, <1>6 DEF IInv, Live

\* run_process(): the preempted process is queued, the other one runs.
LEMMA RunInvariant == ASSUME IInv, NEW p \in Pids, Run(p) PROVE IInv'
<1>1. /\ processes \in [Live -> PCB] /\ Live \subseteq Pids
      /\ ready_queue \in Seq(Pids) /\ disk \in Device(Pids)
      /\ ReadyQueued(processes, ready_queue) /\ Sound(disk, Live)
      /\ WaitersQueued(processes, disk)
      /\ NoPid \notin Live
      /\ cur_pid \in Live \cup {NoPid}
      /\ \A q \in Live : processes[q].state = "Running" <=> q = cur_pid
  BY PidFacts DEF IInv, Consistent, Typed, OnlyRuns, Live
<1>2. /\ p \in Live /\ processes[p].state = "Ready" /\ p # cur_pid
      /\ cur_pid' = p /\ next_pid' = next_pid /\ disk' = disk
      /\ ready_queue' = IF cur_pid = NoPid THEN ready_queue
                        ELSE Append(ready_queue, cur_pid)
      /\ processes' = [q \in Live |->
           CASE q = p -> [processes[q] EXCEPT !.state = "Running"]
             [] q = cur_pid /\ q # p -> [processes[q] EXCEPT !.state = "Ready"]
             [] OTHER -> processes[q]]
  BY <1>1 DEF Run
<1>3. /\ Live' = Live
      /\ processes'[p] = [processes[p] EXCEPT !.state = "Running"]
      /\ cur_pid \in Live =>
           processes'[cur_pid] = [processes[cur_pid] EXCEPT !.state = "Ready"]
      /\ \A q \in Live \ {p, cur_pid} : processes'[q] = processes[q]
  BY <1>2 DEF Live
<1>4. processes'[p] \in PCB /\ processes'[p].state = "Running"
  BY <1>1, <1>2, <1>3 DEF PCB
<1>5. cur_pid \in Live =>
        processes'[cur_pid] \in PCB /\ processes'[cur_pid].state = "Ready"
  BY <1>1, <1>3 DEF PCB
<1>6. /\ ready_queue' \in Seq(Pids)
      /\ \A x : x \in Range(ready_queue) => x \in Range(ready_queue')
      /\ cur_pid \in Live => cur_pid \in Range(ready_queue')
  <2>1. CASE cur_pid = NoPid
    BY <1>1, <1>2, <2>1
  <2>2. CASE cur_pid # NoPid
    <3>1. cur_pid \in Pids /\ ready_queue' = Append(ready_queue, cur_pid)
      BY <1>1, <1>2, <2>2
    <3> QED BY <1>1, <3>1, RangeOfAppend
  <2> QED BY <2>1, <2>2
<1>7. \A q \in Live : processes'[q] \in PCB
  BY <1>1, <1>3, <1>4, <1>5
<1>8. processes' \in [Live -> PCB]
  BY <1>2, <1>7
<1>9. Typed(processes', ready_queue', disk')
  BY <1>1, <1>2, <1>3, <1>6, <1>8 DEF Typed, Live
<1>10. ReadyQueued(processes', ready_queue')
  BY <1>1, <1>3, <1>4, <1>6 DEF ReadyQueued, Live
<1>11. WaitersQueued(processes', disk')
  BY <1>1, <1>2, <1>3, <1>4, <1>5 DEF WaitersQueued, WaitsForDisk, Live
<1>12. OnlyRuns(processes', cur_pid')
  BY <1>1, <1>2, <1>3, <1>4, <1>5 DEF OnlyRuns, Live
<1> QED BY <1>1, <1>2, <1>3, <1>9, <1>10, <1>11, <1>12 DEF IInv, Consistent, Live

\* block_process(): a blocked current process dispatches another one.
LEMMA BlockInvariant ==
    ASSUME IInv, NEW p \in Pids, NEW duration \in Durations, Block(p, duration)
    PROVE  IInv'
<1> DEFINE blocked == PutToSleep(processes[p], duration)
           procs == [processes EXCEPT ![p] = blocked]
<1>1. /\ processes \in [Live -> PCB] /\ Live \subseteq Pids
      /\ ready_queue \in Seq(Pids) /\ disk \in Device(Pids)
      /\ ReadyQueued(processes, ready_queue) /\ Sound(disk, Live)
      /\ WaitersQueued(processes, disk)
      /\ NoPid \notin Live
      /\ cur_pid \in Live \cup {NoPid}
      /\ \A q \in Live : processes[q].state = "Running" <=> q = cur_pid
  BY PidFacts DEF IInv, Consistent, Typed, OnlyRuns, Live
<1>2. p \in Live /\ disk' = disk /\ next_pid' = next_pid
  BY DEF Block
<1>3. blocked \in PCB
  BY <1>1, <1>2, PCBFacts
<1>4. blocked.state = "Blocked" /\ blocked.blocked_reason = "Sleep"
  BY <1>1, <1>2 DEF PutToSleep, PCB
<1>5. IF p = cur_pid
      THEN \E d \in Scheduled(procs, ready_queue) :
             processes' = d.procs /\ ready_queue' = d.queue /\ cur_pid' = d.pid
      ELSE processes' = procs /\ ready_queue' = ready_queue /\ cur_pid' = cur_pid
  BY DEF Block
<1>6. procs = [processes EXCEPT ![p] = blocked]
  OBVIOUS
<1> HIDE DEF blocked, procs
<1>7. /\ DOMAIN procs = Live /\ procs \in [Live -> PCB]
      /\ procs[p] = blocked /\ \A q \in Live \ {p} : procs[q] = processes[q]
  BY <1>1, <1>2, <1>3, <1>6
<1>8. Typed(procs, ready_queue, disk)
  BY <1>1, <1>7 DEF Typed
<1>9. ReadyQueued(procs, ready_queue) /\ WaitersQueued(procs, disk)
  BY <1>1, <1>2, <1>4, <1>7 DEF ReadyQueued, WaitersQueued, WaitsForDisk, Live
<1>10. Consistent(procs, ready_queue, disk)
  BY <1>1, <1>7, <1>8, <1>9 DEF Consistent
<1>11. CASE p = cur_pid
  <2>1. PICK d \in Scheduled(procs, ready_queue) :
          processes' = d.procs /\ ready_queue' = d.queue /\ cur_pid' = d.pid
    BY <1>5, <1>11
  <2>2. OnlyRuns(procs, NoPid)
    BY <1>1, <1>4, <1>7, <1>11 DEF OnlyRuns
  <2>3. /\ Consistent(d.procs, d.queue, disk)
        /\ DOMAIN d.procs = Live
        /\ d.pid \in Live \cup {NoPid}
        /\ OnlyRuns(d.procs, d.pid)
    BY <1>7, <1>10, <2>1, <2>2, ScheduledConsistent
  <2> QED BY <1>2, <2>1, <2>3 DEF IInv, Live
<1>12. CASE p # cur_pid
  <2>1. processes' = procs /\ ready_queue' = ready_queue /\ cur_pid' = cur_pid
    BY <1>5, <1>12
  <2>2. OnlyRuns(procs, cur_pid)
    BY <1>1, <1>4, <1>7, <1>12 DEF OnlyRuns
  <2> QED BY <1>2, <1>7, <1>10, <2>1, <2>2 DEF IInv, Live
<1> QED BY <1>11, <1>12

\* wakeup_process(): the process leaves the device queue and is Ready.
LEMMA WakeupInvariant == ASSUME IInv, NEW p \in Pids, Wakeup(p) PROVE IInv'
<1> DEFINE roused == Roused(processes[p])
<1>1. /\ processes \in [Live -> PCB] /\ Live \in SUBSET Pids
      /\ ready_queue \in Seq(Pids) /\ disk \in Device(Pids)
      /\ ReadyQueued(processes, ready_queue) /\ Sound(disk, Live)
      /\ WaitersQueued(processes, disk)
      /\ cur_pid \in Live \cup {NoPid}
      /\ \A q \in Live : processes[q].state = "Running" <=> q = cur_pid
  BY DEF IInv, Consistent, Typed, OnlyRuns, Live
<1>2. /\ p \in Live /\ processes[p].state = "Blocked"
      /\ processes' = [processes EXCEPT ![p] = roused]
      /\ disk' \in Cancelled(disk, p)
      /\ ready_queue' = Append(ready_queue, p)
      /\ cur_pid' = cur_pid /\ next_pid' = next_pid
  BY DEF Wakeup
<1>3. roused \in PCB
  BY <1>1, <1>2, PCBFacts
<1>4. roused.state = "Ready"
  BY <1>1, <1>2 DEF Roused, PCB
<1> HIDE DEF roused
<1>5. /\ Live' = Live /\ processes' \in [Live -> PCB]
      /\ processes'[p] = roused /\ \A q \in Live \ {p} : processes'[q] = processes[q]
  BY <1>1, <1>2, <1>3 DEF Live
<1>6. /\ disk' \in Device(Pids) /\ Sound(disk', Live)
      /\ \A x : x \in Range(disk.wait_queue) /\ x # p => x \in Range(disk'.wait_queue)
  <2>1. PICK d \in Cancelled(disk, p) : disk' = d
    BY <1>2
  <2>2. /\ d \in Device(Pids) /\ Sound(d, Live)
        /\ d.owner_pid = disk.owner_pid
        /\ p # disk.owner_pid => Sound(d, Live \ {p})
        /\ \A x : x \in Range(disk.wait_queue) /\ x # p => x \in Range(d.wait_queue)
    <3>1. disk \in Device(Pids) /\ Sound(disk, Live) /\ Live \in SUBSET Pids
      BY <1>1
    <3>2. d \in Cancelled(disk, p)
      BY <2>1
    <3> QED BY <3>1, <3>2, CancelledProperties, ZenonT(30)
  <2> QED BY <2>1, <2>2
<1>7. /\ ready_queue' \in Seq(Pids)
      /\ \A x : x \in Range(ready_queue') <=> x = p \/ x \in Range(ready_queue)
  BY <1>1, <1>2, RangeOfAppend
<1>8. Typed(processes', ready_queue', disk')
  BY <1>1, <1>5, <1>6, <1>7 DEF Typed, Live
<1>9. ReadyQueued(processes', ready_queue') /\ WaitersQueued(processes', disk')
  BY <1>1, <1>4, <1>5, <1>6, <1>7 DEF ReadyQueued, WaitersQueued, WaitsForDisk, Live
<1>10. OnlyRuns(processes', cur_pid')
  BY <1>1, <1>2, <1>4, <1>5 DEF OnlyRuns, Live
<1> QED BY <1>1, <1>2, <1>5, <1>6, <1>8, <1>9, <1>10 DEF IInv, Consistent, Live

-----------------------------------------------------------------------------
(* The theorems.                                                            *)

\* Nothing runs, waits or owns anything when the simulator starts.
LEMMA InitInvariant == Init => IInv
<1>1. SUFFICES ASSUME Init PROVE IInv
  OBVIOUS
<1>2. /\ processes = <<>> /\ ready_queue = <<>> /\ cur_pid = NoPid
      /\ next_pid = 1 /\ disk = [owner_pid |-> NoPid, wait_queue |-> <<>>]
  BY <1>1 DEF Init, FreeDevice
<1>3. DOMAIN processes = {} /\ processes \in [{} -> PCB]
  BY <1>2
<1>4. <<>> \in Seq(Pids) /\ Len(<<>>) = 0
  OBVIOUS
<1>5. disk \in Device(Pids)
  BY <1>2, <1>4 DEF Device
<1>6. Sound(disk, {})
  BY <1>2, <1>4 DEF Sound, NoRepeats
<1>7. next_pid \in 1..MaxPid + 1
  BY <1>2, ProcessManagerAssumption
<1> QED BY <1>2, <1>3, <1>4, <1>5, <1>6, <1>7
        DEF IInv, Consistent, Typed, ReadyQueued, WaitersQueued, OnlyRuns, Live

\* IInv is inductive: every command and every tick preserves it.
LEMMA NextInvariant == IInv /\ [Next]_vars => IInv'
<1>1. SUFFICES ASSUME IInv, [Next]_vars PROVE IInv'
  OBVIOUS
<1>2. CASE Tick
  BY <1>1, <1>2, TickInvariant
<1>3. CASE \E size \in Lengths : Create(size)
  BY <1>1, <1>3, CreateInvariant
<1>4. CASE \E p \in Pids : Kill(p)
  BY <1>1, <1>4, KillInvariant
<1>5. CASE Steer
  BY <1>1, <1>5, RunInvariant, BlockInvariant, WakeupInvariant DEF Steer
<1>6. CASE UNCHANGED vars
  BY <1>1, <1>6 DEF vars, IInv, Live
<1> QED BY <1>1, <1>2, <1>3, <1>4, <1>5, <1>6 DEF Next

\* The inductive invariant contains the five properties.
LEMMA InvariantImplies ==
    IInv => TypeOK /\ RunningIsCurrent /\ ReadyIsQueued /\ NoLostWakeup /\ ClaimsAreSound
<1>1. SUFFICES ASSUME IInv
               PROVE  TypeOK /\ RunningIsCurrent /\ ReadyIsQueued /\ NoLostWakeup
                        /\ ClaimsAreSound
  OBVIOUS
<1>2. /\ processes \in [Live -> PCB] /\ Live \subseteq Pids
      /\ ready_queue \in Seq(Pids) /\ disk \in Device(Pids)
      /\ ReadyQueued(processes, ready_queue) /\ Sound(disk, Live)
      /\ WaitersQueued(processes, disk)
  BY <1>1 DEF IInv, Consistent, Typed, Live
<1>3. /\ disk.wait_queue \in Seq(Pids) /\ DOMAIN disk.wait_queue = 1..Len(disk.wait_queue)
      /\ \A x : x \in Range(disk.wait_queue) <=>
                  \E i \in 1..Len(disk.wait_queue) : disk.wait_queue[i] = x
  BY <1>2, RangeOfQueue, LenProperties DEF Device
<1>4. TypeOK
  BY <1>1, <1>2 DEF TypeOK, IInv, Device
<1>5. RunningIsCurrent
  BY <1>1 DEF RunningIsCurrent, IInv, OnlyRuns, Live
<1>6. ReadyIsQueued
  BY <1>2 DEF ReadyIsQueued, ReadyQueued, Live
<1>7. ClaimsAreSound
  <2>1. Range(disk.wait_queue) \subseteq Live \ {disk.owner_pid}
    BY <1>2, <1>3 DEF Sound
  <2> QED BY <1>2, <1>3, <2>1 DEF ClaimsAreSound, Sound, NoRepeats
<1>8. ASSUME NEW p \in Live, WaitsForDisk(processes[p])
      PROVE  p \in Range(disk.wait_queue) /\ disk.owner_pid \notin {NoPid, p}
  <2>1. p \in Range(disk.wait_queue)
    BY <1>2, <1>8 DEF WaitersQueued, Live
  <2>2. PICK i \in 1..Len(disk.wait_queue) : disk.wait_queue[i] = p
    BY <1>3, <2>1
  <2>3. disk.owner_pid # NoPid
    <3>1. Len(<<>>) = 0
      OBVIOUS
    <3>2. disk.wait_queue # <<>>
      BY <2>2, <3>1
    <3> QED BY <1>2, <3>2 DEF Sound
  <2> QED BY <1>2, <2>1, <2>2, <2>3 DEF Sound
<1> QED BY <1>4, <1>5, <1>6, <1>7, <1>8 DEF NoLostWakeup

\* The inductive invariant holds in every reachable state.
LEMMA Invariance == Spec => []IInv
  BY InitInvariant, NextInvariant, PTL DEF Spec

\* The process table, the queues and the device keep their types, whatever
\* the commands and however long the system runs.
THEOREM TypeCorrect == Spec => []TypeOK
  BY Invariance, InvariantImplies, PTL

\* Exactly the process that cur_pid_ names is Running.
THEOREM RunningIsCurrentHolds == Spec => []RunningIsCurrent
  BY Invariance, InvariantImplies, PTL

\* schedule() never drops the last entry of a Ready process.
THEOREM ReadyIsQueuedHolds == Spec => []ReadyIsQueued
  BY Invariance, InvariantImplies, PTL

\* Whoever is blocked on the disk is queued behind an owner.
THEOREM NoLostWakeupHolds == Spec => []NoLostWakeup
  BY Invariance, InvariantImplies, PTL

\* The claims on the disk are those of live processes, each once.
THEOREM ClaimsAreSoundHolds == Spec => []ClaimsAreSound
  BY Invariance, InvariantImplies, PTL
-----------------------------------------------------------------------------
(* How the disk changes hands: first come, first served, and only when its  *)
(* owner gives it up or goes.  Both are properties of steps.                *)

\* Nobody in `waiting' stands before x in the queue.
InOrder(queue, waiting, x) ==
    \A j \in 1..Len(queue) : queue[j] = x =>
        \A i \in 1..j - 1 : queue[i] \notin waiting

\* A hand-over serves the first of those who wait.
LEMMA HandedOverInOrder ==
    ASSUME NEW P, NoPid \notin P, NEW queue \in Seq(P), NoRepeats(queue),
           NEW waiting, NEW dev \in HandedOver(queue, waiting)
    PROVE  InOrder(queue, waiting, dev.owner_pid)
<1> DEFINE heirs == {i \in DOMAIN queue : queue[i] \in waiting}
<1>1. Len(queue) \in Nat /\ DOMAIN queue = 1..Len(queue)
  BY LenProperties
<1>2. CASE heirs = {}
  <2>1. \A i \in 1..Len(queue) : queue[i] \notin waiting
    BY <1>1, <1>2
  <2> QED BY <1>1, <2>1 DEF InOrder
<1>3. CASE heirs # {}
  <2>1. PICK k \in Firsts(heirs) : dev.owner_pid = queue[k]
    BY <1>3 DEF HandedOver
  <2>2. k \in 1..Len(queue) /\ \A i \in 1..Len(queue) : queue[i] \in waiting => k <= i
    BY <1>1, <2>1 DEF Firsts
  <2>3. \A j \in 1..Len(queue) : queue[j] = dev.owner_pid => j = k
    BY <2>1, <2>2 DEF NoRepeats
  <2> QED BY <1>1, <2>2, <2>3 DEF InOrder
<1> QED BY <1>2, <1>3

\* Removing p does not change the order of the others.
LEMMA WithoutInOrder ==
    ASSUME NEW P, NEW queue \in Seq(P), NEW p, NEW rest \in Without(queue, p),
           NEW waiting, p \notin waiting, NEW x, x # p, InOrder(rest, waiting, x)
    PROVE  InOrder(queue, waiting, x)
<1> DEFINE keep == {i \in DOMAIN queue : queue[i] # p}
<1>1. PICK w \in Ascending(keep) : rest = [k \in DOMAIN w |-> queue[w[k]]]
  BY DEF Without
<1>2. Len(queue) \in Nat /\ DOMAIN queue = 1..Len(queue)
  BY LenProperties
<1>3. keep \in SUBSET Int /\ IsFiniteSet(keep)
  <2>1. 1..Len(queue) \subseteq Int /\ IsFiniteSet(1..Len(queue))
    BY <1>2, FS_Interval
  <2> QED BY <1>2, <2>1, FS_Subset
<1>4. /\ w \in Seq(keep)
      /\ \A i \in keep : \E a \in 1..Len(w) : w[a] = i
  <2> HIDE DEF keep
  <2> QED BY <1>3, AscendingIsBijective
<1>5. Len(w) \in Nat /\ DOMAIN w = 1..Len(w)
  <2> HIDE DEF keep
  <2> QED BY <1>4, LenProperties
<1>6. \A a, b \in 1..Len(w) : a < b => w[a] < w[b]
  <2> HIDE DEF keep
  <2> QED BY <1>5 DEF Ascending
<1>7. SUFFICES ASSUME NEW j \in 1..Len(queue), queue[j] = x,
                      NEW i \in 1..j - 1, queue[i] \in waiting
               PROVE  FALSE
  BY DEF InOrder
<1>8. i \in keep /\ j \in keep /\ i < j
  BY <1>2, <1>7
<1>9. PICK a \in 1..Len(w), b \in 1..Len(w) : w[a] = i /\ w[b] = j
  <2> HIDE DEF keep
  <2> QED BY <1>4, <1>8
<1>10. a < b
  <2>1. a < b \/ a = b \/ b < a
    BY <1>5
  <2>2. ~(b < a) /\ a # b
    BY <1>2, <1>6, <1>8, <1>9
  <2> QED BY <2>1, <2>2
<1>11. Len(rest) = Len(w) /\ rest[a] = queue[i] /\ rest[b] = x
  BY <1>1, <1>5, <1>7, <1>9
<1>12. a \in 1..b - 1
  BY <1>5, <1>10
<1> QED BY <1>7, <1>11, <1>12 DEF InOrder

\* Giving everything up passes on what p owns, in order, and no more.
LEMMA ReleasedAllInOrder ==
    ASSUME NEW P, NoPid \notin P, NEW dev \in Device(P), NoRepeats(dev.wait_queue),
           NEW p \in P, NEW waiting, p \notin waiting,
           NEW after \in ReleasedAll(dev, p, waiting)
    PROVE  \/ after.owner_pid = dev.owner_pid
           \/ dev.owner_pid = p /\ InOrder(dev.wait_queue, waiting, after.owner_pid)
<1>1. dev.wait_queue \in Seq(P)
  BY DEF Device
<1>2. PICK rest \in Without(dev.wait_queue, p) :
        after \in IF dev.owner_pid = p
                 THEN HandedOver(rest, waiting)
                 ELSE {[dev EXCEPT !.wait_queue = rest]}
  BY DEF ReleasedAll
<1>3. CASE dev.owner_pid = p
  <2>1. rest \in Seq(P) /\ NoRepeats(rest) /\ after \in HandedOver(rest, waiting)
    BY <1>1, <1>2, <1>3, WithoutProperties
  <2>2. /\ InOrder(rest, waiting, after.owner_pid)
        /\ after.owner_pid \in waiting \cup {NoPid}
    BY <2>1, HandedOverInOrder, HandedOverProperties
  <2>3. after.owner_pid # p
    BY <2>2
  <2> QED BY <1>1, <1>2, <1>3, <2>2, <2>3, WithoutInOrder
<1>4. CASE dev.owner_pid # p
  BY <1>2, <1>4 DEF Device
<1> QED BY <1>3, <1>4

\* A tick whose instruction leaves the device as `dev' changes the owner
\* only if the process that ran completed and owned it.
LEMMA AccountService ==
    ASSUME NEW procs, NEW queue, NEW dev \in Device(Pids), NoRepeats(dev.wait_queue),
           NEW p \in Pids, Account(p, procs, queue, dev)
    PROVE  \/ disk'.owner_pid = dev.owner_pid
           \/ /\ dev.owner_pid = p
              /\ InOrder(dev.wait_queue, Waiting(procs) \ {p}, disk'.owner_pid)
<1> DEFINE waiting == Waiting(procs) \ {p}
<1>1. disk' = dev \/ \E r \in Reaped(procs, queue, dev, p) : disk' = r.disk
  BY DEF Account
<1>2. ASSUME NEW r \in Reaped(procs, queue, dev, p)
      PROVE  r.disk \in ReleasedAll(dev, p, waiting)
  BY DEF Reaped
<1>3. p \notin waiting
  OBVIOUS
<1>4. CASE \E r \in Reaped(procs, queue, dev, p) : disk' = r.disk
  <2>1. PICK after \in ReleasedAll(dev, p, waiting) : disk' = after
    BY <1>2, <1>4
  <2> HIDE DEF waiting
  <2>2. \/ after.owner_pid = dev.owner_pid
        \/ dev.owner_pid = p /\ InOrder(dev.wait_queue, waiting, after.owner_pid)
    BY <1>3, <2>1, PidFacts, ReleasedAllInOrder
  <2> QED BY <2>1, <2>2 DEF waiting
<1> QED BY <1>1, <1>4

\* schedule() changes nobody who waits for the disk.
LEMMA DispatchedWaiting ==
    ASSUME IInv, NEW d \in Dispatched
    PROVE  /\ Waiting(d.procs) = Waiting(processes)
           /\ d.procs \in [Live -> PCB]
           /\ Live \subseteq Pids
           /\ d.pid # NoPid => /\ d.pid \in Pids
                               /\ d.pid \in Live
                               /\ d.pid \notin Waiting(processes)
<1>1. /\ processes \in [Live -> PCB] /\ d.procs \in [Live -> PCB]
      /\ Live \subseteq Pids
      /\ d.pid \in Live \cup {NoPid}
      /\ OnlyRuns(d.procs, d.pid)
  BY DispatchedConsistent DEF IInv, Consistent, Typed, Live
<1>2. \A q \in Live : WaitsForDisk(d.procs[q]) <=> WaitsForDisk(processes[q])
  <2>1. d.procs = processes \/ d \in Scheduled(processes, ready_queue)
    BY DEF Dispatched
  <2>2. CASE d.procs = processes
    BY <2>2
  <2>3. CASE d \in Scheduled(processes, ready_queue)
    <3>1. \/ d.procs = processes
          \/ \E p \in Live : /\ processes[p].state = "Ready"
                             /\ d.procs = [processes EXCEPT ![p].state = "Running"]
      <4> DEFINE runnable == {i \in DOMAIN ready_queue :
                                /\ ready_queue[i] \in DOMAIN processes
                                /\ processes[ready_queue[i]].state = "Ready"}
      <4>1. CASE runnable = {}
        BY <2>3, <4>1 DEF Scheduled
      <4>2. CASE runnable # {}
        <5>1. PICK i \in Firsts(runnable) :
                d = [pid   |-> ready_queue[i],
                     procs |-> [processes EXCEPT ![ready_queue[i]].state = "Running"],
                     queue |-> SubSeq(ready_queue, i + 1, Len(ready_queue))]
          BY <2>3, <4>2 DEF Scheduled
        <5>2. /\ ready_queue[i] \in Live
              /\ processes[ready_queue[i]].state = "Ready"
          BY DEF Firsts, Live
        <5> QED BY <5>1, <5>2
      <4> QED BY <4>1, <4>2
    <3>2. ASSUME NEW p \in Live, processes[p].state = "Ready",
                 d.procs = [processes EXCEPT ![p].state = "Running"]
          PROVE  \A q \in Live : WaitsForDisk(d.procs[q]) <=> WaitsForDisk(processes[q])
      <4>1. /\ d.procs[p] = [processes[p] EXCEPT !.state = "Running"]
            /\ \A q \in Live \ {p} : d.procs[q] = processes[q]
        BY <1>1, <3>2
      <4>2. d.procs[p].state = "Running"
        BY <1>1, <4>1 DEF PCB
      <4> QED BY <3>2, <4>1, <4>2 DEF WaitsForDisk
    <3> QED BY <3>1, <3>2
  <2> QED BY <2>1, <2>2, <2>3
<1>3. Waiting(d.procs) = Waiting(processes)
  BY <1>1, <1>2 DEF Waiting
<1>4. ASSUME d.pid # NoPid
      PROVE  d.pid \in Live /\ d.procs[d.pid].state = "Running"
  BY <1>1, <1>4 DEF OnlyRuns
<1>5. d.pid # NoPid => d.pid \notin Waiting(d.procs)
  BY <1>4 DEF Waiting, WaitsForDisk
<1> QED BY <1>1, <1>3, <1>4, <1>5

\* What the two properties say of one step: the disk stays with its owner,
\* or it was free, or its owner ran or is gone and the first waiter has it.
Service ==
    \/ disk'.owner_pid = disk.owner_pid
    \/ disk.owner_pid = NoPid
    \/ /\ \/ disk.owner_pid \notin DOMAIN processes'
          \/ \E d \in Dispatched : d.pid = disk.owner_pid
       /\ InOrder(disk.wait_queue, Waiting(processes) \ {disk.owner_pid},
                  disk'.owner_pid)

\* A tick, whatever the instruction, serves in order.
LEMMA TickService == ASSUME IInv, Tick PROVE Service
<1>1. disk \in Device(Pids) /\ disk.wait_queue \in Seq(Pids) /\ NoRepeats(disk.wait_queue)
  BY DEF IInv, Consistent, Typed, Sound, Device
\* An instruction that leaves the disk alone.
<1>2. ASSUME NEW d \in Dispatched, d.pid # NoPid, NEW procs, NEW queue,
             Waiting(procs) \ {d.pid} = Waiting(processes) \ {d.pid},
             Account(d.pid, procs, queue, disk)
      PROVE  Service
  <2>1. d.pid \in Pids
    BY <1>2, DispatchedWaiting
  <2>2. \/ disk'.owner_pid = disk.owner_pid
        \/ /\ disk.owner_pid = d.pid
           /\ InOrder(disk.wait_queue, Waiting(procs) \ {d.pid}, disk'.owner_pid)
    BY <1>1, <1>2, <2>1, AccountService
  <2> QED BY <1>2, <2>2 DEF Service
\* A process that blocks was not waiting and is the only one to change.
<1>3. ASSUME NEW d \in Dispatched, d.pid # NoPid, NEW blocked
      PROVE  Waiting([d.procs EXCEPT ![d.pid] = blocked]) \ {d.pid}
               = Waiting(processes) \ {d.pid}
  <2> DEFINE procs == [d.procs EXCEPT ![d.pid] = blocked]
  <2>1. Waiting(d.procs) = Waiting(processes) /\ d.procs \in [Live -> PCB]
    BY DispatchedWaiting
  <2>2. /\ DOMAIN procs = DOMAIN d.procs
        /\ \A q \in DOMAIN d.procs : q # d.pid => procs[q] = d.procs[q]
    BY <2>1
  <2> HIDE DEF procs
  <2>3. Waiting(procs) \ {d.pid} = Waiting(d.procs) \ {d.pid}
    BY <2>2 DEF Waiting
  <2> QED BY <2>1, <2>3 DEF procs
<1>4. CASE IdleTick
  BY <1>4 DEF IdleTick, Service
<1>5. CASE ComputeTick
  <2>1. PICK d \in Dispatched : d.pid # NoPid /\ Account(d.pid, d.procs, d.queue, disk)
    BY <1>5 DEF ComputeTick
  <2> QED BY <1>2, <2>1, DispatchedWaiting
<1>6. CASE SleepTick
  <2>1. PICK d \in Dispatched, duration \in Durations :
          /\ d.pid # NoPid
          /\ Account(d.pid, [d.procs EXCEPT ![d.pid] = PutToSleep(@, duration)],
                     d.queue, disk)
    BY <1>6 DEF SleepTick
  <2> DEFINE blocked == PutToSleep(d.procs[d.pid], duration)
  <2>2. Account(d.pid, [d.procs EXCEPT ![d.pid] = blocked], d.queue, disk)
    BY <2>1
  <2> HIDE DEF blocked
  <2> QED BY <1>2, <1>3, <2>1, <2>2
<1>7. CASE DevRequestTick
  <2>1. PICK d \in Dispatched, dev \in DevIds :
          /\ d.pid # NoPid
          /\ Account(d.pid,
                     IF dev = Disk /\ Grants(disk, d.pid)
                     THEN d.procs
                     ELSE [d.procs EXCEPT ![d.pid] = PutOnWait(@, dev)],
                     d.queue,
                     IF dev = Disk THEN Requested(disk, d.pid) ELSE disk)
    BY <1>7 DEF DevRequestTick
  <2> DEFINE procs == IF dev = Disk /\ Grants(disk, d.pid)
                      THEN d.procs
                      ELSE [d.procs EXCEPT ![d.pid] = PutOnWait(@, dev)]
             after == IF dev = Disk THEN Requested(disk, d.pid) ELSE disk
  <2>2. Account(d.pid, procs, d.queue, after)
    BY <2>1
  <2>3. Waiting(procs) \ {d.pid} = Waiting(processes) \ {d.pid}
    BY <1>3, <2>1, DispatchedWaiting
  <2>4. /\ d.pid \in Pids /\ d.pid \in Live /\ Live \in SUBSET Pids
        /\ disk \in Device(Pids) /\ Sound(disk, Live)
    BY <1>1, <2>1, DispatchedWaiting DEF IInv, Consistent, Live
  <2>5. CASE disk.owner_pid = NoPid
    BY <2>5 DEF Service
  <2>6. CASE disk.owner_pid = d.pid \/ dev # Disk
    <3>1. after = disk
      BY <2>1, <2>6 DEF Requested, NoPid
    <3> HIDE DEF procs, after
    <3> QED BY <1>2, <2>1, <2>2, <2>3, <3>1
  <2>7. CASE disk.owner_pid \notin {NoPid, d.pid} /\ dev = Disk
    <3>1. after = Requested(disk, d.pid)
      BY <2>7
    <3> HIDE DEF procs, after
    <3>2. /\ after \in Device(Pids) /\ NoRepeats(after.wait_queue)
          /\ after.owner_pid = disk.owner_pid
      <4>1. after \in Device(Pids) /\ Sound(after, Live)
        BY <2>4, <3>1, PidFacts, RequestedProperties
      <4>2. after.owner_pid = disk.owner_pid
        BY <2>4, <2>7, <3>1 DEF Requested, Device
      <4> QED BY <4>1, <4>2 DEF Sound
    <3>3. disk'.owner_pid = after.owner_pid \/ after.owner_pid = d.pid
      BY <2>2, <2>4, <3>2, AccountService
    <3> QED BY <2>7, <3>2, <3>3 DEF Service
  <2> QED BY <2>5, <2>6, <2>7
<1>8. CASE DevReleaseTick
  <2>1. PICK d \in Dispatched :
          /\ d.pid # NoPid
          /\ IF disk.owner_pid = d.pid
             THEN \E after \in HandedOver(disk.wait_queue, Waiting(d.procs)) :
                    Account(d.pid, RouseHeir(d.procs, after.owner_pid),
                            PushHeir(d.queue, after.owner_pid), after)
             ELSE Account(d.pid, d.procs, d.queue, disk)
    BY <1>8 DEF DevReleaseTick
  <2>2. /\ Waiting(d.procs) = Waiting(processes)
        /\ d.pid \in Pids /\ d.pid \notin Waiting(processes)
    BY <2>1, DispatchedWaiting
  <2>3. CASE disk.owner_pid # d.pid
    <3>1. Account(d.pid, d.procs, d.queue, disk)
      BY <2>1, <2>3
    <3> QED BY <1>2, <2>1, <2>2, <3>1
  <2>4. CASE disk.owner_pid = d.pid
    <3>1. PICK after \in HandedOver(disk.wait_queue, Waiting(processes)) :
            Account(d.pid, RouseHeir(d.procs, after.owner_pid),
                    PushHeir(d.queue, after.owner_pid), after)
      BY <2>1, <2>2, <2>4
    <3>2. /\ after \in Device(Pids) /\ NoRepeats(after.wait_queue)
          /\ after.owner_pid \in Waiting(processes) \cup {NoPid}
      BY <1>1, <3>1, PidFacts, HandedOverProperties DEF Sound
    <3>3. InOrder(disk.wait_queue, Waiting(processes), after.owner_pid)
      BY <1>1, <3>1, PidFacts, HandedOverInOrder
    <3>4. disk'.owner_pid = after.owner_pid \/ after.owner_pid = d.pid
      BY <2>2, <3>1, <3>2, AccountService
    <3>5. disk'.owner_pid = after.owner_pid
      BY <2>1, <2>2, <3>2, <3>4
    <3> QED BY <2>4, <3>3, <3>5 DEF Service, InOrder
  <2> QED BY <2>3, <2>4
<1> QED BY <1>4, <1>5, <1>6, <1>7, <1>8 DEF Tick

\* Every step serves in order.  Of the commands only a kill can pass the
\* disk on, and a wake-up can only shorten its queue.
LEMMA NextService == ASSUME IInv, [Next]_vars PROVE Service
<1>1. /\ disk \in Device(Pids) /\ NoRepeats(disk.wait_queue)
      /\ Sound(disk, Live) /\ Live \in SUBSET Pids
  BY DEF IInv, Consistent, Typed, Sound, Live
<1>2. CASE Tick
  BY <1>2, TickService
<1>3. CASE disk' = disk
  BY <1>3 DEF Service
<1>4. ASSUME NEW p \in Pids, Kill(p) PROVE Service
  <2> DEFINE waiting == Waiting(processes) \ {p}
  <2>1. PICK r \in Reaped(processes, ready_queue, disk, p) :
          processes' = r.procs /\ disk' = r.disk
    BY <1>4 DEF Kill
  <2>2. PICK after \in ReleasedAll(disk, p, waiting) : r.disk = after
    BY <2>1 DEF Reaped
  <2>3. p \notin waiting
    OBVIOUS
  <2>4. p \in DOMAIN processes /\ Consistent(processes, ready_queue, disk)
    BY <1>4 DEF Kill, Live, IInv
  <2>5. DOMAIN processes' = DOMAIN processes \ {p}
    BY <2>1, <2>4, ReapedConsistent
  <2> HIDE DEF waiting
  <2>6. \/ after.owner_pid = disk.owner_pid
        \/ disk.owner_pid = p /\ InOrder(disk.wait_queue, waiting, after.owner_pid)
    BY <1>1, <2>2, <2>3, PidFacts, ReleasedAllInOrder
  <2> QED BY <2>1, <2>2, <2>5, <2>6 DEF waiting, Service
<1>5. ASSUME NEW p \in Pids, Wakeup(p) PROVE Service
  <2>1. PICK after \in Cancelled(disk, p) : disk' = after
    BY <1>5 DEF Wakeup
  <2>2. after.owner_pid = disk.owner_pid
    BY <1>1, <2>1, CancelledProperties
  <2> QED BY <2>1, <2>2 DEF Service
<1>6. \/ Tick \/ disk' = disk
      \/ \E p \in Pids : Kill(p) \/ Wakeup(p)
  BY DEF Next, Steer, Create, Run, Block, vars
<1> QED BY <1>2, <1>3, <1>4, <1>5, <1>6

\* The disk is handed on in the order of its queue: whoever gets it had
\* nobody before it who was blocked on the disk.
THEOREM FifoServiceHolds == Spec => FifoService
<1>1. ASSUME IInv, [Next]_vars
      PROVE  \A j \in DOMAIN disk.wait_queue :
               disk'.owner_pid = disk.wait_queue[j] =>
                 \A i \in 1..j - 1 : disk.wait_queue[i] \notin Waiting(processes)
  <2>1. Service
    BY <1>1, NextService
  <2>2. /\ disk.wait_queue \in Seq(Pids) /\ Sound(disk, Live)
    BY <1>1 DEF IInv, Consistent, Typed, Device, Live
  <2>3. DOMAIN disk.wait_queue = 1..Len(disk.wait_queue) /\ Len(disk.wait_queue) \in Nat
    BY <2>2, LenProperties
  <2>4. SUFFICES ASSUME NEW j \in 1..Len(disk.wait_queue),
                        disk'.owner_pid = disk.wait_queue[j],
                        NEW i \in 1..j - 1, disk.wait_queue[i] \in Waiting(processes)
                 PROVE  FALSE
    BY <2>3
  <2>5. i \in 1..Len(disk.wait_queue)
    BY <2>3
  <2>6. disk'.owner_pid # disk.owner_pid
    BY <2>2, <2>4 DEF Sound
  <2>7. disk.owner_pid # NoPid
    <3>1. Len(<<>>) = 0
      OBVIOUS
    <3> QED BY <2>2, <2>3, <3>1 DEF Sound
  <2>8. disk.wait_queue[i] \in Waiting(processes) \ {disk.owner_pid}
    BY <2>2, <2>4, <2>5 DEF Sound
  <2> QED BY <2>1, <2>4, <2>6, <2>7, <2>8 DEF Service, InOrder
<1> QED BY <1>1, Invariance, PTL DEF Spec, FifoService

\* Nobody loses the disk to another process: the owner changes only by what
\* the owner itself does, or when it is removed.
THEOREM OwnerKeepsDiskHolds == Spec => OwnerKeepsDisk
<1>1. ASSUME IInv, [Next]_vars
      PROVE  disk'.owner_pid # disk.owner_pid =>
               \/ disk.owner_pid = NoPid
               \/ disk.owner_pid \notin DOMAIN processes'
               \/ \E d \in Dispatched : d.pid = disk.owner_pid
  BY <1>1, NextService DEF Service
<1> QED BY <1>1, Invariance, PTL DEF Spec, OwnerKeepsDisk
=============================================================================
