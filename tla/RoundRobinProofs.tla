-------------------------- MODULE RoundRobinProofs -------------------------
(***************************************************************************)
(* The scheduler is fair in the sense of round robin: while a process is   *)
(* Ready, no process that the user left alone begins two turns.            *)
(*                                                                         *)
(* Whoever was not steered stands in the ready queue once while it is      *)
(* Ready, and not at all while it is not.  So when it begins a turn it     *)
(* leaves the queue, comes back behind all who are Ready, and each of them *)
(* is served before it.  A tick changes table and queue several times; the *)
(* lemmas say what each change does to the order of the queue.             *)
(***************************************************************************)
EXTENDS MCRoundRobin, ProcessManagerProofs

\* p stands in the queue at most once, and only while it is Ready or when
\* it has finished.
InLine(procs, queue, p) ==
    /\ \A i, j \in 1..Len(queue) : queue[i] = p /\ queue[j] = p => i = j
    /\ p \in DOMAIN procs /\ procs[p].state # "Ready" =>
         \A i \in 1..Len(queue) : queue[i] # p

\* Some entry of q comes before all of p.
Before(queue, q, p) ==
    \E i \in 1..Len(queue) :
        queue[i] = q /\ \A j \in 1..Len(queue) : queue[j] = p => i < j

\* The queue only grows, by members of P.
Extended(queue, longer, P) ==
    /\ Len(queue) <= Len(longer)
    /\ \A i \in 1..Len(longer) :
         IF i <= Len(queue) THEN longer[i] = queue[i] ELSE longer[i] \in P

\* Those who are Ready afterwards and were there before.
ReadyFrom(procs, next) ==
    /\ DOMAIN next \subseteq DOMAIN procs
    /\ \A q \in DOMAIN next : next[q].state # "Ready" => procs[q].state # "Ready"

-----------------------------------------------------------------------------
(* Queues.                                                                  *)

\* A queue that only grows keeps who is before whom.
LEMMA ExtendedBefore ==
    ASSUME NEW S, NEW queue \in Seq(S), NEW longer \in Seq(S), NEW P,
           Extended(queue, longer, P), NEW q, NEW p, Before(queue, q, p)
    PROVE  Before(longer, q, p)
<1>1. Len(queue) \in Nat /\ Len(longer) \in Nat /\ Len(queue) <= Len(longer)
  BY LenProperties DEF Extended
<1>2. PICK i \in 1..Len(queue) :
        queue[i] = q /\ \A j \in 1..Len(queue) : queue[j] = p => i < j
  BY DEF Before
<1>3. i \in 1..Len(longer) /\ longer[i] = q
  BY <1>1, <1>2 DEF Extended
<1>4. ASSUME NEW j \in 1..Len(longer), longer[j] = p PROVE i < j
  BY <1>1, <1>2, <1>4 DEF Extended
<1> QED BY <1>3, <1>4 DEF Before

\* Growing twice is growing.
LEMMA ExtendedTwice ==
    ASSUME NEW S, NEW queue \in Seq(S), NEW longer \in Seq(S), NEW longest \in Seq(S),
           NEW P, NEW Q \in SUBSET P,
           Extended(queue, longer, P), Extended(longer, longest, Q)
    PROVE  Extended(queue, longest, P)
<1>1. Len(queue) \in Nat /\ Len(longer) \in Nat /\ Len(longest) \in Nat
  BY LenProperties
<1>2. ASSUME NEW i \in 1..Len(longest)
      PROVE  IF i <= Len(queue) THEN longest[i] = queue[i] ELSE longest[i] \in P
  <2>1. CASE i <= Len(queue)
    <3>1. i \in 1..Len(longer) /\ longer[i] = queue[i]
      BY <1>1, <2>1 DEF Extended
    <3> QED BY <1>1, <2>1, <3>1 DEF Extended
  <2>2. CASE ~(i <= Len(queue)) /\ i <= Len(longer)
    <3>1. i \in 1..Len(longer) /\ longer[i] \in P
      BY <1>1, <2>2 DEF Extended
    <3> QED BY <2>2, <3>1 DEF Extended
  <2>3. CASE ~(i <= Len(longer))
    BY <1>1, <2>3 DEF Extended
  <2> QED BY <1>1, <2>1, <2>2, <2>3
<1> QED BY <1>1, <1>2 DEF Extended

\* Appending a member of P, or nothing, is growing.
LEMMA ExtendedByOne ==
    ASSUME NEW S, NEW queue \in Seq(S), NEW x \in S, NEW P, x \in P
    PROVE  /\ Extended(queue, Append(queue, x), P)
           /\ Extended(queue, queue, P)
           /\ Append(queue, x) \in Seq(S)
<1>1. Len(queue) \in Nat
  BY LenProperties
<1> QED BY <1>1 DEF Extended

\* x joins at the end; if it is p itself, p stood nowhere and is Ready now.
LEMMA Joined ==
    ASSUME NEW S, NEW queue \in Seq(S), NEW procs, NEW next, NEW p, InLine(procs, queue, p),
           NEW x \in S,
           x = p => \A i \in 1..Len(queue) : queue[i] # p,
           x = p /\ p \in DOMAIN next => next[p].state = "Ready",
           x # p /\ p \in DOMAIN next /\ next[p].state # "Ready" =>
             p \in DOMAIN procs /\ procs[p].state # "Ready"
    PROVE  InLine(next, Append(queue, x), p)
<1>1. /\ Len(queue) \in Nat
      /\ Len(Append(queue, x)) = Len(queue) + 1
      /\ Append(queue, x)[Len(queue) + 1] = x
      /\ \A i \in 1..Len(queue) : Append(queue, x)[i] = queue[i]
  BY LenProperties
<1>2. \A i : i \in 1..Len(queue) + 1 <=> i = Len(queue) + 1 \/ i \in 1..Len(queue)
  BY <1>1
<1>3. CASE x = p
  BY <1>1, <1>2, <1>3 DEF InLine
<1>4. CASE x # p
  BY <1>1, <1>2, <1>4 DEF InLine
<1> QED BY <1>3, <1>4

\* Nobody but x becomes Ready, who joins at the end.
LEMMA JoinInLine ==
    ASSUME NEW S, NEW queue \in Seq(S), NEW procs, NEW next, NEW p, InLine(procs, queue, p),
           NEW x \in S, x \in DOMAIN procs, procs[x].state # "Ready",
           DOMAIN next \subseteq DOMAIN procs,
           \A q \in DOMAIN next \ {x} :
             next[q].state # "Ready" => procs[q].state # "Ready",
           x \in DOMAIN next => next[x].state = "Ready"
    PROVE  InLine(next, Append(queue, x), p)
<1>1. x = p => \A i \in 1..Len(queue) : queue[i] # p
  BY DEF InLine
<1> QED BY <1>1, Joined

\* Who only leaves, or only becomes Ready, still stands where it stood.
LEMMA StayInLine ==
    ASSUME NEW queue, NEW procs, NEW next, NEW p, InLine(procs, queue, p),
           ReadyFrom(procs, next)
    PROVE  InLine(next, queue, p)
  BY DEF InLine, ReadyFrom

-----------------------------------------------------------------------------
(* The operations that a tick is made of.                                   *)

\* The new owner of the device was not Ready, and queues at the end.
LEMMA RousedInLine ==
    ASSUME NEW procs, NEW queue \in Seq(Pids), NEW p, InLine(procs, queue, p),
           procs \in [DOMAIN procs -> PCB], DOMAIN procs \subseteq Pids,
           NEW heir \in Waiting(procs) \cup {NoPid}
    PROVE  /\ InLine(RouseHeir(procs, heir), PushHeir(queue, heir), p)
           /\ Extended(queue, PushHeir(queue, heir), DOMAIN procs)
           /\ PushHeir(queue, heir) \in Seq(Pids)
<1>1. CASE heir = NoPid
  <2>1. RouseHeir(procs, heir) = procs /\ PushHeir(queue, heir) = queue
    BY <1>1 DEF RouseHeir, PushHeir
  <2>2. Extended(queue, queue, DOMAIN procs)
    BY LenProperties DEF Extended
  <2> QED BY <2>1, <2>2
<1>2. CASE heir # NoPid
  <2>1. heir \in DOMAIN procs /\ procs[heir].state # "Ready"
    BY <1>2 DEF Waiting, WaitsForDisk
  <2> DEFINE next == RouseHeir(procs, heir)
  <2>2. next = [procs EXCEPT ![heir] = Roused(procs[heir])] /\ PushHeir(queue, heir) = Append(queue, heir)
    BY <1>2 DEF RouseHeir, PushHeir
  <2>3. Roused(procs[heir]).state = "Ready"
    BY <2>1 DEF Roused, PCB
  <2> HIDE DEF next
  <2>4. /\ DOMAIN next = DOMAIN procs /\ next[heir].state = "Ready"
        /\ \A q \in DOMAIN procs \ {heir} : next[q] = procs[q]
    BY <2>1, <2>2, <2>3
  <2>5. InLine(next, Append(queue, heir), p)
    BY <2>1, <2>4, JoinInLine
  <2> QED BY <2>1, <2>2, <2>5, ExtendedByOne DEF next
<1> QED BY <1>1, <1>2

\* The end of a process: an heir may queue, and nobody else moves.
LEMMA ReapedInLine ==
    ASSUME NEW procs, NEW queue, NEW dev, Consistent(procs, queue, dev),
           NEW p, InLine(procs, queue, p),
           NEW gone \in DOMAIN procs, NEW r \in Reaped(procs, queue, dev, gone)
    PROVE  InLine(r.procs, r.queue, p) /\ Extended(queue, r.queue, DOMAIN procs)
<1> DEFINE live == DOMAIN procs
           waiting == Waiting(procs) \ {gone}
<1>1. /\ procs \in [live -> PCB] /\ live \in SUBSET Pids /\ queue \in Seq(Pids)
      /\ dev \in Device(Pids) /\ Sound(dev, live)
  BY DEF Consistent, Typed
<1>2. PICK d \in ReleasedAll(dev, gone, waiting) :
        LET heir == IF dev.owner_pid = gone THEN d.owner_pid ELSE NoPid
        IN  r = [procs |-> Restrict(RouseHeir(procs, heir), live \ {gone}),
                 queue |-> PushHeir(queue, heir),
                 disk  |-> d]
  BY DEF Reaped
<1> DEFINE heir == IF dev.owner_pid = gone THEN d.owner_pid ELSE NoPid
           after == RouseHeir(procs, heir)
<1>3. r.procs = Restrict(after, live \ {gone}) /\ r.queue = PushHeir(queue, heir)
  BY <1>2
<1>4. gone \notin waiting
  OBVIOUS
<1>5. /\ d \in Device(Pids) /\ Sound(d, live \ {gone})
      /\ IF dev.owner_pid = gone THEN d.owner_pid \in waiting \cup {NoPid}
         ELSE d.owner_pid = dev.owner_pid
  <2>1. gone \in live /\ d \in ReleasedAll(dev, gone, waiting) /\ NoPid \notin Pids
    BY <1>2, PidFacts
  <2>2. dev \in Device(Pids) /\ Sound(dev, live) /\ live \in SUBSET Pids
    BY <1>1
  <2> HIDE DEF waiting, live
  <2> QED BY <1>4, <2>1, <2>2, ReleasedAllProperties
<1>6. heir \in Waiting(procs) \cup {NoPid}
  BY <1>5
<1>7. /\ InLine(after, PushHeir(queue, heir), p)
      /\ Extended(queue, PushHeir(queue, heir), live)
  <2> HIDE DEF heir
  <2> QED BY <1>1, <1>6, RousedInLine
<1>8. DOMAIN after = live
  BY <1>1 DEF RouseHeir
<1> HIDE DEF heir, after
<1>9. ReadyFrom(after, r.procs)
  BY <1>3, <1>8 DEF ReadyFrom, Restrict
<1> QED BY <1>3, <1>7, <1>9, StayInLine

\* Sleepers whose time is up were not Ready, and queue once each.
LEMMA CheckBlockedInLine ==
    ASSUME NEW procs, NEW queue, NEW dev, Consistent(procs, queue, dev),
           NEW p, InLine(procs, queue, p), CheckBlocked(procs, queue)
    PROVE  /\ InLine(processes', ready_queue', p)
           /\ Extended(queue, ready_queue', DOMAIN procs)
           /\ ready_queue' \in Seq(Pids)
<1> DEFINE due == {q \in DOMAIN procs : /\ Counting(procs[q])
                                        /\ procs[q].blocked_time = 1}
<1>1. /\ procs \in [DOMAIN procs -> PCB] /\ DOMAIN procs \subseteq Pids
      /\ queue \in Seq(Pids)
  BY DEF Consistent, Typed
<1>2. PICK woken \in Ascending(due) : ready_queue' = queue \o woken
  BY DEF CheckBlocked
<1>3. due \in SUBSET Int /\ IsFiniteSet(due) /\ due \subseteq DOMAIN procs
  <2>1. due \subseteq Pids
    BY <1>1
  <2> HIDE DEF due
  <2>2. due \in SUBSET Int /\ IsFiniteSet(due)
    BY <2>1, PidFacts, FS_Subset
  <2> QED BY <2>2 DEF due
<1>4. woken \in Seq(due) /\ \A i, j \in 1..Len(woken) : woken[i] = woken[j] => i = j
  <2> HIDE DEF due
  <2> QED BY <1>3, AscendingIsBijective
<1>5. \A q \in due : procs[q].state # "Ready"
  BY DEF Counting
<1>6. ASSUME NEW q \in DOMAIN procs, processes'[q].state # "Ready"
      PROVE  procs[q].state # "Ready" /\ q \notin due
  <2>1. procs[q] \in PCB /\ processes'[q] = Counted(procs[q])
    BY <1>1 DEF CheckBlocked
  <2>2. CASE ~Counting(procs[q])
    BY <1>6, <2>1, <2>2 DEF Counted
  <2>3. CASE Counting(procs[q])
    <3>1. procs[q].state # "Ready"
      BY <2>3 DEF Counting
    <3>2. procs[q].blocked_time = 1 => Counted(procs[q]).state = "Ready"
      BY <2>1, <2>3 DEF Counted, PCB
    <3> QED BY <1>6, <2>1, <3>1, <3>2
  <2> QED BY <2>2, <2>3
<1>7. DOMAIN processes' = DOMAIN procs
  BY DEF CheckBlocked
<1> HIDE DEF due
<1>8. /\ Len(queue) \in Nat /\ Len(woken) \in Nat
      /\ Len(ready_queue') = Len(queue) + Len(woken)
      /\ \A i \in 1..Len(queue) : ready_queue'[i] = queue[i]
      /\ \A i \in 1..Len(woken) : /\ ready_queue'[Len(queue) + i] = woken[i]
                                  /\ woken[i] \in due
  <2>1. woken \in Seq(Pids) /\ \A i \in 1..Len(woken) : woken[i] \in due
    BY <1>1, <1>3, <1>4, SeqMonotonic, ElementOfSeq
  <2> QED BY <1>1, <1>2, <2>1
<1>9. ASSUME NEW i \in 1..Len(ready_queue')
      PROVE  \/ i \in 1..Len(queue) /\ ready_queue'[i] = queue[i]
             \/ /\ i - Len(queue) \in 1..Len(woken)
                /\ ready_queue'[i] = woken[i - Len(queue)]
                /\ ready_queue'[i] \in due
  <2>1. CASE i <= Len(queue)
    BY <1>8, <2>1
  <2>2. CASE i > Len(queue)
    <3>1. i - Len(queue) \in 1..Len(woken) /\ i = Len(queue) + (i - Len(queue))
      BY <1>8, <2>2
    <3> QED BY <1>8, <3>1
  <2> QED BY <1>8, <2>1, <2>2
<1>10. Extended(queue, ready_queue', DOMAIN procs)
  <2>1. ASSUME NEW i \in 1..Len(ready_queue')
        PROVE  IF i <= Len(queue) THEN ready_queue'[i] = queue[i]
               ELSE ready_queue'[i] \in DOMAIN procs
    <3>1. CASE i <= Len(queue)
      BY <1>8, <3>1
    <3>2. CASE ~(i <= Len(queue))
      <4>1. i \notin 1..Len(queue)
        BY <3>2
      <4>2. ready_queue'[i] \in due
        BY <1>9, <4>1
      <4> QED BY <1>3, <3>2, <4>2
    <3> QED BY <3>1, <3>2
  <2> QED BY <1>8, <2>1 DEF Extended
<1>11. ready_queue' \in Seq(Pids)
  <2>1. woken \in Seq(Pids)
    BY <1>1, <1>3, <1>4, SeqMonotonic
  <2> QED BY <1>1, <1>2, <2>1, ConcatProperties
<1>12. p \in due => \A i \in 1..Len(queue) : queue[i] # p
  BY <1>3, <1>5 DEF InLine
<1>13. ASSUME NEW i \in 1..Len(ready_queue'), NEW j \in 1..Len(ready_queue'),
              ready_queue'[i] = p, ready_queue'[j] = p
       PROVE  i = j
  <2>1. CASE p \in due
    <3>1. /\ i - Len(queue) \in 1..Len(woken) /\ j - Len(queue) \in 1..Len(woken)
          /\ woken[i - Len(queue)] = p /\ woken[j - Len(queue)] = p
      BY <1>9, <1>12, <1>13, <2>1
    <3>2. i - Len(queue) = j - Len(queue)
      BY <1>4, <3>1
    <3> QED BY <1>8, <3>2
  <2>2. CASE p \notin due
    BY <1>9, <1>13, <2>2 DEF InLine
  <2> QED BY <2>1, <2>2
<1>14. ASSUME p \in DOMAIN processes', processes'[p].state # "Ready",
              NEW i \in 1..Len(ready_queue')
       PROVE  ready_queue'[i] # p
  BY <1>6, <1>7, <1>9, <1>14 DEF InLine
<1> QED BY <1>10, <1>11, <1>13, <1>14 DEF InLine

\* The end of a tick in which x executed an instruction.
LEMMA AccountInLine ==
    ASSUME NEW procs, NEW queue, NEW dev, Consistent(procs, queue, dev),
           NEW p, InLine(procs, queue, p),
           NEW x \in DOMAIN procs, procs[x].state \in {"Running", "Blocked"},
           Account(x, procs, queue, dev)
    PROVE  /\ InLine(processes', ready_queue', p)
           /\ Extended(queue, ready_queue', DOMAIN procs)
<1> DEFINE pcb == procs[x]
           left == IF pcb.left > 0 THEN pcb.left - 1 ELSE 0
           slice == pcb.time_slice_left - 1
           ran == [pcb EXCEPT !.left = left, !.time_slice_left = slice]
<1>1. /\ procs \in [DOMAIN procs -> PCB] /\ DOMAIN procs \subseteq Pids
      /\ queue \in Seq(Pids) /\ dev \in Device(Pids)
      /\ Sound(dev, DOMAIN procs) /\ WaitersQueued(procs, dev)
      /\ ReadyQueued(procs, queue)
  BY DEF Consistent, Typed
<1>2. pcb \in PCB /\ left \in Nat /\ slice \in Int /\ slice < TimeSlice
  BY <1>1, ProcessManagerAssumption DEF PCB
<1>3. /\ slice \in 1..TimeSlice => ran \in PCB
      /\ Requeued(ran) \in PCB
      /\ Requeued(ran).state = "Ready"
  <2> HIDE DEF left, slice, pcb, ran
  <2> QED BY <1>2, PCBRun DEF ran
<1>4. /\ ran.state = pcb.state /\ ran.time_slice_left = slice
      /\ ran.blocked_reason = pcb.blocked_reason
      /\ ran.waiting_device = pcb.waiting_device
  BY <1>2 DEF PCB
<1>5. CASE \E r \in Reaped(procs, queue, dev, x) : CheckBlocked(r.procs, r.queue)
  <2>1. PICK r \in Reaped(procs, queue, dev, x) : CheckBlocked(r.procs, r.queue)
    BY <1>5
  <2>2. /\ Consistent(r.procs, r.queue, r.disk) /\ DOMAIN r.procs = DOMAIN procs \ {x}
        /\ InLine(r.procs, r.queue, p) /\ Extended(queue, r.queue, DOMAIN procs)
    BY ReapedConsistent, ReapedInLine
  <2>3. /\ InLine(processes', ready_queue', p)
        /\ Extended(r.queue, ready_queue', DOMAIN r.procs)
        /\ ready_queue' \in Seq(Pids)
    BY <2>1, <2>2, CheckBlockedInLine
  <2>4. r.queue \in Seq(Pids) /\ DOMAIN r.procs \in SUBSET DOMAIN procs
    BY <2>2 DEF Consistent, Typed
  <2> QED BY <1>1, <2>2, <2>3, <2>4, ExtendedTwice
<1>6. CASE CheckBlocked([procs EXCEPT ![x] = Requeued(ran)], Append(queue, x))
  <2> DEFINE next == [procs EXCEPT ![x] = Requeued(ran)]
  <2>1. /\ DOMAIN next = DOMAIN procs
        /\ next[x] = Requeued(ran) /\ next \in [DOMAIN procs -> PCB]
        /\ \A q \in DOMAIN procs \ {x} : next[q] = procs[q]
    BY <1>1, <1>3
  <2> HIDE DEF next
  <2>2. /\ Append(queue, x) \in Seq(Pids) /\ x \in Range(Append(queue, x))
        /\ \A y \in Range(queue) : y \in Range(Append(queue, x))
        /\ Extended(queue, Append(queue, x), DOMAIN procs)
    BY <1>1, RangeOfAppend, ExtendedByOne
  <2>3. Typed(next, Append(queue, x), dev)
    BY <1>1, <2>1, <2>2 DEF Typed
  <2>4. ReadyQueued(next, Append(queue, x)) /\ WaitersQueued(next, dev)
    BY <1>1, <1>3, <2>1, <2>2 DEF ReadyQueued, WaitersQueued, WaitsForDisk
  <2>5. Consistent(next, Append(queue, x), dev)
    BY <1>1, <2>1, <2>3, <2>4 DEF Consistent
  <2>6. InLine(next, Append(queue, x), p)
    BY <1>1, <1>3, <2>1, JoinInLine
  <2>7. /\ InLine(processes', ready_queue', p)
        /\ Extended(Append(queue, x), ready_queue', DOMAIN next)
        /\ ready_queue' \in Seq(Pids)
    BY <1>6, <2>5, <2>6, CheckBlockedInLine DEF next
  <2> QED BY <1>1, <2>1, <2>2, <2>7, ExtendedTwice
<1>7. CASE ran.time_slice_left > 0 /\ CheckBlocked([procs EXCEPT ![x] = ran], queue)
  <2> DEFINE next == [procs EXCEPT ![x] = ran]
  <2>1. ran \in PCB
    <3>1. slice \in 1..TimeSlice
      BY <1>2, <1>4, <1>7, ProcessManagerAssumption
    <3> QED BY <1>3, <3>1
  <2> HIDE DEF ran
  <2>2. /\ DOMAIN next = DOMAIN procs
        /\ next[x] = ran /\ next \in [DOMAIN procs -> PCB]
        /\ \A q \in DOMAIN procs \ {x} : next[q] = procs[q]
    BY <1>1, <2>1
  <2> HIDE DEF next
  <2>3. Typed(next, queue, dev) /\ ReadyFrom(procs, next)
    BY <1>1, <1>4, <2>2 DEF Typed, ReadyFrom
  <2>4. ReadyQueued(next, queue) /\ WaitersQueued(next, dev)
    BY <1>1, <1>4, <2>2 DEF ReadyQueued, WaitersQueued, WaitsForDisk
  <2>5. Consistent(next, queue, dev)
    BY <1>1, <2>2, <2>3, <2>4 DEF Consistent
  <2> QED BY <1>7, <2>2, <2>3, <2>5, StayInLine, CheckBlockedInLine DEF next
<1>8. ran = [pcb EXCEPT !.left = IF @ > 0 THEN @ - 1 ELSE 0,
                        !.time_slice_left = @ - 1]
  BY <1>2 DEF PCB
<1> HIDE DEF ran, left, slice
<1> QED BY <1>5, <1>6, <1>7, <1>8 DEF Account, pcb

\* schedule() passes over nobody who is Ready: whoever it chooses came before
\* the others who are, and is behind them from then on.
LEMMA ScheduledInLine ==
    ASSUME NEW procs, NEW queue \in Seq(Pids), procs \in [DOMAIN procs -> PCB],
           ReadyQueued(procs, queue), NEW p, InLine(procs, queue, p),
           NEW d \in Scheduled(procs, queue)
    PROVE  /\ InLine(d.procs, d.queue, p)
           /\ d.queue \in Seq(Pids)
           /\ \A i \in 1..Len(d.queue) : \E j \in 1..Len(queue) : d.queue[i] = queue[j]
           /\ \A q \in DOMAIN procs : procs[q].state = "Ready" /\ q # d.pid =>
                IF p = d.pid THEN ~Before(queue, q, p) /\ Before(d.queue, q, p)
                ELSE Before(queue, q, p) => Before(d.queue, q, p)
<1> DEFINE runnable == {i \in DOMAIN queue : /\ queue[i] \in DOMAIN procs
                                             /\ procs[queue[i]].state = "Ready"}
<1>1. Len(queue) \in Nat /\ DOMAIN queue = 1..Len(queue)
  BY LenProperties
<1>2. ASSUME NEW q \in DOMAIN procs, procs[q].state = "Ready"
      PROVE  \E k \in 1..Len(queue) : queue[k] = q
  BY <1>2, RangeOfQueue DEF ReadyQueued
<1>3. CASE runnable = {}
  <2>1. d.pid = NoPid /\ d.procs = procs /\ d.queue = <<>>
    BY <1>3 DEF Scheduled
  <2>2. \A q \in DOMAIN procs : procs[q].state # "Ready"
    BY <1>1, <1>2, <1>3
  <2>3. <<>> \in Seq(Pids) /\ Len(<<>>) = 0
    OBVIOUS
  <2> QED BY <2>1, <2>2, <2>3 DEF InLine
<1>4. CASE runnable # {}
  <2>1. PICK i \in Firsts(runnable) :
          d = [pid   |-> queue[i],
               procs |-> [procs EXCEPT ![queue[i]].state = "Running"],
               queue |-> SubSeq(queue, i + 1, Len(queue))]
    BY <1>4 DEF Scheduled
  <2> DEFINE rest == SubSeq(queue, i + 1, Len(queue))
             x == queue[i]
  <2>2. /\ i \in 1..Len(queue) /\ x \in DOMAIN procs /\ procs[x].state = "Ready"
        /\ \A j \in 1..Len(queue) :
             queue[j] \in DOMAIN procs /\ procs[queue[j]].state = "Ready" => i <= j
    BY <1>1 DEF Firsts
  <2>3. /\ rest \in Seq(Pids) /\ Len(rest) = Len(queue) - i
        /\ \A k \in 1..Len(rest) : rest[k] = queue[i + k]
    BY <2>2, RestOfQueue
  <2>4. /\ d.pid = x /\ d.queue = rest
        /\ d.procs = [procs EXCEPT ![x].state = "Running"]
    BY <2>1
  <2> HIDE DEF x, rest, runnable
  <2>5. /\ DOMAIN d.procs = DOMAIN procs
        /\ \A q \in DOMAIN procs \ {x} : d.procs[q] = procs[q]
    BY <2>2, <2>4
  <2>6. \A k \in 1..Len(rest) : i + k \in 1..Len(queue) /\ i + k # i
    BY <1>1, <2>2, <2>3
  <2>7. \A k \in 1..Len(queue) : k > i => k - i \in 1..Len(rest) /\ rest[k - i] = queue[k]
    BY <1>1, <2>2, <2>3
  <2>8. p = x => \A k \in 1..Len(rest) : rest[k] # p
    BY <2>2, <2>3, <2>6 DEF InLine, x
  <2>9. InLine(d.procs, rest, p)
    <3>1. ASSUME NEW k \in 1..Len(rest), NEW l \in 1..Len(rest), rest[k] = p, rest[l] = p
          PROVE  k = l
      <4>1. i + k = i + l
        BY <2>3, <2>6, <3>1 DEF InLine
      <4> QED BY <2>2, <4>1
    <3>2. ASSUME p \in DOMAIN procs, d.procs[p].state # "Ready", NEW k \in 1..Len(rest)
          PROVE  rest[k] # p
      <4>1. CASE p = x
        BY <2>8, <4>1
      <4>2. CASE p # x
        BY <2>3, <2>5, <2>6, <3>2, <4>2 DEF InLine
      <4> QED BY <4>1, <4>2
    <3> QED BY <2>5, <3>1, <3>2 DEF InLine
  <2>10. ASSUME NEW q \in DOMAIN procs, procs[q].state = "Ready", q # x
         PROVE  IF p = x THEN ~Before(queue, q, p) /\ Before(rest, q, p)
                ELSE Before(queue, q, p) => Before(rest, q, p)
    <3>1. \A k \in 1..Len(queue) : queue[k] = q => k > i
      BY <2>2, <2>10 DEF x
    <3>2. CASE p = x
      <4>1. ~Before(queue, q, p)
        BY <1>1, <2>2, <3>1, <3>2 DEF Before, x
      <4>2. PICK k \in 1..Len(queue) : queue[k] = q
        BY <1>2, <2>10
      <4>3. k - i \in 1..Len(rest) /\ rest[k - i] = q
        BY <2>7, <3>1, <4>2
      <4> QED BY <2>8, <3>2, <4>1, <4>3 DEF Before
    <3>3. CASE p # x
      <4>1. SUFFICES ASSUME Before(queue, q, p) PROVE Before(rest, q, p)
        BY <3>3
      <4>2. PICK k \in 1..Len(queue) :
              queue[k] = q /\ \A j \in 1..Len(queue) : queue[j] = p => k < j
        BY <4>1 DEF Before
      <4>3. k - i \in 1..Len(rest) /\ rest[k - i] = q
        BY <2>7, <3>1, <4>2
      <4>4. ASSUME NEW j \in 1..Len(rest), rest[j] = p PROVE k - i < j
        <5>1. i + j \in 1..Len(queue) /\ queue[i + j] = p
          BY <2>3, <2>6, <4>4
        <5>2. k < i + j
          BY <4>2, <5>1
        <5> QED BY <2>2, <2>3, <5>2
      <4> QED BY <4>3, <4>4 DEF Before
    <3> QED BY <3>2, <3>3
  <2>11. \A k \in 1..Len(rest) : \E j \in 1..Len(queue) : rest[k] = queue[j]
    BY <2>3, <2>6
  <2> QED BY <2>3, <2>4, <2>9, <2>10, <2>11
<1> QED BY <1>3, <1>4

\* There is one process that schedule() may choose.
LEMMA ScheduledOnce ==
    ASSUME NEW procs, NEW queue \in Seq(Pids),
           NEW d \in Scheduled(procs, queue), NEW e \in Scheduled(procs, queue)
    PROVE  d = e
<1> DEFINE runnable == {i \in DOMAIN queue : /\ queue[i] \in DOMAIN procs
                                             /\ procs[queue[i]].state = "Ready"}
<1>1. runnable \in SUBSET Int
  <2>1. Len(queue) \in Nat /\ DOMAIN queue = 1..Len(queue)
    BY LenProperties
  <2> QED BY <2>1
<1>2. CASE runnable = {}
  BY <1>2 DEF Scheduled
<1>3. CASE runnable # {}
  <2>1. PICK i \in Firsts(runnable), j \in Firsts(runnable) :
          /\ d = [pid   |-> queue[i],
                  procs |-> [procs EXCEPT ![queue[i]].state = "Running"],
                  queue |-> SubSeq(queue, i + 1, Len(queue))]
          /\ e = [pid   |-> queue[j],
                  procs |-> [procs EXCEPT ![queue[j]].state = "Running"],
                  queue |-> SubSeq(queue, j + 1, Len(queue))]
    BY <1>3 DEF Scheduled
  <2> HIDE DEF runnable
  <2>2. i = j
    BY <1>1, FirstIsUnique
  <2> QED BY <2>1, <2>2
<1> QED BY <1>2, <1>3

-----------------------------------------------------------------------------
(* The actions.                                                             *)

\* Whoever begins a turn was not behind q before and is afterwards; the
\* others stay behind q.
Orderly(q, p, begun, queue) ==
    processes[q].state = "Ready" /\ q \notin begun =>
      IF p \in begun THEN ~Before(ready_queue, q, p) /\ Before(queue, q, p)
      ELSE Before(ready_queue, q, p) => Before(queue, q, p)

\* The pids in the queue have been handed out.
HandedOut(queue, next) == \A i \in 1..Len(queue) : queue[i] \in 1..next - 1

\* What a step in which the processes in `begun' begin a turn leaves.
StepInLine(p, begun) ==
    /\ InLine(processes', ready_queue', p)
    /\ \A q \in Live : Orderly(q, p, begun, ready_queue')

\* A queue that grows from another at the end of the step keeps this.
LEMMA ExtendedStep ==
    ASSUME IInv', NEW p, NEW begun, NEW queue \in Seq(Pids), NEW P,
           \A q \in Live : Orderly(q, p, begun, queue),
           Extended(queue, ready_queue', P), InLine(processes', ready_queue', p)
    PROVE  StepInLine(p, begun)
<1>1. ready_queue' \in Seq(Pids)
  BY DEF IInv, Consistent, Typed
<1>2. ASSUME NEW q \in Live PROVE Orderly(q, p, begun, ready_queue')
  <2>1. Before(queue, q, p) => Before(ready_queue', q, p)
    BY <1>1, ExtendedBefore
  <2> QED BY <2>1 DEF Orderly
<1> QED BY <1>2 DEF StepInLine

\* Live processes have pids that were handed out, and so have those who join.
LEMMA ExtendedHandedOut ==
    ASSUME IInv', NEW queue \in Seq(Pids), NEW next \in Nat, HandedOut(queue, next),
           next <= next_pid', NEW P, P \subseteq 1..next_pid' - 1,
           Extended(queue, ready_queue', P)
    PROVE  HandedOut(ready_queue', next_pid')
<1>1. Len(queue) \in Nat /\ next_pid' \in Nat
  BY LenProperties, ProcessManagerAssumption DEF IInv
<1>2. ASSUME NEW i \in 1..Len(ready_queue')
      PROVE  ready_queue'[i] \in 1..next_pid' - 1
  <2>1. CASE i <= Len(queue)
    <3>1. i \in 1..Len(queue) /\ ready_queue'[i] = queue[i]
      BY <1>1, <2>1 DEF Extended
    <3> QED BY <1>1, <3>1 DEF HandedOut
  <2>2. CASE ~(i <= Len(queue))
    BY <2>2 DEF Extended
  <2> QED BY <2>1, <2>2
<1> QED BY <1>2 DEF HandedOut

\* The dispatch of a tick begins the turn of the process it finds, if any.
LEMMA DispatchedInLine ==
    ASSUME IInv, NEW p \in Pids, InLine(processes, ready_queue, p), NEW d \in Dispatched
    PROVE  /\ InLine(d.procs, d.queue, p)
           /\ d.queue \in Seq(Pids)
           /\ \A q \in Live : Orderly(q, p, Beginner, d.queue)
           /\ HandedOut(ready_queue, next_pid) => HandedOut(d.queue, next_pid)
<1>1. /\ processes \in [Live -> PCB] /\ ready_queue \in Seq(Pids)
      /\ ReadyQueued(processes, ready_queue)
  BY DEF IInv, Consistent, Typed, Live
<1>2. CASE cur_pid # NoPid
  <2>1. d.procs = processes /\ d.queue = ready_queue
    BY <1>2 DEF Dispatched
  <2>2. Beginner = {}
    BY <1>2 DEF Beginner
  <2> QED BY <1>1, <2>1, <2>2 DEF Orderly
<1>3. CASE cur_pid = NoPid
  <2>1. d \in Scheduled(processes, ready_queue)
    BY <1>3 DEF Dispatched
  <2>2. Beginner = {d.pid}
    BY <1>1, <1>3, <2>1, ScheduledOnce DEF Beginner, Dispatched
  <2>3. /\ InLine(d.procs, d.queue, p)
        /\ d.queue \in Seq(Pids)
        /\ \A i \in 1..Len(d.queue) : \E j \in 1..Len(ready_queue) : d.queue[i] = ready_queue[j]
        /\ \A q \in Live : processes[q].state = "Ready" /\ q # d.pid =>
             IF p = d.pid THEN ~Before(ready_queue, q, p) /\ Before(d.queue, q, p)
             ELSE Before(ready_queue, q, p) => Before(d.queue, q, p)
    BY <1>1, <2>1, ScheduledInLine DEF Live
  <2> QED BY <2>2, <2>3 DEF Orderly, HandedOut
<1> QED BY <1>2, <1>3

\* tick()
LEMMA TickInLine ==
    ASSUME IInv, IInv', NEW p \in Pids, InLine(processes, ready_queue, p), Tick,
           HandedOut(ready_queue, next_pid)
    PROVE  StepInLine(p, Beginner) /\ HandedOut(ready_queue', next_pid')
<1>1. ASSUME NEW d \in Dispatched, Extended(d.queue, ready_queue', Live),
             InLine(processes', ready_queue', p), next_pid' = next_pid
      PROVE  StepInLine(p, Beginner) /\ HandedOut(ready_queue', next_pid')
  <2>1. /\ d.queue \in Seq(Pids) /\ HandedOut(d.queue, next_pid)
        /\ \A q \in Live : Orderly(q, p, Beginner, d.queue)
    BY DispatchedInLine
  <2>2. next_pid \in Nat /\ next_pid <= next_pid' /\ Live \subseteq 1..next_pid' - 1
    BY <1>1, ProcessManagerAssumption DEF IInv
  <2> QED BY <1>1, <2>1, <2>2, ExtendedStep, ExtendedHandedOut
<1>2. CASE IdleTick
  <2>1. PICK d \in Dispatched : CheckBlocked(d.procs, d.queue) /\ next_pid' = next_pid
    BY <1>2 DEF IdleTick
  <2>2. Consistent(d.procs, d.queue, disk) /\ DOMAIN d.procs = Live
    BY DispatchedConsistent
  <2>3. /\ InLine(processes', ready_queue', p)
        /\ Extended(d.queue, ready_queue', Live)
    BY <2>1, <2>2, DispatchedInLine, CheckBlockedInLine
  <2> QED BY <1>1, <2>1, <2>3
<1>3. CASE ~IdleTick
  <2>1. PICK d \in Dispatched : \E procs, queue, dev : Executed(d, procs, queue, dev)
    BY <1>3, TickExecutes
  <2>2. PICK procs, queue, dev : Executed(d, procs, queue, dev)
    BY <2>1
  <2>3. /\ Consistent(d.procs, d.queue, disk) /\ DOMAIN d.procs = Live
        /\ d.procs \in [DOMAIN d.procs -> PCB] /\ Live \subseteq Pids
        /\ d.queue \in Seq(Pids) /\ InLine(d.procs, d.queue, p)
        /\ d.procs[d.pid].state = "Running"
    BY <2>2, DispatchedConsistent, DispatchedInLine DEF Executed, Consistent, Typed, OnlyRuns
  <2>4. /\ Consistent(procs, queue, dev) /\ DOMAIN procs = Live /\ d.pid \in Live
        /\ procs[d.pid].state \in {"Running", "Blocked"}
        /\ Account(d.pid, procs, queue, dev) /\ queue \in Seq(Pids)
    BY <2>2 DEF Executed, Consistent, Typed
  <2>5. InLine(procs, queue, p) /\ Extended(d.queue, queue, Live)
    <3>1. CASE queue = d.queue /\ \A q \in Live \ {d.pid} : procs[q] = d.procs[q]
      <4>1. ReadyFrom(d.procs, procs)
        BY <2>3, <2>4, <3>1 DEF ReadyFrom
      <4>2. Extended(d.queue, queue, Live)
        BY <2>3, <3>1, LenProperties DEF Extended
      <4> QED BY <2>3, <3>1, <4>1, <4>2, StayInLine
    <3>2. CASE \E heir \in Waiting(d.procs) \cup {NoPid} :
                 procs = RouseHeir(d.procs, heir) /\ queue = PushHeir(d.queue, heir)
      BY <2>3, <3>2, RousedInLine
    <3> QED BY <2>2, <3>1, <3>2 DEF Executed
  <2>6. InLine(processes', ready_queue', p) /\ Extended(queue, ready_queue', Live)
    BY <2>4, <2>5, AccountInLine
  <2>7. next_pid' = next_pid /\ ready_queue' \in Seq(Pids)
    BY <2>4 DEF Account, IInv, Consistent, Typed
  <2>8. Extended(d.queue, ready_queue', Live)
    BY <2>3, <2>4, <2>5, <2>6, <2>7, ExtendedTwice
  <2> QED BY <1>1, <2>6, <2>7, <2>8
<1> QED BY <1>2, <1>3

\* A step that begins no turn and drops nobody from the queue.
LEMMA QuietStep ==
    ASSUME IInv, IInv', NEW p, HandedOut(ready_queue, next_pid), next_pid <= next_pid',
           NEW P, P \subseteq 1..next_pid' - 1,
           Extended(ready_queue, ready_queue', P), InLine(processes', ready_queue', p)
    PROVE  StepInLine(p, {}) /\ HandedOut(ready_queue', next_pid')
<1>1. ready_queue \in Seq(Pids) /\ next_pid \in Nat
  BY ProcessManagerAssumption DEF IInv, Consistent, Typed
<1>2. \A q \in Live : Orderly(q, p, {}, ready_queue)
  BY DEF Orderly
<1>3. StepInLine(p, {})
  BY <1>1, <1>2, ExtendedStep
<1>4. HandedOut(ready_queue', next_pid')
  BY <1>1, ExtendedHandedOut
<1> QED BY <1>3, <1>4

\* create_process_with_program(): the pid is a new one.
LEMMA CreateInLine ==
    ASSUME IInv, IInv', NEW p \in Pids, InLine(processes, ready_queue, p),
           HandedOut(ready_queue, next_pid), NEW size \in Lengths, Create(size)
    PROVE  StepInLine(p, {}) /\ HandedOut(ready_queue', next_pid')
<1>1. /\ ready_queue \in Seq(Pids) /\ next_pid \in Pids
      /\ next_pid' = next_pid + 1 /\ next_pid \in Int
      /\ ready_queue' = Append(ready_queue, next_pid)
      /\ DOMAIN processes' = Live \cup {next_pid}
      /\ processes'[next_pid] = NewPCB(size)
      /\ \A q \in Live \ {next_pid} : processes'[q] = processes[q]
  BY ProcessManagerAssumption DEF IInv, Consistent, Typed, Create, Pids
<1>2. \A i \in 1..Len(ready_queue) : ready_queue[i] # next_pid
  BY <1>1 DEF HandedOut
<1>3. NewPCB(size).state = "Ready"
  BY DEF NewPCB
<1>4. InLine(processes', ready_queue', p)
  BY <1>1, <1>2, <1>3, Joined DEF Live
<1>5. {next_pid} \subseteq 1..next_pid' - 1 /\ next_pid <= next_pid'
  BY <1>1 DEF Pids
<1>6. Extended(ready_queue, ready_queue', {next_pid})
  BY <1>1, ExtendedByOne
<1> QED BY <1>4, <1>5, <1>6, QuietStep

\* terminate_process()
LEMMA KillInLine ==
    ASSUME IInv, IInv', NEW p \in Pids, InLine(processes, ready_queue, p),
           HandedOut(ready_queue, next_pid), NEW x \in Pids, Kill(x)
    PROVE  StepInLine(p, {}) /\ HandedOut(ready_queue', next_pid')
<1>1. PICK r \in Reaped(processes, ready_queue, disk, x) :
        processes' = r.procs /\ ready_queue' = r.queue
  BY DEF Kill
<1>2. Consistent(processes, ready_queue, disk) /\ x \in DOMAIN processes
  BY DEF IInv, Kill, Live
<1>3. /\ InLine(processes', ready_queue', p)
      /\ Extended(ready_queue, ready_queue', Live)
  BY <1>1, <1>2, ReapedInLine DEF Live
<1>4. next_pid' = next_pid /\ Live \subseteq 1..next_pid' - 1 /\ next_pid <= next_pid'
  BY ProcessManagerAssumption DEF IInv, Kill
<1> QED BY <1>3, <1>4, QuietStep

\* run_process() of another process: the current one joins, Ready again.
LEMMA RunInLine ==
    ASSUME IInv, IInv', NEW p \in Pids, InLine(processes, ready_queue, p),
           HandedOut(ready_queue, next_pid), NEW x \in Pids, x # p, Run(x)
    PROVE  StepInLine(p, {}) /\ HandedOut(ready_queue', next_pid')
<1>1. /\ next_pid' = next_pid /\ Live \subseteq 1..next_pid' - 1 /\ next_pid <= next_pid'
      /\ ready_queue \in Seq(Pids) /\ processes \in [Live -> PCB] /\ Live \subseteq Pids
      /\ cur_pid \in Live \cup {NoPid}
  BY ProcessManagerAssumption DEF IInv, Run, Consistent, Typed, Live
<1>2. /\ DOMAIN processes' = Live
      /\ x # cur_pid
      /\ \A q \in Live \ {x, cur_pid} : processes'[q] = processes[q]
  BY DEF IInv, OnlyRuns, Run, Live
<1>3. CASE cur_pid = NoPid
  <2>1. ready_queue' = ready_queue
    BY <1>3 DEF Run
  <2>2. InLine(processes', ready_queue', p)
    BY <1>1, <1>2, <1>3, <2>1, PidFacts DEF InLine, Live
  <2>3. Extended(ready_queue, ready_queue', Live)
    BY <1>1, <2>1, LenProperties DEF Extended
  <2> QED BY <1>1, <2>2, <2>3, QuietStep
<1>4. CASE cur_pid # NoPid
  <2>1. /\ cur_pid \in Live /\ cur_pid \in Pids
        /\ processes[cur_pid].state = "Running"
        /\ ready_queue' = Append(ready_queue, cur_pid)
    BY <1>1, <1>4 DEF Run, IInv, OnlyRuns, Live
  <2>2. processes'[cur_pid].state = "Ready"
    <3>1. processes'[cur_pid] = [processes[cur_pid] EXCEPT !.state = "Ready"]
      BY <1>2, <2>1 DEF Run
    <3>2. processes[cur_pid] \in PCB
      BY <1>1, <2>1
    <3> QED BY <3>1, <3>2 DEF PCB
  <2>3. cur_pid = p => \A i \in 1..Len(ready_queue) : ready_queue[i] # p
    BY <2>1 DEF InLine, Live
  <2>4. InLine(processes', ready_queue', p)
    BY <1>1, <1>2, <2>1, <2>2, <2>3, Joined DEF Live
  <2>5. Extended(ready_queue, ready_queue', Live)
    BY <1>1, <2>1, ExtendedByOne
  <2> QED BY <1>1, <2>4, <2>5, QuietStep
<1> QED BY <1>3, <1>4

\* wakeup_process() of another process, which joins.
LEMMA WakeupInLine ==
    ASSUME IInv, IInv', NEW p \in Pids, InLine(processes, ready_queue, p),
           HandedOut(ready_queue, next_pid), NEW x \in Pids, x # p, Wakeup(x)
    PROVE  StepInLine(p, {}) /\ HandedOut(ready_queue', next_pid')
<1>1. /\ next_pid' = next_pid /\ Live \subseteq 1..next_pid' - 1 /\ next_pid <= next_pid'
      /\ ready_queue \in Seq(Pids) /\ x \in Live
      /\ ready_queue' = Append(ready_queue, x)
      /\ DOMAIN processes' = Live
      /\ \A q \in Live \ {x} : processes'[q] = processes[q]
  BY ProcessManagerAssumption DEF IInv, Wakeup, Consistent, Typed, Live
<1>2. InLine(processes', ready_queue', p)
  BY <1>1, Joined DEF Live
<1>3. Extended(ready_queue, ready_queue', Live)
  BY <1>1, ExtendedByOne
<1> QED BY <1>1, <1>2, <1>3, QuietStep

\* block_process() of another process: if it was the current one, schedule()
\* begins the turn of the first who is Ready.
LEMMA BlockInLine ==
    ASSUME IInv, IInv', NEW p \in Pids, InLine(processes, ready_queue, p),
           HandedOut(ready_queue, next_pid), NEW x \in Pids, x # p,
           NEW duration \in Durations, Block(x, duration)
    PROVE  /\ StepInLine(p, {cur_pid'} \ {cur_pid})
           /\ HandedOut(ready_queue', next_pid')
<1> DEFINE blocked == PutToSleep(processes[x], duration)
           procs == [processes EXCEPT ![x] = blocked]
<1>1. /\ next_pid' = next_pid /\ Live \subseteq 1..next_pid' - 1 /\ next_pid <= next_pid'
      /\ ready_queue \in Seq(Pids) /\ x \in Live
      /\ processes \in [Live -> PCB] /\ ReadyQueued(processes, ready_queue)
  BY ProcessManagerAssumption DEF IInv, Block, Consistent, Typed, Live
<1>2. blocked \in PCB /\ blocked.state = "Blocked"
  <2>1. processes[x] \in PCB
    BY <1>1
  <2>2. blocked.state = "Blocked"
    BY <2>1 DEF PutToSleep, PCB
  <2> QED BY <2>1, <2>2, PCBFacts
<1>3. \/ x = cur_pid /\ \E d \in Scheduled(procs, ready_queue) :
                           processes' = d.procs /\ ready_queue' = d.queue /\ cur_pid' = d.pid
      \/ x # cur_pid /\ processes' = procs /\ ready_queue' = ready_queue /\ cur_pid' = cur_pid
  BY DEF Block
<1> HIDE DEF blocked
<1>4. /\ DOMAIN procs = Live /\ procs[x] = blocked /\ procs \in [Live -> PCB]
      /\ \A q \in Live \ {x} : procs[q] = processes[q]
  BY <1>1, <1>2
<1> HIDE DEF procs
<1>5. InLine(procs, ready_queue, p)
  BY <1>1, <1>4 DEF InLine, Live
<1>6. CASE x # cur_pid
  <2>1. processes' = procs /\ ready_queue' = ready_queue /\ {cur_pid'} \ {cur_pid} = {}
    BY <1>3, <1>6
  <2>2. Extended(ready_queue, ready_queue', Live)
    BY <1>1, <2>1, LenProperties DEF Extended
  <2>3. StepInLine(p, {}) /\ HandedOut(ready_queue', next_pid')
    BY <1>1, <1>5, <2>1, <2>2, QuietStep
  <2> QED BY <2>1, <2>3
<1>7. CASE x = cur_pid
  <2>1. PICK d \in Scheduled(procs, ready_queue) :
          processes' = d.procs /\ ready_queue' = d.queue /\ cur_pid' = d.pid
    BY <1>3, <1>7
  <2>2. ReadyQueued(procs, ready_queue)
    BY <1>1, <1>2, <1>4 DEF ReadyQueued, Live
  <2>3. /\ InLine(d.procs, d.queue, p)
        /\ \A i \in 1..Len(d.queue) : \E j \in 1..Len(ready_queue) : d.queue[i] = ready_queue[j]
        /\ \A q \in DOMAIN procs : procs[q].state = "Ready" /\ q # d.pid =>
             IF p = d.pid THEN ~Before(ready_queue, q, p) /\ Before(d.queue, q, p)
             ELSE Before(ready_queue, q, p) => Before(d.queue, q, p)
    BY <1>1, <1>4, <1>5, <2>2, ScheduledInLine
  <2>4. HandedOut(ready_queue', next_pid')
    BY <1>1, <2>1, <2>3 DEF HandedOut
  <2>5. ASSUME NEW q \in Live PROVE Orderly(q, p, {cur_pid'} \ {cur_pid}, ready_queue')
    <3>1. SUFFICES ASSUME processes[q].state = "Ready", q \notin {cur_pid'} \ {cur_pid}
                   PROVE  IF p \in {cur_pid'} \ {cur_pid}
                          THEN ~Before(ready_queue, q, p) /\ Before(ready_queue', q, p)
                          ELSE Before(ready_queue, q, p) => Before(ready_queue', q, p)
      BY DEF Orderly
    <3>2. q # x
      BY <1>7, <3>1 DEF IInv, OnlyRuns, Live
    <3>3. procs[q].state = "Ready" /\ q # d.pid
      BY <1>4, <1>7, <2>1, <3>1, <3>2
    <3> QED BY <1>4, <1>7, <2>1, <2>3, <3>3
  <2> QED BY <2>1, <2>3, <2>4, <2>5 DEF StepInLine
<1> QED BY <1>6, <1>7

-----------------------------------------------------------------------------
(* The invariant.                                                           *)

\* While q is Ready, p begins a turn only once: it is behind q after that.
Behind(q, p) ==
    turns[q][p] > 0 =>
      /\ turns[q][p] = 1
      /\ q \in Live /\ processes[q].state = "Ready"
      /\ Before(ready_queue, q, p)

\* The inductive invariant of the round robin.
RRInv ==
    /\ IInv
    /\ turns \in [Pids -> [Pids -> 0..2]]
    /\ \A p \in Pids \ steered :
         /\ InLine(processes, ready_queue, p)
         /\ HandedOut(ready_queue, next_pid)
         /\ \A q \in Pids : Behind(q, p)

\* What the counting of turns needs of a step.
LEMMA TurnsCounted ==
    ASSUME turns \in [Pids -> [Pids -> 0..2]], NEW begun, Counts(begun)
    PROVE  /\ turns' \in [Pids -> [Pids -> 0..2]]
           /\ \A q \in Pids, p \in Pids :
                turns'[q][p] = IF ~StaysReady(q) \/ q \in begun THEN 0
                               ELSE IF p \in begun /\ turns[q][p] < 2 THEN turns[q][p] + 1
                               ELSE turns[q][p]
<1>1. ASSUME NEW q \in Pids, NEW p \in Pids PROVE turns[q][p] \in 0..2
  OBVIOUS
<1>2. ASSUME NEW q \in Pids, NEW p \in Pids
      PROVE  (IF ~StaysReady(q) \/ q \in begun THEN 0
              ELSE IF p \in begun /\ turns[q][p] < 2 THEN turns[q][p] + 1
              ELSE turns[q][p]) \in 0..2
  <2> HIDE DEF StaysReady
  <2> QED BY <1>1
<1> QED BY <1>2 DEF Counts

\* A step that keeps the order of the queue keeps everyone behind.
LEMMA BehindStep ==
    ASSUME turns \in [Pids -> [Pids -> 0..2]], NEW begun, Counts(begun),
           NEW q \in Pids, NEW p \in Pids, Behind(q, p), StepInLine(p, begun)
    PROVE  Behind(q, p)'
<1>1. turns'[q][p] = IF ~StaysReady(q) \/ q \in begun THEN 0
                     ELSE IF p \in begun /\ turns[q][p] < 2 THEN turns[q][p] + 1
                     ELSE turns[q][p]
  BY TurnsCounted
<1>2. CASE ~StaysReady(q) \/ q \in begun
  BY <1>1, <1>2 DEF Behind
<1>3. CASE StaysReady(q) /\ q \notin begun
  <2>1. /\ q \in Live /\ processes[q].state = "Ready"
        /\ q \in Live' /\ processes'[q].state = "Ready"
    BY <1>3 DEF StaysReady, Live
  <2>2. Orderly(q, p, begun, ready_queue')
    BY <2>1 DEF StepInLine
  <2>3. turns[q][p] \in 0..2
    OBVIOUS
  <2>4. CASE p \in begun
    <3>1. ~Before(ready_queue, q, p) /\ Before(ready_queue', q, p)
      BY <1>3, <2>1, <2>2, <2>4 DEF Orderly
    <3>2. turns[q][p] = 0
      BY <2>3, <3>1 DEF Behind
    <3>3. turns'[q][p] = 1
      BY <1>1, <1>3, <2>4, <3>2
    <3> QED BY <2>1, <3>1, <3>3 DEF Behind
  <2>5. CASE p \notin begun
    <3>1. Before(ready_queue, q, p) => Before(ready_queue', q, p)
      BY <1>3, <2>1, <2>2, <2>5 DEF Orderly
    <3>2. turns'[q][p] = turns[q][p]
      BY <1>1, <1>3, <2>5
    <3> QED BY <2>1, <3>1, <3>2 DEF Behind
  <2> QED BY <2>4, <2>5
<1> QED BY <1>2, <1>3

\* What a step has to keep for each process that the user leaves alone.
LEMMA StepKeepsRR ==
    ASSUME RRInv, IInv', steered \subseteq steered', NEW begun, Counts(begun),
           \A p \in Pids \ steered' :
             StepInLine(p, begun) /\ HandedOut(ready_queue', next_pid')
    PROVE  RRInv'
<1>1. turns' \in [Pids -> [Pids -> 0..2]]
  BY TurnsCounted DEF RRInv
<1>2. ASSUME NEW p \in Pids \ steered'
      PROVE  /\ InLine(processes', ready_queue', p)
             /\ HandedOut(ready_queue', next_pid')
             /\ \A q \in Pids : Behind(q, p)'
  <2>1. StepInLine(p, begun) /\ HandedOut(ready_queue', next_pid')
    OBVIOUS
  <2>2. p \in Pids \ steered /\ turns \in [Pids -> [Pids -> 0..2]]
    BY DEF RRInv
  <2>3. ASSUME NEW q \in Pids PROVE Behind(q, p)'
    <3>1. Behind(q, p)
      BY <2>2 DEF RRInv
    <3> QED BY <2>1, <2>2, <3>1, BehindStep
  <2> QED BY <2>1, <2>3 DEF StepInLine
<1> QED BY <1>1, <1>2 DEF RRInv

LEMMA RRInitInvariant == RRInit => RRInv
<1> SUFFICES ASSUME RRInit PROVE RRInv
  OBVIOUS
<1>1. IInv
  BY InitInvariant DEF RRInit, MCInit
<1>2. turns = [q \in Pids |-> [p \in Pids |-> 0]] /\ ready_queue = <<>> /\ processes = <<>>
  BY DEF RRInit, MCInit, Init
<1>3. turns \in [Pids -> [Pids -> 0..2]]
  BY <1>2
<1>4. ASSUME NEW p \in Pids
      PROVE  InLine(processes, ready_queue, p) /\ HandedOut(ready_queue, next_pid)
  BY <1>2 DEF InLine, HandedOut
<1>5. ASSUME NEW p \in Pids, NEW q \in Pids PROVE Behind(q, p)
  BY <1>2 DEF Behind
<1> QED BY <1>1, <1>3, <1>4, <1>5 DEF RRInv

LEMMA RRNextInvariant == RRInv /\ [RRNext]_rrVars => RRInv'
<1> SUFFICES ASSUME RRInv, [RRNext]_rrVars PROVE RRInv'
  OBVIOUS
<1>1. IInv /\ \A p \in Pids \ steered :
        InLine(processes, ready_queue, p) /\ HandedOut(ready_queue, next_pid)
  BY DEF RRInv
<1>2. CASE RRTick
  <2>1. Tick /\ Counts(Beginner) /\ steered' = steered
    BY <1>2 DEF RRTick, MCTick
  <2>2. IInv'
    BY <1>1, <2>1, TickInvariant
  <2>3. \A p \in Pids \ steered' :
          StepInLine(p, Beginner) /\ HandedOut(ready_queue', next_pid')
    BY <1>1, <2>1, <2>2, TickInLine
  <2> QED BY <2>1, <2>2, <2>3, StepKeepsRR
<1>3. ASSUME NEW size \in Lengths, Create(size), Counts({}), steered' = steered
      PROVE  RRInv'
  <2>1. IInv'
    BY <1>1, <1>3, CreateInvariant
  <2>2. \A p \in Pids \ steered' : StepInLine(p, {}) /\ HandedOut(ready_queue', next_pid')
    BY <1>1, <1>3, <2>1, CreateInLine
  <2> QED BY <1>3, <2>1, <2>2, StepKeepsRR
<1>4. ASSUME NEW x \in Pids, Kill(x), Counts({}), steered' = steered
      PROVE  RRInv'
  <2>1. IInv'
    BY <1>1, <1>4, KillInvariant
  <2>2. \A p \in Pids \ steered' : StepInLine(p, {}) /\ HandedOut(ready_queue', next_pid')
    BY <1>1, <1>4, <2>1, KillInLine
  <2> QED BY <1>4, <2>1, <2>2, StepKeepsRR
<1>5. ASSUME NEW x \in Pids, Run(x) \/ Wakeup(x), Counts({}), steered' = steered \cup {x}
      PROVE  RRInv'
  <2>1. IInv'
    BY <1>1, <1>5, RunInvariant, WakeupInvariant
  <2>2. \A p \in Pids \ steered' : StepInLine(p, {}) /\ HandedOut(ready_queue', next_pid')
    <3> TAKE p \in Pids \ steered'
    <3>1. /\ p \in Pids /\ x # p
          /\ InLine(processes, ready_queue, p) /\ HandedOut(ready_queue, next_pid)
      BY <1>1, <1>5
    <3> QED BY <1>1, <1>5, <2>1, <3>1, RunInLine, WakeupInLine
  <2> QED BY <1>5, <2>1, <2>2, StepKeepsRR
<1>6. ASSUME NEW x \in Pids, NEW duration \in Durations, Block(x, duration),
             Counts({cur_pid'} \ {cur_pid}), steered' = steered \cup {x}
      PROVE  RRInv'
  <2>1. IInv'
    BY <1>1, <1>6, BlockInvariant
  <2>2. \A p \in Pids \ steered' : /\ StepInLine(p, {cur_pid'} \ {cur_pid})
                                   /\ HandedOut(ready_queue', next_pid')
    <3> TAKE p \in Pids \ steered'
    <3>1. /\ p \in Pids /\ x # p
          /\ InLine(processes, ready_queue, p) /\ HandedOut(ready_queue, next_pid)
      BY <1>1, <1>6
    <3> QED BY <1>1, <1>6, <2>1, <3>1, BlockInLine
  <2> QED BY <1>6, <2>1, <2>2, StepKeepsRR
<1>7. CASE RRSteer
  BY <1>5, <1>6, <1>7 DEF RRSteer
<1>8. CASE UNCHANGED rrVars
  BY <1>8 DEF rrVars, mcVars, RRInv, IInv, Live, Behind
<1> QED BY <1>2, <1>3, <1>4, <1>7, <1>8 DEF RRNext

\* While a process stays Ready, no process that the user left alone begins a
\* second turn: schedule() takes the first, and whoever comes back queues last.
THEOREM OneTurnHolds == RRSpec => []OneTurnUnlessSteered
<1>1. RRInv => OneTurnUnlessSteered
  <2> SUFFICES ASSUME RRInv, NEW q \in Pids, NEW p \in Pids \ steered
               PROVE  turns[q][p] <= 1
    BY DEF OneTurnUnlessSteered
  <2>1. turns[q][p] \in 0..2 /\ Behind(q, p)
    BY DEF RRInv
  <2> QED BY <2>1 DEF Behind
<1> QED BY <1>1, RRInitInvariant, RRNextInvariant, PTL DEF RRSpec
=============================================================================
