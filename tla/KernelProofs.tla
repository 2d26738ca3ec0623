---------------------------- MODULE KernelProofs ----------------------------
(***************************************************************************)
(* What processes hold of other parts of the kernel is theirs as long as   *)
(* they live, for any number of processes and files, any programs, any     *)
(* operands and any range of descriptors.  A step of Kernel is one of      *)
(* ProcessManager, or leaves it alone, so its inductive invariant holds    *)
(* here too; it says which processes live and how far they have come.      *)
(***************************************************************************)
EXTENDS Kernel, ProcessManagerProofs

\* The open files are those that the processes' descriptors lead to, each by
\* one of them; the next number is new.
Owned(maps, open, next) ==
    /\ next \in Int
    /\ \A n \in DOMAIN open : n \in Int /\ n < next
    /\ \A n : n \in DOMAIN open <=>
                \E p \in DOMAIN maps : \E s \in DOMAIN maps[p] : maps[p][s] = n
    /\ \A p, q \in DOMAIN maps : \A s \in DOMAIN maps[p], t \in DOMAIN maps[q] :
         maps[p][s] = maps[q][t] => p = q /\ s = t

\* The descriptors are ints that an instruction can name.
Numbered(maps, nexts) ==
    /\ DOMAIN nexts = DOMAIN maps
    /\ \A p \in DOMAIN maps : nexts[p] \in Int /\ DOMAIN maps[p] \subseteq 0..IntMax

\* The inductive invariant.
KInv ==
    /\ IInv
    /\ DOMAIN fd_map = Live
    /\ page_tables = Live
    /\ Owned(fd_map, open_files, next_fd)
    /\ Numbered(fd_map, next_script_fd)

-----------------------------------------------------------------------------
(* The file instructions.                                                   *)

\* What an instruction does to the descriptors of the process and to the
\* open files: nothing, or one is added to both, or taken from both.
Unchanged(w, r) ==
    /\ r.map = w.map /\ DOMAIN r.open = DOMAIN w.open
    /\ r.next_fd \in {w.next_fd, w.next_fd + 1}

Gained(w, r) ==
    /\ \E fd \in 0..IntMax : fd \notin DOMAIN w.map /\ r.map = Bound(w.map, fd, w.next_fd)
    /\ DOMAIN r.open = DOMAIN w.open \cup {w.next_fd}
    /\ r.next_fd = w.next_fd + 1

Lost(w, r) ==
    \E fd \in DOMAIN w.map :
        /\ r.map = Unbound(w.map, fd)
        /\ DOMAIN r.open = DOMAIN w.open \ {w.map[fd]}
        /\ r.next_fd = w.next_fd

\* Files that are open under other descriptors are left alone.
Elsewhere(w, r) ==
    \A n \in DOMAIN w.open : n \notin Range(w.map) => r.open[n] = w.open[n]

Effect(w, r) ==
    /\ Unchanged(w, r) \/ Gained(w, r) \/ Lost(w, r)
    /\ Elsewhere(w, r)
    /\ r.next \in Int

\* Such a record, of the parts that Held() collects.
HoldingOf(map, next, open, next_fd_, sizes_) ==
    [map |-> map, next |-> next, open |-> open, next_fd |-> next_fd_, sizes |-> sizes_]

IsHolding(w) ==
    /\ \E map, next, open, n, lengths : w = HoldingOf(map, next, open, n, lengths)
    /\ w.next \in Int

\* What opening and closing a file does to the record.
LEMMA OpenedFacts ==
    ASSUME NEW w, IsHolding(w), NEW file
    PROVE  LET r == Opened(w, file)
           IN  /\ IsHolding(r)
               /\ \A m \in DOMAIN w.open : m # w.next_fd => r.open[m] = w.open[m]
               /\ r.map = w.map /\ r.next = w.next
               /\ DOMAIN r.open = DOMAIN w.open \cup {w.next_fd}
               /\ r.next_fd = w.next_fd + 1
<1>1. PICK map, next, open, n, lengths : w = HoldingOf(map, next, open, n, lengths)
  BY DEF IsHolding
<1> DEFINE more == Bound(open, n, [file |-> file, offset |-> 0])
<1>2. Opened(w, file) = HoldingOf(map, next, more, n + 1, lengths)
  <2>1. w.open = open /\ w.next_fd = n
    BY <1>1 DEF HoldingOf
  <2>2. Opened(w, file) = [w EXCEPT !.open = more, !.next_fd = n + 1]
    BY <2>1 DEF Opened
  <2> HIDE DEF more
  <2> QED BY <1>1, <2>2 DEF HoldingOf
<1>3. /\ DOMAIN more = DOMAIN open \cup {n}
      /\ \A m \in DOMAIN open : m # n => more[m] = open[m]
  BY DEF Bound
<1> HIDE DEF more
<1>4. Opened(w, file).next = w.next
  BY <1>1, <1>2 DEF HoldingOf
<1>5. IsHolding(Opened(w, file))
  BY <1>2, <1>4 DEF IsHolding
<1> QED BY <1>1, <1>2, <1>3, <1>5 DEF HoldingOf

LEMMA ClosedFacts ==
    ASSUME NEW w, IsHolding(w), NEW fs_fd
    PROVE  LET r == Closed(w, fs_fd)
           IN  /\ IsHolding(r)
               /\ \A m \in DOMAIN w.open : m # fs_fd => r.open[m] = w.open[m]
               /\ r.map = w.map
               /\ DOMAIN r.open = DOMAIN w.open \ {fs_fd}
               /\ r.next_fd = w.next_fd
<1>1. PICK map, next, open, n, lengths : w = HoldingOf(map, next, open, n, lengths)
  BY DEF IsHolding
<1> DEFINE less == Unbound(open, fs_fd)
<1>2. Closed(w, fs_fd) = HoldingOf(map, next, less, n, lengths)
  BY <1>1 DEF Closed, HoldingOf
<1>3. /\ DOMAIN less = DOMAIN open \ {fs_fd}
      /\ \A m \in DOMAIN open : m # fs_fd => less[m] = open[m]
  BY DEF Unbound, Restrict
<1> HIDE DEF less
<1>4. Closed(w, fs_fd).next = w.next
  BY <1>1, <1>2 DEF HoldingOf
<1>5. IsHolding(Closed(w, fs_fd))
  BY <1>2, <1>4 DEF IsHolding
<1> QED BY <1>1, <1>2, <1>3, <1>5 DEF HoldingOf

\* So does a change of the counter.
LEMMA CounterFacts ==
    ASSUME NEW w, IsHolding(w), NEW x \in Int
    PROVE  LET r == [w EXCEPT !.next = x]
           IN  /\ IsHolding(r)
               /\ r.map = w.map /\ r.open = w.open /\ r.next_fd = w.next_fd
<1>1. PICK map, next, open, n, lengths : w = HoldingOf(map, next, open, n, lengths)
  BY DEF IsHolding
<1>2. [w EXCEPT !.next = x] = HoldingOf(map, x, open, n, lengths)
  BY <1>1 DEF HoldingOf
<1>3. [w EXCEPT !.next = x].next = x
  BY <1>2 DEF HoldingOf
<1>4. IsHolding([w EXCEPT !.next = x])
  BY <1>2, <1>3 DEF IsHolding
<1> QED BY <1>1, <1>2, <1>4 DEF HoldingOf

\* So does a change of the descriptors.
LEMMA MapFacts ==
    ASSUME NEW w, IsHolding(w), NEW x
    PROVE  LET r == [w EXCEPT !.map = x]
           IN  /\ IsHolding(r)
               /\ r.map = x /\ r.open = w.open /\ r.next_fd = w.next_fd
<1>1. PICK map, next, open, n, lengths : w = HoldingOf(map, next, open, n, lengths)
  BY DEF IsHolding
<1>2. [w EXCEPT !.map = x] = HoldingOf(x, next, open, n, lengths)
  BY <1>1 DEF HoldingOf
<1>3. [w EXCEPT !.map = x].next = w.next
  BY <1>1, <1>2 DEF HoldingOf
<1>4. IsHolding([w EXCEPT !.map = x])
  BY <1>2, <1>3 DEF IsHolding
<1> QED BY <1>1, <1>2, <1>4 DEF HoldingOf

\* FO with a descriptor: refused, without effect, or one more file.
LEMMA OpenAsEffect ==
    ASSUME NEW w, IsHolding(w), w.next_fd \notin DOMAIN w.open,
           NEW fd \in Operands, NEW r \in OpenAs(w, fd)
    PROVE  Effect(w, r)
<1>1. CASE Refused(w, fd)
  BY <1>1 DEF OpenAs, Effect, Elsewhere, Unchanged, IsHolding
<1>2. CASE ~Refused(w, fd)
  <2> DEFINE number == IF fd >= w.next THEN Wrapped(fd + 1) ELSE w.next
             q == [w EXCEPT !.next = number]
  <2>1. /\ IsHolding(q)
        /\ q.map = w.map /\ q.open = w.open /\ q.next_fd = w.next_fd
    <3>1. number \in Int
      BY KernelAssumption DEF Wrapped, IsHolding
    <3> HIDE DEF number
    <3> QED BY <3>1, CounterFacts
  <2>2. r = q \/ \E file \in Files :
                   r = [Opened(q, file) EXCEPT !.map = Bound(@, fd, w.next_fd)]
    BY <1>2 DEF OpenAs
  <2> HIDE DEF q
  <2>3. CASE r = q
    BY <2>1, <2>3 DEF Effect, Elsewhere, Unchanged, IsHolding
  <2>4. CASE r # q
    <3>1. PICK file \in Files :
            r = [Opened(q, file) EXCEPT !.map = Bound(@, fd, w.next_fd)]
      BY <2>2, <2>4
    <3>2. /\ IsHolding(Opened(q, file))
          /\ Opened(q, file).map = w.map
          /\ DOMAIN Opened(q, file).open = DOMAIN w.open \cup {w.next_fd}
          /\ \A m \in DOMAIN w.open : m # w.next_fd => Opened(q, file).open[m] = w.open[m]
          /\ Opened(q, file).next_fd = w.next_fd + 1
      BY <2>1, OpenedFacts
    <3>3. /\ r.map = Bound(w.map, fd, w.next_fd)
          /\ r.open = Opened(q, file).open /\ r.next_fd = Opened(q, file).next_fd
          /\ IsHolding(r)
      <4>1. r = [Opened(q, file) EXCEPT !.map = Bound(w.map, fd, w.next_fd)]
        BY <3>1, <3>2
      <4> QED BY <3>2, <4>1, MapFacts
    <3>4. fd \in 0..IntMax /\ fd \notin DOMAIN w.map
      BY <1>2, KernelAssumption DEF Refused
    <3> QED BY <3>2, <3>3, <3>4 DEF Effect, Elsewhere, Gained, IsHolding
  <2> QED BY <2>3, <2>4
<1> QED BY <1>1, <1>2

\* FO without a descriptor: when there is none left, the file that was
\* opened is closed again.
LEMMA OpenAutoEffect ==
    ASSUME NEW w, IsHolding(w), w.next_fd \notin DOMAIN w.open, NEW r \in OpenAuto(w)
    PROVE  Effect(w, r)
<1>1. CASE r = w
  BY <1>1 DEF Effect, Elsewhere, Unchanged, IsHolding
<1>2. CASE r # w
  <2>1. PICK at \in Files \X Allocated(w) :
          LET q == [Opened(w, at[1]) EXCEPT !.next = IF at[2] = IntMax THEN IntMax
                                                      ELSE at[2] + 1]
          IN  r = IF Usable(at[2]) THEN [q EXCEPT !.map = Bound(@, at[2], w.next_fd)]
                  ELSE GivenUp(q, w.next_fd)
    BY <1>2 DEF OpenAuto
  <2> DEFINE number == IF at[2] = IntMax THEN IntMax ELSE at[2] + 1
             q == [Opened(w, at[1]) EXCEPT !.next = number]
  <2>2. /\ IsHolding(Opened(w, at[1]))
        /\ Opened(w, at[1]).map = w.map
        /\ DOMAIN Opened(w, at[1]).open = DOMAIN w.open \cup {w.next_fd}
        /\ \A m \in DOMAIN w.open : m # w.next_fd => Opened(w, at[1]).open[m] = w.open[m]
        /\ Opened(w, at[1]).next_fd = w.next_fd + 1
    BY OpenedFacts
  <2>3. /\ IsHolding(q) /\ q.map = w.map
        /\ DOMAIN q.open = DOMAIN w.open \cup {w.next_fd}
        /\ \A m \in DOMAIN w.open : m # w.next_fd => q.open[m] = w.open[m]
        /\ q.next_fd = w.next_fd + 1
    <3>1. number \in Int
      <4>1. at[2] \in Int
        BY DEF Allocated, Firsts
      <4> QED BY <4>1, KernelAssumption
    <3> HIDE DEF number
    <3> QED BY <2>2, <3>1, CounterFacts
  <2>4. r = IF Usable(at[2]) THEN [q EXCEPT !.map = Bound(w.map, at[2], w.next_fd)]
            ELSE GivenUp(q, w.next_fd)
    BY <2>1, <2>3
  <2> HIDE DEF q
  <2>5. CASE Usable(at[2])
    <3>1. at[2] \in 0..IntMax /\ at[2] \notin DOMAIN w.map
      <4>1. w.next \in Int
        BY DEF IsHolding
      <4> QED BY <2>5, <4>1, KernelAssumption DEF Allocated, Firsts, Usable
    <3>2. /\ r.map = Bound(w.map, at[2], w.next_fd)
          /\ r.open = q.open /\ r.next_fd = q.next_fd
          /\ IsHolding(r)
      BY <2>3, <2>4, <2>5, MapFacts
    <3> QED BY <2>3, <3>1, <3>2 DEF Effect, Elsewhere, Gained, IsHolding
  <2>6. CASE ~Usable(at[2])
    <3>1. /\ r.map = q.map
          /\ DOMAIN r.open = DOMAIN q.open \ {w.next_fd}
          /\ \A m \in DOMAIN q.open : m # w.next_fd => r.open[m] = q.open[m]
          /\ r.next_fd = q.next_fd
          /\ IsHolding(r)
      BY <2>3, <2>4, <2>6, ClosedFacts DEF GivenUp
    <3> QED BY <2>3, <3>1 DEF Effect, Elsewhere, Unchanged, IsHolding
  <2> QED BY <2>5, <2>6
<1> QED BY <1>1, <1>2

\* FC: what the descriptor leads to is closed.
LEMMA CloseEffect ==
    ASSUME NEW w, IsHolding(w), NEW fd, NEW r \in Close(w, fd)
    PROVE  Effect(w, r)
<1>1. CASE fd \notin DOMAIN w.map
  BY <1>1 DEF Close, Effect, Elsewhere, Unchanged, IsHolding
<1>2. CASE fd \in DOMAIN w.map
  <2> DEFINE q == Closed(w, w.map[fd])
  <2>1. /\ IsHolding(q) /\ q.map = w.map
        /\ DOMAIN q.open = DOMAIN w.open \ {w.map[fd]}
        /\ \A m \in DOMAIN w.open : m # w.map[fd] => q.open[m] = w.open[m]
        /\ q.next_fd = w.next_fd
    BY ClosedFacts
  <2>2. r = [q EXCEPT !.map = Unbound(w.map, fd)]
    BY <1>2, <2>1 DEF Close
  <2> HIDE DEF q
  <2>3. /\ r.map = Unbound(w.map, fd)
        /\ r.open = q.open /\ r.next_fd = q.next_fd
        /\ IsHolding(r)
    BY <2>1, <2>2, MapFacts
  <2>4. w.map[fd] \in Range(w.map)
    BY <1>2 DEF Range
  <2> QED BY <1>2, <2>1, <2>3, <2>4 DEF Effect, Elsewhere, Lost, IsHolding
<1> QED BY <1>1, <1>2

\* FR and FW move the offset, and FW the end of the file.
LEMMA TransferEffect ==
    ASSUME NEW w, IsHolding(w), NEW fd, NEW size,
           NEW r \in Read(w, fd, size) \cup Write(w, fd, size)
    PROVE  Effect(w, r)
<1>1. CASE r = w
  BY <1>1 DEF Effect, Elsewhere, Unchanged, IsHolding
<1>2. CASE r # w
  <2>1. PICK map, next, open, n, lengths : w = HoldingOf(map, next, open, n, lengths)
    BY DEF IsHolding
  <2>2. w.open = open /\ w.sizes = lengths
    BY <2>1 DEF HoldingOf
  <2> DEFINE s == FsFd(w, fd)
  <2>3. s \in Range(w.map)
    BY <1>2 DEF Read, Write, FsFd, Range
  <2>4. \E offset, after :
          r = [w EXCEPT !.open = [open EXCEPT ![s] = offset], !.sizes = after]
    <3>1. CASE r \in Read(w, fd, size)
      <4> DEFINE rest == w.sizes[open[s].file] - open[s].offset
                 moved == [open[s] EXCEPT !.offset = @ + Reach(size, rest)]
      <4>1. r = [w EXCEPT !.open[s].offset = @ + Reach(size, rest)]
        BY <1>2, <2>2, <3>1 DEF Read
      <4>2. r = [w EXCEPT !.open = [open EXCEPT ![s] = moved], !.sizes = lengths]
        BY <2>1, <2>2, <4>1 DEF HoldingOf
      <4> QED BY <4>2
    <3>2. CASE r \in Write(w, fd, size)
      <4> DEFINE file == open[s]
      <4>1. PICK count :
              r = [w EXCEPT !.open[s].offset = @ + count,
                            !.sizes[file.file] = IF file.offset + count > @
                                                 THEN file.offset + count ELSE @]
        BY <1>2, <2>2, <3>2 DEF Write
      <4> DEFINE moved == [file EXCEPT !.offset = @ + count]
                 after == [lengths EXCEPT ![file.file] = IF file.offset + count > @
                                                         THEN file.offset + count ELSE @]
      <4>2. r = [w EXCEPT !.open = [open EXCEPT ![s] = moved], !.sizes = after]
        BY <2>1, <2>2, <4>1 DEF HoldingOf
      <4> QED BY <4>2
    <3> QED BY <3>1, <3>2
  <2>5. PICK offset, after :
          r = [w EXCEPT !.open = [open EXCEPT ![s] = offset], !.sizes = after]
    BY <2>4
  <2>6. r = HoldingOf(map, next, [open EXCEPT ![s] = offset], n, after)
    BY <2>1, <2>5 DEF HoldingOf
  <2> DEFINE moved == [open EXCEPT ![s] = offset]
  <2>7. DOMAIN moved = DOMAIN open /\ \A m \in DOMAIN open : m # s => moved[m] = open[m]
    OBVIOUS
  <2>8. r = HoldingOf(map, next, moved, n, after)
    BY <2>6
  <2> HIDE DEF moved
  <2>9. /\ r.map = w.map /\ r.open = moved /\ w.open = open
        /\ r.next_fd = w.next_fd /\ r.next = w.next
    BY <2>1, <2>8 DEF HoldingOf
  <2> QED BY <2>3, <2>7, <2>9 DEF Effect, Elsewhere, Unchanged, IsHolding
<1> QED BY <1>1, <1>2

\* Every file instruction.
LEMMA InstructionEffect ==
    ASSUME NEW w, IsHolding(w), w.next_fd \notin DOMAIN w.open, NEW r \in FileInstruction(w)
    PROVE  Effect(w, r)
<1>1. CASE r \in OpenAuto(w)
  BY <1>1, OpenAutoEffect
<1>2. CASE r \notin OpenAuto(w)
  <2>1. PICK fd \in Operands :
          r \in OpenAs(w, fd) \cup Close(w, fd) \cup
                UNION {Read(w, fd, size) \cup Write(w, fd, size) : size \in Sizes}
    BY <1>2, Zenon DEF FileInstruction
  <2>2. CASE r \in OpenAs(w, fd) \cup Close(w, fd)
    BY <2>2, OpenAsEffect, CloseEffect
  <2>3. CASE r \in UNION {Read(w, fd, size) \cup Write(w, fd, size) : size \in Sizes}
    <3>1. PICK size \in Sizes : r \in Read(w, fd, size) \cup Write(w, fd, size)
      BY <2>3, Zenon
    <3> QED BY <3>1, TransferEffect
  <2> QED BY <2>1, <2>2, <2>3, Zenon
<1> QED BY <1>1, <1>2

-----------------------------------------------------------------------------
(* The two tables.                                                          *)

\* The running process keeps what the instruction left it.
LEMMA KeepOwned ==
    ASSUME NEW maps, NEW open, NEW next, Owned(maps, open, next), NEW p \in DOMAIN maps,
           NEW w, w.map = maps[p], w.open = open, w.next_fd = next, NEW r, Effect(w, r)
    PROVE  Owned([maps EXCEPT ![p] = r.map], r.open, r.next_fd)
<1> DEFINE after == [maps EXCEPT ![p] = r.map]
<1>1. /\ DOMAIN after = DOMAIN maps /\ after[p] = r.map
      /\ \A q \in DOMAIN maps \ {p} : after[q] = maps[q]
  OBVIOUS
<1> HIDE DEF after
<1>2. next \in Int /\ \A n \in DOMAIN open : n \in Int /\ n < next
  BY DEF Owned
<1>3. CASE Unchanged(w, r)
  <2>1. \A q \in DOMAIN maps : after[q] = maps[q]
    BY <1>1, <1>3 DEF Unchanged
  <2>2. DOMAIN r.open = DOMAIN open /\ r.next_fd \in {next, next + 1}
    BY <1>3 DEF Unchanged
  <2>3. r.next_fd \in Int /\ \A n \in DOMAIN r.open : n \in Int /\ n < r.next_fd
    BY <1>2, <2>2
  <2> QED BY <1>1, <2>1, <2>2, <2>3 DEF Owned, after
<1>4. CASE Gained(w, r)
  <2>1. PICK fd : fd \notin DOMAIN maps[p] /\ r.map = Bound(maps[p], fd, next)
    BY <1>4 DEF Gained
  <2>2. DOMAIN r.open = DOMAIN open \cup {next} /\ r.next_fd = next + 1
    BY <1>4 DEF Gained
  <2>3. /\ DOMAIN after[p] = DOMAIN maps[p] \cup {fd} /\ after[p][fd] = next
        /\ \A s \in DOMAIN maps[p] : after[p][s] = maps[p][s]
    BY <1>1, <2>1 DEF Bound
  <2>4. next \notin DOMAIN open
    BY <1>2
  <2>5. \A q \in DOMAIN maps : \A s \in DOMAIN maps[q] : maps[q][s] # next
    BY <2>4 DEF Owned
  <2>6. r.next_fd \in Int /\ \A n \in DOMAIN r.open : n \in Int /\ n < r.next_fd
    BY <1>2, <2>2
  <2>7. \A n : n \in DOMAIN r.open <=>
                 \E q \in DOMAIN after : \E s \in DOMAIN after[q] : after[q][s] = n
    BY <1>1, <2>2, <2>3 DEF Owned
  <2>8. \A q, u \in DOMAIN after : \A s \in DOMAIN after[q], t \in DOMAIN after[u] :
          after[q][s] = after[u][t] => q = u /\ s = t
    BY <1>1, <2>3, <2>5 DEF Owned
  <2> QED BY <2>6, <2>7, <2>8 DEF Owned, after
<1>5. CASE Lost(w, r)
  <2>1. PICK fd \in DOMAIN maps[p] :
          /\ r.map = Unbound(maps[p], fd)
          /\ DOMAIN r.open = DOMAIN open \ {maps[p][fd]}
          /\ r.next_fd = next
    BY <1>5 DEF Lost
  <2>2. /\ DOMAIN after[p] = DOMAIN maps[p] \ {fd}
        /\ \A s \in DOMAIN maps[p] \ {fd} : after[p][s] = maps[p][s]
    BY <1>1, <2>1 DEF Unbound, Restrict
  <2>3. r.next_fd \in Int /\ \A n \in DOMAIN r.open : n \in Int /\ n < r.next_fd
    BY <1>2, <2>1
  <2>4. \A n : n \in DOMAIN r.open <=>
                 \E q \in DOMAIN after : \E s \in DOMAIN after[q] : after[q][s] = n
    BY <1>1, <2>1, <2>2 DEF Owned
  <2>5. \A q, u \in DOMAIN after : \A s \in DOMAIN after[q], t \in DOMAIN after[u] :
          after[q][s] = after[u][t] => q = u /\ s = t
    BY <1>1, <2>2 DEF Owned
  <2> QED BY <2>3, <2>4, <2>5 DEF Owned, after
<1> QED BY <1>3, <1>4, <1>5 DEF Effect

\* A process that ends gives back what it has, and nothing else.
LEMMA GiveBackOwned ==
    ASSUME NEW maps, NEW open, NEW next, Owned(maps, open, next), NEW p \in DOMAIN maps
    PROVE  Owned(Unbound(maps, p), Restrict(open, DOMAIN open \ Range(maps[p])), next)
<1> DEFINE rest == Unbound(maps, p)
           left == Restrict(open, DOMAIN open \ Range(maps[p]))
<1>1. /\ DOMAIN rest = DOMAIN maps \ {p}
      /\ \A q \in DOMAIN maps \ {p} : rest[q] = maps[q]
  BY DEF Unbound, Restrict
<1>2. DOMAIN left = DOMAIN open \ Range(maps[p])
  BY DEF Restrict
<1>3. \A n : n \in Range(maps[p]) <=> \E s \in DOMAIN maps[p] : maps[p][s] = n
  BY DEF Range
<1> HIDE DEF rest, left
<1>4. next \in Int /\ \A n \in DOMAIN left : n \in Int /\ n < next
  BY <1>2 DEF Owned
<1>5. \A n : n \in DOMAIN left <=>
               \E q \in DOMAIN rest : \E s \in DOMAIN rest[q] : rest[q][s] = n
  BY <1>1, <1>2, <1>3 DEF Owned
<1>6. \A q, u \in DOMAIN rest : \A s \in DOMAIN rest[q], t \in DOMAIN rest[u] :
        rest[q][s] = rest[u][t] => q = u /\ s = t
  BY <1>1 DEF Owned
<1> QED BY <1>4, <1>5, <1>6 DEF Owned, rest, left

\* A process starts with no descriptors.
LEMMA StartOwned ==
    ASSUME NEW maps, NEW open, NEW next, Owned(maps, open, next), NEW p, p \notin DOMAIN maps
    PROVE  Owned(Bound(maps, p, <<>>), open, next)
<1> DEFINE more == Bound(maps, p, <<>>)
<1>1. /\ DOMAIN more = DOMAIN maps \cup {p}
      /\ DOMAIN more[p] = {}
      /\ \A q \in DOMAIN maps : more[q] = maps[q]
  BY DEF Bound
<1> HIDE DEF more
<1> QED BY <1>1 DEF Owned, more

\* The descriptors remain ints that an instruction can name, when the running
\* process keeps what the instruction left it, and when one starts or ends.
LEMMA NumberedFacts ==
    ASSUME NEW maps, NEW nexts, Numbered(maps, nexts), NEW p
    PROVE  /\ Numbered(Unbound(maps, p), Unbound(nexts, p))
           /\ Numbered(Bound(maps, p, <<>>), Bound(nexts, p, 3))
           /\ \A w, r : p \in DOMAIN maps /\ w.map = maps[p] /\ Effect(w, r) =>
                Numbered([maps EXCEPT ![p] = r.map], [nexts EXCEPT ![p] = r.next])
<1>1. Numbered(Unbound(maps, p), Unbound(nexts, p))
  BY DEF Numbered, Unbound, Restrict
<1>2. Numbered(Bound(maps, p, <<>>), Bound(nexts, p, 3))
  <2>1. DOMAIN <<>> = {}
    OBVIOUS
  <2> QED BY <2>1 DEF Numbered, Bound
<1>3. ASSUME NEW w, NEW r, p \in DOMAIN maps, w.map = maps[p], Effect(w, r)
      PROVE  Numbered([maps EXCEPT ![p] = r.map], [nexts EXCEPT ![p] = r.next])
  <2>1. DOMAIN maps[p] \subseteq 0..IntMax /\ r.next \in Int
    BY <1>3 DEF Numbered, Effect
  <2>2. DOMAIN r.map \subseteq 0..IntMax
    BY <1>3, <2>1 DEF Effect, Unchanged, Gained, Lost, Bound, Unbound, Restrict
  <2> QED BY <2>1, <2>2 DEF Numbered
<1> QED BY <1>1, <1>2, <1>3

-----------------------------------------------------------------------------
(* Who lives after a tick.                                                  *)

\* A tick dispatches one process.
LEMMA DispatchedIsUnique ==
    ASSUME IInv, NEW d \in Dispatched, NEW e \in Dispatched
    PROVE  d = e
<1>1. CASE cur_pid # NoPid
  BY <1>1 DEF Dispatched
<1>2. CASE cur_pid = NoPid
  <2> DEFINE runnable == {i \in DOMAIN ready_queue :
                            /\ ready_queue[i] \in DOMAIN processes
                            /\ processes[ready_queue[i]].state = "Ready"}
  <2>1. d \in Scheduled(processes, ready_queue) /\ e \in Scheduled(processes, ready_queue)
    BY <1>2 DEF Dispatched
  <2>2. \A i \in runnable : i \in Int
    <3>1. ready_queue \in Seq(Pids)
      BY DEF IInv, Consistent, Typed
    <3> QED BY <3>1
  <2>3. \A i, j \in Firsts(runnable) : i = j
    <3> HIDE DEF runnable
    <3> QED BY <2>2 DEF Firsts
  <2>4. CASE runnable = {}
    BY <2>1, <2>4 DEF Scheduled
  <2>5. CASE runnable # {}
    <3> DEFINE result(i) == [pid   |-> ready_queue[i],
                             procs |-> [processes EXCEPT ![ready_queue[i]].state = "Running"],
                             queue |-> SubSeq(ready_queue, i + 1, Len(ready_queue))]
    <3>1. \E i \in Firsts(runnable) : d = result(i)
      BY <2>1, <2>5 DEF Scheduled
    <3>2. \E i \in Firsts(runnable) : e = result(i)
      BY <2>1, <2>5 DEF Scheduled
    <3> HIDE DEF runnable, result
    <3> QED BY <2>3, <3>1, <3>2
  <2> QED BY <2>4, <2>5
<1> QED BY <1>1, <1>2

\* The process that executed its last instruction goes, and nobody else.
LEMMA AccountDomain ==
    ASSUME NEW procs, NEW queue, NEW dev, NEW p \in DOMAIN procs, procs[p] \in PCB,
           Account(p, procs, queue, dev)
    PROVE  DOMAIN processes' = IF procs[p].left <= 1 THEN DOMAIN procs \ {p}
                               ELSE DOMAIN procs
<1> DEFINE pcb == procs[p]
           ran == [pcb EXCEPT !.left = IF @ > 0 THEN @ - 1 ELSE 0,
                              !.time_slice_left = @ - 1]
<1>1. pcb.left \in Nat /\ ran.left = IF pcb.left > 0 THEN pcb.left - 1 ELSE 0
  BY DEF PCB
<1>2. ran.left = 0 <=> pcb.left <= 1
  <2> HIDE DEF ran, pcb
  <2> QED BY <1>1
<1>3. ran.left > 0 => ran.left # 0
  <2> HIDE DEF ran, pcb
  <2> QED BY <1>1
<1>4. \/ /\ ran.left = 0
         /\ \E r \in Reaped(procs, queue, dev, p) : CheckBlocked(r.procs, r.queue)
      \/ /\ ran.left > 0
         /\ CheckBlocked([procs EXCEPT ![p] = Requeued(ran)], Append(queue, p))
      \/ /\ ran.left > 0
         /\ CheckBlocked([procs EXCEPT ![p] = ran], queue)
  BY Zenon DEF Account
<1>5. ASSUME NEW table, NEW line, CheckBlocked(table, line)
      PROVE  DOMAIN processes' = DOMAIN table
  BY <1>5 DEF CheckBlocked
<1>6. \A r \in Reaped(procs, queue, dev, p) : DOMAIN r.procs = DOMAIN procs \ {p}
  BY DEF Reaped, Restrict
<1>7. /\ DOMAIN [procs EXCEPT ![p] = Requeued(ran)] = DOMAIN procs
      /\ DOMAIN [procs EXCEPT ![p] = ran] = DOMAIN procs
  OBVIOUS
<1> HIDE DEF ran
<1> QED BY <1>2, <1>3, <1>4, <1>5, <1>6, <1>7

\* The same of a tick, whatever the instruction is.
LEMMA TickDomain ==
    ASSUME IInv, NEW d \in Dispatched,
           ComputeTick \/ SleepTick \/ DevRequestTick \/ DevReleaseTick
    PROVE  /\ d.pid \in Live
           /\ Live' = IF d.procs[d.pid].left <= 1 THEN Live \ {d.pid} ELSE Live
<1> DEFINE left == d.procs[d.pid].left
<1>1. \A e \in Dispatched : e = d
  BY DispatchedIsUnique
<1>2. d.pid # NoPid
  BY <1>1 DEF ComputeTick, SleepTick, DevRequestTick, DevReleaseTick
<1>3. /\ d.pid \in Live /\ DOMAIN d.procs = Live
      /\ d.procs[d.pid] \in PCB
  BY <1>2, DispatchedConsistent DEF Consistent, Typed
<1>4. ASSUME NEW pcb \in PCB
      PROVE  /\ \A duration \in Durations :
                  PutToSleep(pcb, duration) \in PCB /\ PutToSleep(pcb, duration).left = pcb.left
             /\ \A dev \in DevIds :
                  PutOnWait(pcb, dev) \in PCB /\ PutOnWait(pcb, dev).left = pcb.left
             /\ Roused(pcb) \in PCB /\ Roused(pcb).left = pcb.left
  <2>1. /\ \A duration \in Durations : PutToSleep(pcb, duration).left = pcb.left
        /\ \A dev \in DevIds : PutOnWait(pcb, dev).left = pcb.left
        /\ Roused(pcb).left = pcb.left
    BY DEF PutToSleep, PutOnWait, Roused, PCB
  <2> QED BY <2>1, PCBFacts
<1>5. ASSUME NEW procs, NEW queue, NEW dev, Account(d.pid, procs, queue, dev),
             DOMAIN procs = Live, procs[d.pid] \in PCB, procs[d.pid].left = left
      PROVE  Live' = IF left <= 1 THEN Live \ {d.pid} ELSE Live
  <2>1. d.pid \in DOMAIN procs
    BY <1>3, <1>5
  <2>2. DOMAIN processes' = IF procs[d.pid].left <= 1 THEN DOMAIN procs \ {d.pid}
                            ELSE DOMAIN procs
    BY <1>5, <2>1, AccountDomain
  <2> QED BY <1>5, <2>2 DEF Live
<1>6. CASE ComputeTick
  BY <1>1, <1>3, <1>5, <1>6 DEF ComputeTick
<1>7. CASE SleepTick
  <2>1. PICK duration \in Durations :
          Account(d.pid, [d.procs EXCEPT ![d.pid] = PutToSleep(@, duration)], d.queue, disk)
    BY <1>1, <1>7 DEF SleepTick
  <2> QED BY <1>3, <1>4, <1>5, <2>1
<1>8. CASE DevRequestTick
  <2>1. PICK dev \in DevIds :
          Account(d.pid,
                  IF dev = Disk /\ Grants(disk, d.pid) THEN d.procs
                  ELSE [d.procs EXCEPT ![d.pid] = PutOnWait(@, dev)],
                  d.queue,
                  IF dev = Disk THEN Requested(disk, d.pid) ELSE disk)
    BY <1>1, <1>8 DEF DevRequestTick
  <2> QED BY <1>3, <1>4, <1>5, <2>1
<1>9. CASE DevReleaseTick
  <2>1. \/ Account(d.pid, d.procs, d.queue, disk)
        \/ \E after : Account(d.pid, RouseHeir(d.procs, after.owner_pid),
                              PushHeir(d.queue, after.owner_pid), after)
    BY <1>1, <1>9 DEF DevReleaseTick
  <2>2. \A heir : LET procs == RouseHeir(d.procs, heir)
                  IN  /\ DOMAIN procs = Live /\ procs[d.pid] \in PCB
                      /\ procs[d.pid].left = left
    BY <1>3, <1>4 DEF RouseHeir
  <2> QED BY <1>3, <1>5, <2>1, <2>2
<1> QED BY <1>3, <1>6, <1>7, <1>8, <1>9

-----------------------------------------------------------------------------
(* The actions.                                                             *)

\* What the running process holds is of the kind that instructions work on.
LEMMA HeldFacts ==
    ASSUME NEW p, next_script_fd[p] \in Int
    PROVE  LET w == Held(p)
           IN  /\ IsHolding(w)
               /\ w.map = fd_map[p] /\ w.open = open_files /\ w.next_fd = next_fd
<1>1. Held(p) = HoldingOf(fd_map[p], next_script_fd[p], open_files, next_fd, sizes)
  BY DEF Held, HoldingOf
<1>2. Held(p).next = next_script_fd[p]
  BY <1>1 DEF HoldingOf
<1>3. IsHolding(Held(p))
  BY <1>1, <1>2 DEF IsHolding
<1> QED BY <1>1, <1>3 DEF HoldingOf

\* The end of a tick, after the instruction left w.
LEMMA SettleInvariant ==
    ASSUME KInv, NEW d \in Dispatched, d.pid \in Live,
           Live' = IF d.procs[d.pid].left <= 1 THEN Live \ {d.pid} ELSE Live,
           NEW w, Effect(Held(d.pid), w), Settle(d, w), IInv'
    PROVE  KInv'
<1> DEFINE p == d.pid
           after == [fd_map EXCEPT ![p] = w.map]
           counters == [next_script_fd EXCEPT ![p] = w.next]
<1>1. /\ p \in DOMAIN fd_map /\ DOMAIN fd_map = Live /\ page_tables = Live
      /\ Numbered(fd_map, next_script_fd) /\ next_script_fd[p] \in Int
  BY DEF KInv, Numbered
<1>2. Owned(after, w.open, w.next_fd) /\ Numbered(after, counters)
  <2>1. /\ Held(p).map = fd_map[p] /\ Held(p).open = open_files
        /\ Held(p).next_fd = next_fd
    BY <1>1, HeldFacts
  <2> QED BY <1>1, <2>1, KeepOwned, NumberedFacts DEF KInv
<1>3. DOMAIN after = Live /\ after[p] = w.map /\ Unbound(after, p) = Unbound(fd_map, p)
  BY <1>1 DEF Unbound, Restrict
<1>4. CASE d.procs[d.pid].left <= 1
  <2>1. /\ fd_map' = Unbound(after, p)
        /\ open_files' = Restrict(w.open, DOMAIN w.open \ Range(after[p]))
        /\ next_fd' = w.next_fd
        /\ page_tables' = page_tables \ {p}
    BY <1>3, <1>4 DEF Settle, GiveBack
  <2>2. DOMAIN fd_map' = Live \ {p}
    BY <1>3, <2>1 DEF Unbound, Restrict
  <2>3. Numbered(fd_map', next_script_fd')
    BY <1>1, <1>4, NumberedFacts DEF Settle, GiveBack
  <2> HIDE DEF after
  <2>4. Owned(fd_map', open_files', next_fd')
    BY <1>1, <1>2, <1>3, <2>1, GiveBackOwned
  <2> QED BY <1>1, <1>4, <2>1, <2>2, <2>4, <2>3 DEF KInv
<1>5. CASE ~(d.procs[d.pid].left <= 1)
  <2>1. /\ fd_map' = after /\ open_files' = w.open /\ next_fd' = w.next_fd
        /\ page_tables' = page_tables /\ next_script_fd' = counters
    BY <1>5 DEF Settle, Keep
  <2> QED BY <1>1, <1>2, <1>3, <1>5, <2>1 DEF KInv
<1> QED BY <1>4, <1>5

\* Every step of the kernel.
LEMMA KernelInvariant == KInv /\ [KernelNext]_kernelVars => KInv'
<1> SUFFICES ASSUME KInv, [KernelNext]_kernelVars PROVE KInv'
  OBVIOUS
<1> USE DEF Live
<1>1. ASSUME UNCHANGED held, Live' = Live, IInv' PROVE KInv'
  BY <1>1 DEF KInv, held
<1>2. ASSUME Next PROVE IInv'
  BY <1>2, NextInvariant DEF KInv
<1>3. CASE UNCHANGED kernelVars
  <2>1. IInv'
    BY <1>3, NextInvariant DEF kernelVars, KInv
  <2> QED BY <1>1, <1>3, <2>1 DEF kernelVars, vars
<1>4. CASE IdleTick /\ UNCHANGED held
  <2>1. PICK d \in Dispatched : CheckBlocked(d.procs, d.queue)
    BY <1>4 DEF IdleTick
  <2>2. DOMAIN d.procs = Live
    BY DispatchedConsistent DEF KInv
  <2>3. Live' = Live
    BY <2>1, <2>2 DEF CheckBlocked
  <2>4. Next
    BY <1>4 DEF Next, Tick
  <2> QED BY <1>1, <1>2, <1>4, <2>3, <2>4
<1>5. CASE FileTick
  <2>1. PICK d \in Dispatched : \E w \in FileInstruction(Held(d.pid)) : Settle(d, w)
    BY <1>5 DEF FileTick
  <2>2. PICK w \in FileInstruction(Held(d.pid)) : Settle(d, w)
    BY <2>1
  <2>3. Next /\ ComputeTick
    BY <1>5 DEF FileTick, Next, Tick
  <2>4. next_fd \notin DOMAIN open_files
    BY DEF KInv, Owned
  <2>5. d.pid \in Live /\ next_script_fd[d.pid] \in Int
    BY <2>3, TickDomain DEF KInv, Numbered
  <2>6. Effect(Held(d.pid), w)
    BY <2>2, <2>4, <2>5, HeldFacts, InstructionEffect
  <2> QED BY <1>2, <2>2, <2>3, <2>6, TickDomain, SettleInvariant DEF KInv
<1>6. CASE OtherTick
  <2>1. PICK d \in Dispatched : Settle(d, Held(d.pid))
    BY <1>6 DEF OtherTick
  <2>2. Next /\ (ComputeTick \/ SleepTick \/ DevRequestTick \/ DevReleaseTick)
    BY <1>6 DEF OtherTick, Next, Tick
  <2>3. d.pid \in Live /\ next_script_fd[d.pid] \in Int
    BY <2>2, TickDomain DEF KInv, Numbered
  <2>4. Effect(Held(d.pid), Held(d.pid))
    BY <2>3, HeldFacts DEF Effect, Elsewhere, Unchanged, IsHolding
  <2> QED BY <1>2, <2>1, <2>2, <2>4, TickDomain, SettleInvariant DEF KInv
<1>7. CASE \E size \in Lengths : KernelCreate(size)
  <2>1. PICK size \in Lengths : KernelCreate(size)
    BY <1>7
  <2>2. /\ Live' = Live \cup {next_pid}
        /\ fd_map' = Bound(fd_map, next_pid, <<>>)
        /\ page_tables' = page_tables \cup {next_pid}
        /\ open_files' = open_files /\ next_fd' = next_fd
    BY <2>1 DEF KernelCreate, Create
  <2>3. next_pid \notin Live
    BY ProcessManagerAssumption DEF KInv, IInv
  <2>4. DOMAIN fd_map' = Live' /\ page_tables' = Live'
    BY <2>2 DEF KInv, Bound
  <2>5. Owned(fd_map', open_files', next_fd')
    BY <2>2, <2>3, StartOwned DEF KInv
  <2>6. Next
    BY <2>1 DEF KernelCreate, Next
  <2>7. Numbered(fd_map', next_script_fd')
    BY <2>1, NumberedFacts DEF KInv, KernelCreate
  <2> QED BY <1>2, <2>4, <2>5, <2>6, <2>7 DEF KInv
<1>8. CASE \E p \in Pids : KernelKill(p)
  <2>1. PICK p \in Pids : KernelKill(p)
    BY <1>8
  <2>2. p \in Live /\ Next
    BY <2>1 DEF KernelKill, Kill, Next
  <2>3. Live' = Live \ {p}
    BY <2>1 DEF KernelKill, Kill, Reaped, Restrict
  <2>4. /\ fd_map' = Unbound(fd_map, p)
        /\ open_files' = Restrict(open_files, DOMAIN open_files \ Range(fd_map[p]))
        /\ next_fd' = next_fd
        /\ page_tables' = page_tables \ {p}
    <3>1. p \in DOMAIN fd_map /\ next_script_fd[p] \in Int
      BY <2>2 DEF KInv, Numbered
    <3> QED BY <2>1, <3>1, HeldFacts DEF KernelKill, GiveBack
  <2>5. DOMAIN fd_map' = Live' /\ page_tables' = Live'
    BY <2>3, <2>4 DEF KInv, Unbound, Restrict
  <2>6. Owned(fd_map', open_files', next_fd')
    BY <2>2, <2>4, GiveBackOwned DEF KInv
  <2>7. Numbered(fd_map', next_script_fd')
    BY <2>1, NumberedFacts DEF KInv, KernelKill, GiveBack
  <2> QED BY <1>2, <2>2, <2>5, <2>6, <2>7 DEF KInv
<1>9. CASE Steer /\ UNCHANGED held
  <2>1. PICK p \in Pids : Run(p) \/ (\E duration \in Durations : Block(p, duration)) \/ Wakeup(p)
    BY <1>9 DEF Steer
  <2>2. CASE Run(p) \/ Wakeup(p)
    BY <1>1, <1>2, <1>9, <2>2 DEF Run, Wakeup, Next
  <2>3. CASE \E duration \in Durations : Block(p, duration)
    <3>1. PICK duration \in Durations : Block(p, duration)
      BY <2>3
    <3> DEFINE procs == [processes EXCEPT ![p] = PutToSleep(@, duration)]
    <3>2. DOMAIN procs = Live
      OBVIOUS
    <3>3. \/ \E d \in Scheduled(procs, ready_queue) : processes' = d.procs
          \/ processes' = procs
      BY <3>1 DEF Block
    <3> HIDE DEF procs
    <3>4. ASSUME NEW d \in Scheduled(procs, ready_queue)
          PROVE  DOMAIN d.procs = DOMAIN procs
      <4>1. \/ d.procs = procs
            \/ \E q : d.procs = [procs EXCEPT ![q].state = "Running"]
        <5> DEFINE runnable == {i \in DOMAIN ready_queue :
                                  /\ ready_queue[i] \in DOMAIN procs
                                  /\ procs[ready_queue[i]].state = "Ready"}
        <5>1. CASE runnable = {}
          BY <3>4, <5>1 DEF Scheduled
        <5>2. CASE runnable # {}
          <6>1. PICK i \in Firsts(runnable) :
                  d = [pid   |-> ready_queue[i],
                       procs |-> [procs EXCEPT ![ready_queue[i]].state = "Running"],
                       queue |-> SubSeq(ready_queue, i + 1, Len(ready_queue))]
            BY <3>4, <5>2 DEF Scheduled
          <6>2. d.procs = [procs EXCEPT ![ready_queue[i]].state = "Running"]
            BY <6>1
          <6> QED BY <6>2
        <5> QED BY <5>1, <5>2
      <4> QED BY <4>1
    <3>5. Live' = Live
      BY <3>2, <3>3, <3>4
    <3> QED BY <1>1, <1>2, <1>9, <3>5 DEF Next
  <2> QED BY <2>1, <2>2, <2>3
<1>10. CASE \E file \in Files : ShellOpens(file) \/ ShellRenews(file)
  <2>1. /\ UNCHANGED <<vars, fd_map, next_script_fd, page_tables, open_files>>
        /\ next_fd' \in {next_fd, next_fd + 1}
    BY <1>10 DEF ShellOpens, ShellRenews
  <2>2. IInv' /\ Live' = Live
    BY <2>1, NextInvariant DEF KInv, vars
  <2>3. Owned(fd_map, open_files, next_fd')
    <3>1. next_fd \in Int /\ \A n \in DOMAIN open_files : n \in Int /\ n < next_fd
      BY DEF KInv, Owned
    <3>2. next_fd' \in Int /\ \A n \in DOMAIN open_files : n \in Int /\ n < next_fd'
      BY <2>1, <3>1
    <3> QED BY <3>2 DEF KInv, Owned
  <2> QED BY <2>1, <2>2, <2>3 DEF KInv
<1> QED BY <1>3, <1>4, <1>5, <1>6, <1>7, <1>8, <1>9, <1>10
    DEF KernelNext, KernelTick, Command

-----------------------------------------------------------------------------
(* What a step leaves alone.                                                *)

\* The descriptors of q lead where they led, and their files are as far.
Kept(q) ==
    /\ fd_map'[q] = fd_map[q]
    /\ \A s \in DOMAIN fd_map[q] :
         open_files'[fd_map[q][s]] = open_files[fd_map[q][s]]

\* The descriptors of q that it still has lead where they led.
Stays(q) ==
    \A s \in DOMAIN fd_map[q] \cap DOMAIN fd_map'[q] : fd_map'[q][s] = fd_map[q][s]

\* An instruction of p does not reach the files of q.
LEMMA OthersFiles ==
    ASSUME KInv, NEW p \in Live, NEW w, Effect(Held(p), w),
           NEW q \in Live \ {p}, NEW s \in DOMAIN fd_map[q]
    PROVE  LET n == fd_map[q][s]
           IN  n \in DOMAIN w.open /\ n \notin Range(w.map) /\ w.open[n] = open_files[n]
<1> DEFINE n == fd_map[q][s]
<1>1. /\ p \in DOMAIN fd_map /\ q \in DOMAIN fd_map
      /\ next_script_fd[p] \in Int
      /\ Owned(fd_map, open_files, next_fd)
  BY DEF KInv, Numbered
<1>2. Held(p).map = fd_map[p] /\ Held(p).open = open_files /\ Held(p).next_fd = next_fd
  BY <1>1, HeldFacts
<1>3. n \in DOMAIN open_files /\ \A t \in DOMAIN fd_map[p] : fd_map[p][t] # n
  BY <1>1 DEF Owned
<1>4. n \notin Range(fd_map[p]) /\ n # next_fd
  BY <1>1, <1>3 DEF Range, Owned
<1> HIDE DEF n
<1>5. w.open[n] = open_files[n]
  BY <1>2, <1>3, <1>4 DEF Effect, Elsewhere
<1>6. n \in DOMAIN w.open /\ n \notin Range(w.map)
  <2>1. CASE Unchanged(Held(p), w)
    BY <1>2, <1>3, <1>4, <2>1 DEF Unchanged
  <2>2. CASE Gained(Held(p), w)
    BY <1>2, <1>3, <1>4, <2>2 DEF Gained, Bound, Range
  <2>3. CASE Lost(Held(p), w)
    <3>1. PICK fd \in DOMAIN fd_map[p] :
            /\ w.map = Unbound(fd_map[p], fd)
            /\ DOMAIN w.open = DOMAIN open_files \ {fd_map[p][fd]}
      BY <1>2, <2>3 DEF Lost
    <3> QED BY <1>3, <3>1 DEF Unbound, Restrict, Range
  <2> QED BY <2>1, <2>2, <2>3 DEF Effect
<1> QED BY <1>5, <1>6 DEF n

\* The end of p disturbs nobody else.
LEMMA GiveBackKeeps ==
    ASSUME KInv, NEW p \in Live, NEW w, Effect(Held(p), w), GiveBack(p, w),
           NEW q \in Live \ {p}
    PROVE  Kept(q)
<1>1. fd_map'[q] = fd_map[q]
  BY DEF GiveBack, Unbound, Restrict, KInv
<1>2. open_files' = Restrict(w.open, DOMAIN w.open \ Range(w.map))
  BY DEF GiveBack
<1>3. ASSUME NEW s \in DOMAIN fd_map[q]
      PROVE  open_files'[fd_map[q][s]] = open_files[fd_map[q][s]]
  BY <1>2, OthersFiles DEF Restrict
<1> QED BY <1>1, <1>3 DEF Kept

\* Nor does an instruction of p, and what p itself keeps stays.
LEMMA KeepKeeps ==
    ASSUME KInv, NEW p \in Live, NEW w, Effect(Held(p), w), Keep(p, w), NEW q \in Live
    PROVE  (q # p => Kept(q)) /\ Stays(q)
<1>1. fd_map' = [fd_map EXCEPT ![p] = w.map] /\ open_files' = w.open /\ DOMAIN fd_map = Live
  BY DEF Keep, KInv
<1>2. ASSUME q # p PROVE Kept(q)
  <2>1. fd_map'[q] = fd_map[q]
    BY <1>1, <1>2
  <2>2. ASSUME NEW s \in DOMAIN fd_map[q]
        PROVE  open_files'[fd_map[q][s]] = open_files[fd_map[q][s]]
    BY <1>1, <1>2, OthersFiles
  <2> QED BY <2>1, <2>2 DEF Kept
<1>3. ASSUME q = p PROVE Stays(q)
  <2>1. Held(p).map = fd_map[p] /\ fd_map'[p] = w.map
    <3>1. next_script_fd[p] \in Int
      BY <1>1 DEF KInv, Numbered
    <3> QED BY <1>1, <3>1, HeldFacts
  <2>2. \A s \in DOMAIN fd_map[p] \cap DOMAIN w.map : w.map[s] = fd_map[p][s]
    BY <2>1 DEF Effect, Unchanged, Gained, Lost, Bound, Unbound, Restrict
  <2> QED BY <1>3, <2>1, <2>2 DEF Stays
<1> QED BY <1>2, <1>3 DEF Kept, Stays

\* A step leaves everybody's descriptors alone but those of the process it
\* dispatches, and of these what it does not close.
LEMMA StepKeeps ==
    ASSUME KInv, [KernelNext]_kernelVars, NEW q \in Live \cap Live'
    PROVE  Stays(q) /\ ((\A d \in Dispatched : d.pid # q) => Kept(q))
<1> DEFINE Goal == Stays(q) /\ ((\A d \in Dispatched : d.pid # q) => Kept(q))
<1>1. ASSUME Kept(q) PROVE Goal
  BY <1>1 DEF Kept, Stays
<1>2. ASSUME fd_map'[q] = fd_map[q], open_files' = open_files PROVE Goal
  BY <1>1, <1>2 DEF Kept
<1>3. ASSUME NEW d \in Dispatched, NEW w, Settle(d, w),
             next_fd \notin DOMAIN open_files => Effect(Held(d.pid), w),
             ComputeTick \/ SleepTick \/ DevRequestTick \/ DevReleaseTick
      PROVE  Goal
  <2>1. /\ d.pid \in Live
        /\ Live' = IF d.procs[d.pid].left <= 1 THEN Live \ {d.pid} ELSE Live
    BY <1>3, TickDomain DEF KInv
  <2>2. next_fd \notin DOMAIN open_files
    BY DEF KInv, Owned
  <2>3. Effect(Held(d.pid), w)
    BY <1>3, <2>2
  <2>4. CASE d.procs[d.pid].left <= 1
    <3>1. GiveBack(d.pid, w) /\ q # d.pid
      BY <1>3, <2>1, <2>4 DEF Settle
    <3> QED BY <1>1, <2>1, <2>3, <3>1, GiveBackKeeps
  <2>5. CASE ~(d.procs[d.pid].left <= 1)
    <3>1. Keep(d.pid, w)
      BY <1>3, <2>5 DEF Settle
    <3> QED BY <1>3, <2>1, <2>3, <3>1, KeepKeeps
  <2> QED BY <2>4, <2>5
<1>4. ASSUME NEW p \in Live
      PROVE  /\ IsHolding(Held(p)) /\ Held(p).next_fd = next_fd /\ Held(p).open = open_files
             /\ Effect(Held(p), Held(p))
  <2>1. next_script_fd[p] \in Int
    BY DEF KInv, Numbered
  <2> QED BY <2>1, HeldFacts DEF Effect, Elsewhere, Unchanged, IsHolding
<1>5. CASE UNCHANGED held
  BY <1>2, <1>5 DEF held
<1>6. CASE FileTick
  <2>1. PICK d \in Dispatched : \E w \in FileInstruction(Held(d.pid)) : Settle(d, w)
    BY <1>6 DEF FileTick
  <2>2. PICK w \in FileInstruction(Held(d.pid)) : Settle(d, w)
    BY <2>1
  <2>3. ComputeTick
    BY <1>6 DEF FileTick
  <2>4. d.pid \in Live
    BY <2>3, TickDomain DEF KInv
  <2>5. next_fd \notin DOMAIN open_files => Effect(Held(d.pid), w)
    BY <1>4, <2>4, InstructionEffect
  <2> QED BY <1>3, <2>2, <2>3, <2>5
<1>7. CASE OtherTick
  <2>1. PICK d \in Dispatched : Settle(d, Held(d.pid))
    BY <1>7 DEF OtherTick
  <2>2. ComputeTick \/ SleepTick \/ DevRequestTick \/ DevReleaseTick
    BY <1>7 DEF OtherTick
  <2>3. d.pid \in Live
    BY <2>2, TickDomain DEF KInv
  <2> QED BY <1>3, <1>4, <2>1, <2>2, <2>3
<1>8. CASE \E size \in Lengths : KernelCreate(size)
  <2>1. fd_map' = Bound(fd_map, next_pid, <<>>) /\ open_files' = open_files
    BY <1>8 DEF KernelCreate
  <2>2. q # next_pid /\ q \in DOMAIN fd_map
    BY ProcessManagerAssumption DEF KInv, IInv
  <2>3. fd_map'[q] = fd_map[q]
    BY <2>1, <2>2 DEF Bound
  <2> QED BY <1>2, <2>1, <2>3
<1>9. CASE \E p \in Pids : KernelKill(p)
  <2>1. PICK p \in Pids : KernelKill(p)
    BY <1>9
  <2>2. p \in Live /\ GiveBack(p, Held(p))
    BY <2>1 DEF KernelKill, Kill
  <2>3. q # p
    BY <2>1 DEF KernelKill, Kill, Reaped, Restrict, Live
  <2>4. Effect(Held(p), Held(p))
    BY <1>4, <2>2
  <2> QED BY <1>1, <2>2, <2>3, <2>4, GiveBackKeeps
<1>10. CASE \E file \in Files : ShellOpens(file) \/ ShellRenews(file)
  BY <1>2, <1>10 DEF ShellOpens, ShellRenews
<1> QED BY <1>5, <1>6, <1>7, <1>8, <1>9, <1>10
    DEF KernelNext, KernelTick, Command, kernelVars

-----------------------------------------------------------------------------
(* The results.                                                             *)

\* The invariant of what processes hold.
LEMMA KernelInvariance == KernelSpec => []KInv
<1>1. KernelInit => KInv
  <2>1. KernelInit => IInv
    BY InitInvariant DEF KernelInit
  <2>2. ASSUME KernelInit
        PROVE  /\ DOMAIN fd_map = Live /\ page_tables = Live
               /\ Owned(fd_map, open_files, next_fd)
               /\ Numbered(fd_map, next_script_fd)
    <3>1. /\ DOMAIN processes = {} /\ DOMAIN fd_map = {} /\ DOMAIN open_files = {}
          /\ DOMAIN next_script_fd = {} /\ page_tables = {} /\ next_fd = 3
      BY <2>2 DEF KernelInit, Init
    <3> QED BY <3>1 DEF Live, Owned, Numbered
  <2> QED BY <2>1, <2>2 DEF KInv
<1>2. KInv /\ [KernelNext]_kernelVars => KInv'
  BY KernelInvariant
<1> QED BY <1>1, <1>2, PTL DEF KernelSpec

\* Exactly the live processes have page tables, so that access_memory() and
\* free_process_memory() never throw for want of one.
THEOREM MemoryIsOfTheLivingHolds == KernelSpec => []MemoryIsOfTheLiving
<1>1. KInv => MemoryIsOfTheLiving
  BY DEF KInv, MemoryIsOfTheLiving
<1> QED BY <1>1, KernelInvariance, PTL

\* The open files are those that live processes hold, each under one
\* descriptor of one process.
THEOREM DescriptorsAreHeldHolds == KernelSpec => []DescriptorsAreHeld
<1>1. ASSUME KInv PROVE DescriptorsAreHeld
  <2>1. /\ DOMAIN fd_map = Live
        /\ \A n : n \in DOMAIN open_files <=>
                    \E p \in Live : \E s \in DOMAIN fd_map[p] : fd_map[p][s] = n
        /\ \A p, q \in Live : \A s \in DOMAIN fd_map[p], t \in DOMAIN fd_map[q] :
             fd_map[p][s] = fd_map[q][t] => p = q /\ s = t
    BY <1>1 DEF KInv, Owned
  <2>2. \A n : n \in UNION {Range(fd_map[p]) : p \in Live} <=>
                 \E p \in Live : \E s \in DOMAIN fd_map[p] : fd_map[p][s] = n
    BY DEF Range
  <2>3. DOMAIN open_files = UNION {Range(fd_map[p]) : p \in Live}
    BY <2>1, <2>2
  <2> QED BY <2>1, <2>3 DEF DescriptorsAreHeld
<1> QED BY <1>1, KernelInvariance, PTL

\* No program gets a descriptor that its instructions cannot name, however
\* long it is and wherever its counter has got to.
THEOREM ScriptFdsAreNamableHolds == KernelSpec => []ScriptFdsAreNamable
<1>1. KInv => ScriptFdsAreNamable
  BY DEF KInv, Numbered, ScriptFdsAreNamable
<1> QED BY <1>1, KernelInvariance, PTL

\* A descriptor goes on leading to the same open file until it is closed.
THEOREM DescriptorsStayHolds == KernelSpec => DescriptorsStay
<1>1. ASSUME KInv, [KernelNext]_kernelVars
      PROVE  [\A p \in Live \cap DOMAIN processes' :
                \A s \in DOMAIN fd_map[p] \cap DOMAIN fd_map'[p] :
                  fd_map'[p][s] = fd_map[p][s]]_kernelVars
  BY <1>1, StepKeeps DEF Stays, Live
<1> QED BY <1>1, KernelInvariance, PTL DEF KernelSpec, DescriptorsStay

\* Descriptors and offsets of a process change in its own ticks only.
THEOREM DescriptorsAreOwnHolds == KernelSpec => DescriptorsAreOwn
<1>1. ASSUME KInv, [KernelNext]_kernelVars
      PROVE  [\A p \in Live \cap DOMAIN processes' :
                (\A d \in Dispatched : d.pid # p) =>
                  /\ fd_map'[p] = fd_map[p]
                  /\ \A s \in DOMAIN fd_map[p] :
                       open_files'[fd_map[p][s]] = open_files[fd_map[p][s]]]_kernelVars
  BY <1>1, StepKeeps DEF Kept, Live
<1> QED BY <1>1, KernelInvariance, PTL DEF KernelSpec, DescriptorsAreOwn

-----------------------------------------------------------------------------
(* Types and lengths.                                                       *)

FileRecord == [file : Files, offset : Nat]

\* Open files are files that exist, read and written up to their end, under
\* numbers that have been handed out.
FilesFit(open, next, lengths) ==
    /\ next \in Nat \ 0..2
    /\ lengths \in [Files -> 0..Capacity]
    /\ DOMAIN open \subseteq 3..next - 1
    /\ \A n \in DOMAIN open :
         /\ open[n] \in FileRecord
         /\ open[n].offset <= lengths[open[n].file]

Fits(w) == FilesFit(w.open, w.next_fd, w.sizes) /\ w.next \in Ints

\* The parts of the record.
LEMMA HoldingFields ==
    ASSUME NEW map, NEW next, NEW open, NEW n, NEW lengths
    PROVE  LET w == HoldingOf(map, next, open, n, lengths)
           IN  /\ w.map = map /\ w.next = next /\ w.open = open
               /\ w.next_fd = n /\ w.sizes = lengths
  BY DEF HoldingOf

\* So a record fits if its parts do.
LEMMA FitsIs ==
    ASSUME NEW map, NEW next, NEW open, NEW n, NEW lengths
    PROVE  Fits(HoldingOf(map, next, open, n, lengths))
             <=> FilesFit(open, n, lengths) /\ next \in Ints
  BY HoldingFields DEF Fits

\* A file that is opened starts at 0; the others stay.
LEMMA BoundFits ==
    ASSUME NEW open, NEW next, NEW lengths, FilesFit(open, next, lengths), NEW file \in Files
    PROVE  FilesFit(Bound(open, next, [file |-> file, offset |-> 0]), next + 1, lengths)
<1> DEFINE more == Bound(open, next, [file |-> file, offset |-> 0])
<1>1. /\ next \in Nat \ 0..2 /\ lengths \in [Files -> 0..Capacity]
      /\ DOMAIN open \subseteq 3..next - 1
  BY DEF FilesFit
<1>2. /\ DOMAIN more = DOMAIN open \cup {next}
      /\ \A m \in DOMAIN more :
           more[m] = IF m = next THEN [file |-> file, offset |-> 0] ELSE open[m]
  BY DEF Bound
<1> HIDE DEF more
<1>3. DOMAIN more \subseteq 3..(next + 1) - 1
  BY <1>1, <1>2
<1>4. [file |-> file, offset |-> 0] \in FileRecord /\ 0 <= lengths[file]
  BY <1>1, KernelAssumption DEF FileRecord
<1>5. ASSUME NEW m \in DOMAIN more
      PROVE  more[m] \in FileRecord /\ more[m].offset <= lengths[more[m].file]
  BY <1>2, <1>4 DEF FilesFit
<1>6. next + 1 \in Nat \ 0..2
  BY <1>1
<1> QED BY <1>1, <1>3, <1>5, <1>6 DEF FilesFit, more

\* Closing files changes nothing about those that stay open.
LEMMA RestrictFits ==
    ASSUME NEW open, NEW next, NEW lengths, FilesFit(open, next, lengths),
           NEW S \in SUBSET DOMAIN open
    PROVE  FilesFit(Restrict(open, S), next, lengths)
  BY DEF FilesFit, Restrict

\* An offset moves up to the end, which may move away from it.
LEMMA MovedFits ==
    ASSUME NEW open, NEW next, NEW lengths, FilesFit(open, next, lengths),
           NEW n \in DOMAIN open, NEW offset \in 0..Capacity,
           NEW length \in 0..Capacity, offset <= length, lengths[open[n].file] <= length
    PROVE  FilesFit([open EXCEPT ![n] = [open[n] EXCEPT !.offset = offset]], next,
                    [lengths EXCEPT ![open[n].file] = length])
<1> DEFINE r == [open[n] EXCEPT !.offset = offset]
           moved == [open EXCEPT ![n] = r]
           longer == [lengths EXCEPT ![open[n].file] = length]
<1>1. open[n] \in FileRecord /\ lengths \in [Files -> 0..Capacity]
  BY DEF FilesFit
<1>2. r \in FileRecord /\ r.file = open[n].file /\ r.offset = offset
  BY <1>1 DEF FileRecord
<1>3. open[n].file \in Files
  BY <1>1 DEF FileRecord
<1>4. /\ longer \in [Files -> 0..Capacity]
      /\ \A file \in Files : longer[file] = IF file = open[n].file THEN length ELSE lengths[file]
  BY <1>1, <1>3
<1>5. /\ DOMAIN moved = DOMAIN open
      /\ \A m \in DOMAIN open : moved[m] = IF m = n THEN r ELSE open[m]
  OBVIOUS
<1> HIDE DEF r, moved, longer
<1>6. ASSUME NEW m \in DOMAIN open
      PROVE  moved[m] \in FileRecord /\ moved[m].offset <= longer[moved[m].file]
  <2>1. CASE m = n
    BY <1>2, <1>3, <1>4, <1>5, <2>1
  <2>2. CASE m # n
    <3>1. moved[m] = open[m] /\ open[m] \in FileRecord
          /\ open[m].offset <= lengths[open[m].file]
      BY <1>5, <2>2 DEF FilesFit
    <3>2. open[m].file \in Files /\ open[m].offset \in Nat
      BY <3>1 DEF FileRecord
    <3>3. /\ lengths[open[m].file] \in 0..Capacity /\ longer[open[m].file] \in 0..Capacity
          /\ lengths[open[m].file] <= longer[open[m].file]
      BY <1>1, <1>4, <3>2, KernelAssumption
    <3> QED BY <3>1, <3>2, <3>3, KernelAssumption
  <2> QED BY <2>1, <2>2
<1> QED BY <1>4, <1>5, <1>6 DEF FilesFit, moved, longer, r

\* The steps of the file instructions: a file is opened,
LEMMA OpenedFits ==
    ASSUME NEW w, IsHolding(w), Fits(w), NEW file \in Files
    PROVE  Fits(Opened(w, file))
<1>1. PICK map, next, open, n, lengths : w = HoldingOf(map, next, open, n, lengths)
  BY DEF IsHolding
<1> DEFINE more == Bound(open, n, [file |-> file, offset |-> 0])
<1>2. Opened(w, file) = HoldingOf(map, next, more, n + 1, lengths)
  <2>1. w.open = open /\ w.next_fd = n
    BY <1>1 DEF HoldingOf
  <2>2. Opened(w, file) = [w EXCEPT !.open = more, !.next_fd = n + 1]
    BY <2>1 DEF Opened
  <2> HIDE DEF more
  <2> QED BY <1>1, <2>2 DEF HoldingOf
<1>3. FilesFit(open, n, lengths) /\ next \in Ints
  BY <1>1, FitsIs
<1>4. FilesFit(more, n + 1, lengths)
  BY <1>3, BoundFits
<1> HIDE DEF more
<1> QED BY <1>2, <1>3, <1>4, FitsIs

\* or closed,
LEMMA ClosedFits ==
    ASSUME NEW w, IsHolding(w), Fits(w), NEW fs_fd
    PROVE  Fits(Closed(w, fs_fd))
<1>1. PICK map, next, open, n, lengths : w = HoldingOf(map, next, open, n, lengths)
  BY DEF IsHolding
<1> DEFINE less == Unbound(open, fs_fd)
<1>2. Closed(w, fs_fd) = HoldingOf(map, next, less, n, lengths)
  BY <1>1 DEF Closed, HoldingOf
<1>3. FilesFit(open, n, lengths) /\ next \in Ints
  BY <1>1, FitsIs
<1>4. FilesFit(less, n, lengths)
  BY <1>3, RestrictFits DEF Unbound
<1> HIDE DEF less
<1> QED BY <1>2, <1>3, <1>4, FitsIs

\* the counter moves,
LEMMA CounterFits ==
    ASSUME NEW w, IsHolding(w), Fits(w), NEW x \in Ints
    PROVE  Fits([w EXCEPT !.next = x])
<1>1. PICK map, next, open, n, lengths : w = HoldingOf(map, next, open, n, lengths)
  BY DEF IsHolding
<1>2. [w EXCEPT !.next = x] = HoldingOf(map, x, open, n, lengths)
  BY <1>1 DEF HoldingOf
<1> QED BY <1>1, <1>2, FitsIs

\* or the descriptors of the process change.
LEMMA MapFits ==
    ASSUME NEW w, IsHolding(w), Fits(w), NEW x
    PROVE  Fits([w EXCEPT !.map = x])
<1>1. PICK map, next, open, n, lengths : w = HoldingOf(map, next, open, n, lengths)
  BY DEF IsHolding
<1>2. [w EXCEPT !.map = x] = HoldingOf(x, next, open, n, lengths)
  BY <1>1 DEF HoldingOf
<1> QED BY <1>1, <1>2, FitsIs

\* FO with a descriptor: the counter wraps, but stays an int.
LEMMA OpenAsFits ==
    ASSUME NEW w, IsHolding(w), Fits(w), NEW fd \in Operands, NEW r \in OpenAs(w, fd)
    PROVE  Fits(r)
<1>1. CASE Refused(w, fd)
  BY <1>1 DEF OpenAs
<1>2. CASE ~Refused(w, fd)
  <2> DEFINE number == IF fd >= w.next THEN Wrapped(fd + 1) ELSE w.next
             q == [w EXCEPT !.next = number]
  <2>1. number \in Ints
    BY <1>2, KernelAssumption DEF Refused, Wrapped, Ints, Fits
  <2>2. IsHolding(q) /\ Fits(q)
    <3>1. number \in Int
      BY <2>1, KernelAssumption DEF Ints
    <3> HIDE DEF number
    <3> QED BY <2>1, <3>1, CounterFacts, CounterFits
  <2>3. r = q \/ \E file \in Files :
                   r = [Opened(q, file) EXCEPT !.map = Bound(@, fd, w.next_fd)]
    BY <1>2 DEF OpenAs
  <2> HIDE DEF q
  <2>4. ASSUME NEW file \in Files,
               r = [Opened(q, file) EXCEPT !.map = Bound(@, fd, w.next_fd)]
        PROVE  Fits(r)
    <3>1. IsHolding(Opened(q, file)) /\ Fits(Opened(q, file))
      BY <2>2, OpenedFacts, OpenedFits
    <3> QED BY <2>4, <3>1, MapFits
  <2> QED BY <2>2, <2>3, <2>4
<1> QED BY <1>1, <1>2

\* FO without a descriptor: the counter stops at the greatest int.
LEMMA OpenAutoFits ==
    ASSUME NEW w, IsHolding(w), Fits(w), NEW r \in OpenAuto(w)
    PROVE  Fits(r)
<1>1. CASE r = w
  BY <1>1
<1>2. CASE r # w
  <2>1. PICK at \in Files \X Allocated(w) :
          LET q == [Opened(w, at[1]) EXCEPT !.next = IF at[2] = IntMax THEN IntMax
                                                      ELSE at[2] + 1]
          IN  r = IF Usable(at[2]) THEN [q EXCEPT !.map = Bound(@, at[2], w.next_fd)]
                  ELSE GivenUp(q, w.next_fd)
    BY <1>2 DEF OpenAuto
  <2> DEFINE number == IF at[2] = IntMax THEN IntMax ELSE at[2] + 1
             q == [Opened(w, at[1]) EXCEPT !.next = number]
  <2>2. number \in Ints
    <3>1. at[2] \in w.next..IntMax /\ w.next \in Ints
      BY DEF Allocated, Firsts, Fits
    <3> QED BY <3>1, KernelAssumption DEF Ints
  <2>3. IsHolding(Opened(w, at[1])) /\ Fits(Opened(w, at[1]))
    BY OpenedFacts, OpenedFits
  <2>4. IsHolding(q) /\ Fits(q)
    <3>1. number \in Int
      BY <2>2, KernelAssumption DEF Ints
    <3> HIDE DEF number
    <3> QED BY <2>2, <2>3, <3>1, CounterFacts, CounterFits
  <2>5. r = IF Usable(at[2]) THEN [q EXCEPT !.map = Bound(@, at[2], w.next_fd)]
            ELSE GivenUp(q, w.next_fd)
    BY <2>1
  <2> HIDE DEF q
  <2> QED BY <2>4, <2>5, MapFits, ClosedFits DEF GivenUp
<1> QED BY <1>1, <1>2

\* FC.
LEMMA CloseFits ==
    ASSUME NEW w, IsHolding(w), Fits(w), NEW fd, NEW r \in Close(w, fd)
    PROVE  Fits(r)
<1> DEFINE q == Closed(w, w.map[fd])
<1>1. IsHolding(q) /\ Fits(q)
  BY ClosedFacts, ClosedFits
<1>2. r = w \/ r = [q EXCEPT !.map = Unbound(@, fd)]
  BY DEF Close
<1> HIDE DEF q
<1> QED BY <1>1, <1>2, MapFits

\* FR and FW: no read gets past the end, no file past its capacity.
LEMMA TransferFits ==
    ASSUME NEW w, IsHolding(w), Fits(w), NEW fd, NEW size \in Sizes,
           NEW r \in Read(w, fd, size) \cup Write(w, fd, size)
    PROVE  Fits(r)
<1>1. CASE r = w
  BY <1>1
<1>2. CASE r # w
  <2>1. PICK map, next, open, n, lengths : w = HoldingOf(map, next, open, n, lengths)
    BY DEF IsHolding
  <2>2. w.open = open /\ w.sizes = lengths
    BY <2>1 DEF HoldingOf
  <2>3. FilesFit(open, n, lengths) /\ next \in Ints
    BY <2>1, FitsIs
  <2> DEFINE s == FsFd(w, fd)
             file == open[s]
  <2>4. s \in DOMAIN open
    BY <1>2, <2>2 DEF Read, Write
  <2>5. /\ file \in FileRecord /\ file.offset <= lengths[file.file]
        /\ lengths \in [Files -> 0..Capacity]
    BY <2>3, <2>4 DEF FilesFit
  <2>6. file.file \in Files /\ file.offset \in Nat /\ lengths[file.file] \in 0..Capacity
    BY <2>5 DEF FileRecord
  <2>7. size \in Nat /\ Capacity \in Nat
    BY KernelAssumption
  <2>8. CASE r \in Read(w, fd, size)
    <3> DEFINE offset == file.offset + Reach(size, lengths[file.file] - file.offset)
    <3>1. r = [w EXCEPT !.open[s].offset = @ + Reach(size, lengths[file.file] - file.offset)]
      BY <1>2, <2>2, <2>8 DEF Read
    <3>2. r = HoldingOf(map, next, [open EXCEPT ![s] = [open[s] EXCEPT !.offset = offset]],
                        n, lengths)
      BY <2>1, <2>2, <3>1 DEF HoldingOf
    <3>3. offset \in 0..Capacity /\ offset <= lengths[file.file]
      <4> HIDE DEF file
      <4> QED BY <2>5, <2>6, <2>7 DEF Reach
    <3>4. [lengths EXCEPT ![file.file] = lengths[file.file]] = lengths
      BY <2>5
    <3> HIDE DEF offset, s
    <3>5. FilesFit([open EXCEPT ![s] = [open[s] EXCEPT !.offset = offset]], n,
                   [lengths EXCEPT ![open[s].file] = lengths[file.file]])
      BY <2>3, <2>4, <2>6, <3>3, MovedFits
    <3>6. FilesFit([open EXCEPT ![s] = [open[s] EXCEPT !.offset = offset]], n, lengths)
      BY <3>4, <3>5
    <3> QED BY <2>3, <3>2, <3>6, FitsIs
  <2>9. CASE r \in Write(w, fd, size)
    <3>1. PICK count \in {m \in 0..size : file.offset + m <= Capacity} :
            r = [w EXCEPT !.open[s].offset = @ + count,
                          !.sizes[file.file] = IF file.offset + count > @
                                               THEN file.offset + count ELSE @]
      BY <1>2, <2>2, <2>9 DEF Write
    <3> DEFINE offset == file.offset + count
               length == IF offset > lengths[file.file] THEN offset ELSE lengths[file.file]
    <3>2. r = HoldingOf(map, next, [open EXCEPT ![s] = [open[s] EXCEPT !.offset = offset]],
                        n, [lengths EXCEPT ![open[s].file] = length])
      BY <2>1, <2>2, <3>1 DEF HoldingOf
    <3>3. /\ offset \in 0..Capacity /\ length \in 0..Capacity
          /\ offset <= length /\ lengths[file.file] <= length
      <4> HIDE DEF file
      <4> QED BY <2>5, <2>6, <2>7
    <3> HIDE DEF offset, length, s
    <3>4. FilesFit([open EXCEPT ![s] = [open[s] EXCEPT !.offset = offset]], n,
                   [lengths EXCEPT ![open[s].file] = length])
      BY <2>3, <2>4, <3>3, MovedFits
    <3> QED BY <2>3, <3>2, <3>4, FitsIs
  <2> QED BY <2>8, <2>9
<1> QED BY <1>1, <1>2

\* So every file instruction keeps what fits,
LEMMA InstructionFits ==
    ASSUME NEW w, IsHolding(w), Fits(w), NEW r \in FileInstruction(w)
    PROVE  Fits(r)
<1>1. CASE r \in OpenAuto(w)
  BY <1>1, OpenAutoFits
<1>2. CASE r \notin OpenAuto(w)
  <2>1. PICK fd \in Operands :
          r \in OpenAs(w, fd) \cup Close(w, fd) \cup
                UNION {Read(w, fd, size) \cup Write(w, fd, size) : size \in Sizes}
    BY <1>2, Zenon DEF FileInstruction
  <2>2. CASE r \in OpenAs(w, fd) \cup Close(w, fd)
    BY <2>2, OpenAsFits, CloseFits
  <2>3. CASE r \in UNION {Read(w, fd, size) \cup Write(w, fd, size) : size \in Sizes}
    <3>1. PICK size \in Sizes : r \in Read(w, fd, size) \cup Write(w, fd, size)
      BY <2>3, Zenon
    <3> QED BY <3>1, TransferFits
  <2> QED BY <2>1, <2>2, <2>3, Zenon
<1> QED BY <1>1, <1>2

\* The files fit, and the counters are ints.
KernelFits ==
    /\ FilesFit(open_files, next_fd, sizes)
    /\ \A p \in DOMAIN next_script_fd : next_script_fd[p] \in Ints

\* So does what the running process holds.
LEMMA HeldFits ==
    ASSUME KernelFits, NEW p \in DOMAIN next_script_fd
    PROVE  IsHolding(Held(p)) /\ Fits(Held(p))
<1>1. Held(p) = HoldingOf(fd_map[p], next_script_fd[p], open_files, next_fd, sizes)
  BY DEF Held, HoldingOf
<1>2. next_script_fd[p] \in Ints /\ next_script_fd[p] \in Int
  BY KernelAssumption DEF KernelFits, Ints
<1> QED BY <1>1, <1>2, FitsIs, HeldFacts DEF KernelFits

\* The end of a tick, or of a process that is killed.
LEMMA GiveBackFits ==
    ASSUME KernelFits, NEW p, NEW w, Fits(w), GiveBack(p, w)
    PROVE  KernelFits'
<1>1. FilesFit(open_files', next_fd', sizes')
  <2>1. FilesFit(w.open, w.next_fd, w.sizes)
    BY DEF Fits
  <2> DEFINE S == DOMAIN w.open \ Range(w.map)
  <2>2. FilesFit(Restrict(w.open, S), w.next_fd, w.sizes)
    <3>1. S \in SUBSET DOMAIN w.open
      OBVIOUS
    <3> HIDE DEF S
    <3> QED BY <2>1, <3>1, RestrictFits
  <2> QED BY <2>2 DEF GiveBack
<1>2. \A q \in DOMAIN next_script_fd' : next_script_fd'[q] \in Ints
  BY DEF GiveBack, KernelFits, Unbound, Restrict
<1> QED BY <1>1, <1>2 DEF KernelFits

\* and so does the tick around it, which may end the process.
LEMMA SettleFits ==
    ASSUME KernelFits, NEW d, NEW w, Fits(w), Settle(d, w)
    PROVE  KernelFits'
<1>1. CASE d.procs[d.pid].left <= 1
  BY <1>1, GiveBackFits DEF Settle
<1>2. CASE ~(d.procs[d.pid].left <= 1)
  BY <1>2 DEF Settle, Keep, KernelFits, Fits
<1> QED BY <1>1, <1>2

\* The commands that use a file take nothing from those who have it open.
LEMMA ShellFits ==
    ASSUME KernelFits, NEW file \in Files, ShellOpens(file) \/ ShellRenews(file)
    PROVE  KernelFits'
<1>1. /\ next_fd \in Nat \ 0..2 /\ sizes \in [Files -> 0..Capacity]
      /\ DOMAIN open_files \subseteq 3..next_fd - 1
      /\ \A n \in DOMAIN open_files :
           open_files[n] \in FileRecord /\ open_files[n].offset <= sizes[open_files[n].file]
  BY DEF KernelFits, FilesFit
<1>2. \A n \in DOMAIN open_files : open_files[n].file \in Files /\ open_files[n].offset \in Nat
  BY <1>1 DEF FileRecord
<1>3. Capacity \in Nat
  BY KernelAssumption
<1>4. open_files' = open_files /\ next_script_fd' = next_script_fd
  BY DEF ShellOpens, ShellRenews
<1>5. CASE ShellOpens(file)
  <2>1. PICK count \in 0..Capacity :
          sizes' = [sizes EXCEPT ![file] = IF count > @ THEN count ELSE @]
    BY <1>5 DEF ShellOpens
  <2>2. sizes[file] \in 0..Capacity
    BY <1>1
  <2>3. /\ sizes' \in [Files -> 0..Capacity]
        /\ \A f \in Files : sizes[f] <= sizes'[f]
    BY <1>1, <1>3, <2>1, <2>2
  <2>4. /\ next_fd' \in Nat \ 0..2
        /\ DOMAIN open_files \subseteq 3..next_fd' - 1
    BY <1>1, <1>5 DEF ShellOpens
  <2>5. ASSUME NEW n \in DOMAIN open_files
        PROVE  open_files[n].offset <= sizes'[open_files[n].file]
    <3>1. /\ sizes[open_files[n].file] \in 0..Capacity
          /\ sizes'[open_files[n].file] \in 0..Capacity
          /\ sizes[open_files[n].file] <= sizes'[open_files[n].file]
      BY <1>1, <1>2, <2>3
    <3> QED BY <1>1, <1>2, <1>3, <3>1
  <2> QED BY <1>1, <1>4, <2>3, <2>4, <2>5 DEF KernelFits, FilesFit
<1>6. CASE ShellRenews(file)
  <2>1. /\ sizes' = [sizes EXCEPT ![file] = 0] /\ next_fd' = next_fd
        /\ \A n \in DOMAIN open_files : open_files[n].file # file
    BY <1>6 DEF ShellRenews, Range
  <2>2. sizes' \in [Files -> 0..Capacity]
    BY <1>1, <1>3, <2>1
  <2>3. \A n \in DOMAIN open_files : sizes'[open_files[n].file] = sizes[open_files[n].file]
    BY <1>1, <1>2, <2>1
  <2> QED BY <1>1, <1>4, <2>1, <2>2, <2>3 DEF KernelFits, FilesFit
<1> QED BY <1>5, <1>6

\* Every step of the kernel keeps the files and counters fitting.
LEMMA KernelFitsStep ==
    ASSUME KInv, KernelFits, [KernelNext]_kernelVars
    PROVE  KernelFits'
<1>1. ASSUME UNCHANGED held PROVE KernelFits'
  BY <1>1 DEF held, KernelFits
<1>2. Live = DOMAIN next_script_fd
  BY DEF KInv, Numbered
<1>3. CASE UNCHANGED kernelVars
  BY <1>1, <1>3 DEF kernelVars
<1>4. CASE IdleTick /\ UNCHANGED held
  BY <1>1, <1>4
<1>5. CASE FileTick
  <2>1. PICK d \in Dispatched : \E w \in FileInstruction(Held(d.pid)) : Settle(d, w)
    BY <1>5 DEF FileTick
  <2>2. PICK w \in FileInstruction(Held(d.pid)) : Settle(d, w)
    BY <2>1
  <2>3. d.pid \in DOMAIN next_script_fd
    BY <1>2, <1>5, TickDomain DEF FileTick, KInv
  <2> QED BY <2>2, <2>3, HeldFits, InstructionFits, SettleFits
<1>6. CASE OtherTick
  <2>1. PICK d \in Dispatched : Settle(d, Held(d.pid))
    BY <1>6 DEF OtherTick
  <2>2. d.pid \in DOMAIN next_script_fd
    BY <1>2, <1>6, TickDomain DEF OtherTick, KInv
  <2> QED BY <2>1, <2>2, HeldFits, SettleFits
<1>7. CASE \E size \in Lengths : KernelCreate(size)
  <2>1. /\ next_script_fd' = Bound(next_script_fd, next_pid, 3)
        /\ open_files' = open_files /\ next_fd' = next_fd /\ sizes' = sizes
    BY <1>7 DEF KernelCreate
  <2>2. 3 \in Ints
    BY KernelAssumption DEF Ints
  <2> QED BY <2>1, <2>2 DEF KernelFits, Bound
<1>8. CASE \E p \in Pids : KernelKill(p)
  <2>1. PICK p \in Pids : KernelKill(p)
    BY <1>8
  <2>2. p \in DOMAIN next_script_fd
    BY <1>2, <2>1 DEF KernelKill, Kill
  <2> QED BY <2>1, <2>2, HeldFits, GiveBackFits DEF KernelKill
<1>9. CASE Steer /\ UNCHANGED held
  BY <1>1, <1>9
<1>10. CASE \E file \in Files : ShellOpens(file) \/ ShellRenews(file)
  BY <1>10, ShellFits
<1> QED BY <1>3, <1>4, <1>5, <1>6, <1>7, <1>8, <1>9, <1>10
    DEF KernelNext, KernelTick, Command

\* Everything in the kernel keeps its type: offsets stay within the lengths
\* of the files and lengths within the capacity, whoever else has a file
\* open, and the counters of descriptors stay ints, also when they wrap.
THEOREM KernelTypeCorrect == KernelSpec => []KernelTypeOK
<1>1. KernelInit => KernelFits
  <2> SUFFICES ASSUME KernelInit PROVE KernelFits
    OBVIOUS
  <2>1. DOMAIN open_files = {} /\ DOMAIN next_script_fd = {} /\ next_fd = 3
    BY DEF KernelInit
  <2>2. sizes \in [Files -> 0..Capacity]
    BY KernelAssumption DEF KernelInit
  <2> QED BY <2>1, <2>2 DEF KernelFits, FilesFit
<1>2. KInv /\ KernelFits /\ [KernelNext]_kernelVars => KernelFits'
  BY KernelFitsStep
<1>3. ASSUME KInv, KernelFits PROVE KernelTypeOK
  <2>1. /\ DOMAIN fd_map = Live /\ DOMAIN next_script_fd = Live
        /\ \A p \in Live : DOMAIN fd_map[p] \subseteq 0..IntMax
    BY <1>3 DEF KInv, Numbered
  <2>2. /\ next_fd \in Nat \ 0..2 /\ sizes \in [Files -> 0..Capacity]
        /\ DOMAIN open_files \subseteq 3..next_fd - 1
        /\ \A n \in DOMAIN open_files :
             open_files[n] \in FileRecord /\ open_files[n].offset <= sizes[open_files[n].file]
    BY <1>3 DEF KernelFits, FilesFit
  <2>3. 0..IntMax \subseteq Ints
    BY KernelAssumption DEF Ints
  <2>4. \A p \in Live : Range(fd_map[p]) \subseteq DOMAIN open_files
    BY <1>3, <2>1 DEF KInv, Owned, Range
  <2>5. page_tables \subseteq Pids
    BY <1>3, ProcessManagerAssumption DEF KInv, IInv, Pids
  <2>6. ASSUME NEW n \in DOMAIN open_files
        PROVE  open_files[n].file \in Files /\ open_files[n].offset \in 0..sizes[open_files[n].file]
    <3>1. open_files[n].file \in Files /\ open_files[n].offset \in Nat
      BY <2>2 DEF FileRecord
    <3>2. sizes[open_files[n].file] \in 0..Capacity
      BY <2>2, <3>1
    <3> QED BY <2>2, <3>1, <3>2, KernelAssumption
  <2>7. \A file \in Range(open_files) :
          file.file \in Files /\ file.offset \in 0..sizes[file.file]
    BY <2>6 DEF Range
  <2>8. \A p \in Live : next_script_fd[p] \in Ints
    BY <1>3, <2>1 DEF KernelFits
  <2> QED BY <2>1, <2>2, <2>3, <2>4, <2>5, <2>7, <2>8 DEF KernelTypeOK
<1>4. KInv /\ KernelFits => KernelTypeOK
  BY <1>3
<1> QED BY <1>1, <1>2, <1>4, KernelInvariance, PTL DEF KernelSpec
=============================================================================
