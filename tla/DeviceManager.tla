--------------------------- MODULE DeviceManager ---------------------------
(***************************************************************************)
(* The device table of DeviceManager (src/dev/device_manager.cpp).  Only   *)
(* one device is ever registered, the disk (the constructor, line 11), so  *)
(* the table is one record: who owns it and who waits for it, in order.    *)
(*                                                                         *)
(* The operators return what an operation leaves behind.  An operation     *)
(* that searches a queue returns the set of its possible results, which    *)
(* has exactly one member: the callers bind it with \E.                    *)
(*                                                                         *)
(* In this module and the others, a definition introduced as a faulty      *)
(* variant is used by no specification: put in the place of the one that   *)
(* follows it, it must break a property.                                   *)
(***************************************************************************)
EXTENDS Enumeration, Functions

NoPid == -1                           \* owner_pid of a free device

FreeDevice == [owner_pid |-> NoPid, wait_queue |-> <<>>]

\* cancel_wait(): every occurrence of p leaves the queue, the others keep
\* their order.
Without(queue, p) ==
    {[k \in DOMAIN w |-> queue[w[k]]] :
        w \in Ascending({i \in DOMAIN queue : queue[i] # p})}

\* request(): true iff the caller has the device when the call returns.
Grants(dev, p) == dev.owner_pid \in {NoPid, p}

\* Faulty variant: a busy device does not queue the caller.
RequestedUnqueued(dev, p) ==
    IF dev.owner_pid = NoPid THEN [dev EXCEPT !.owner_pid = p] ELSE dev

\* request(): a free device is taken, a busy one gains a waiter, once.
Requested(dev, p) ==
    IF dev.owner_pid = NoPid THEN [dev EXCEPT !.owner_pid = p]
    ELSE IF dev.owner_pid = p \/ p \in Range(dev.wait_queue) THEN dev
    ELSE [dev EXCEPT !.wait_queue = Append(@, p)]

\* Faulty variant: the last waiter inherits.
HandedOverToLast(queue, waiting) ==
    LET heirs == {i \in DOMAIN queue : queue[i] \in waiting}
    IN  IF heirs = {}
        THEN {FreeDevice}
        ELSE {[owner_pid  |-> queue[i],
               wait_queue |-> SubSeq(queue, 1, i - 1)] :
                 i \in {i \in heirs : \A j \in heirs : j <= i}}

\* Faulty variant: the device is freed but not handed to a waiter.
HandedOverToNobody(queue, waiting) ==
    {[owner_pid |-> NoPid, wait_queue |-> queue]}

(***************************************************************************)
(* release() by the owner, together with the loop of its caller,           *)
(* wakeup_device_waiter(): the head of the queue becomes the owner; if it  *)
(* is not one of the pids that `waiting' says still wait, it releases the  *)
(* device in its turn, until a waiter keeps it or the queue is empty.      *)
(***************************************************************************)
HandedOver(queue, waiting) ==
    LET heirs == {i \in DOMAIN queue : queue[i] \in waiting}
    IN  IF heirs = {}
        THEN {FreeDevice}
        ELSE {[owner_pid  |-> queue[i],
               wait_queue |-> SubSeq(queue, i + 1, Len(queue))] :
                 i \in Firsts(heirs)}

\* Faulty variant: the waits of p are not cancelled.
ReleasedAllButWaits(dev, p, waiting) ==
    IF dev.owner_pid = p THEN HandedOver(dev.wait_queue, waiting) ELSE {dev}

\* Faulty variant: the device is released whoever owns it.
ReleasedAllUnowned(dev, p, waiting) ==
    UNION {HandedOver(queue, waiting) : queue \in Without(dev.wait_queue, p)}

\* release_all() with the same loop: p leaves the queue and, if it is the
\* owner, hands the device over.
ReleasedAll(dev, p, waiting) ==
    UNION {IF dev.owner_pid = p
           THEN HandedOver(queue, waiting)
           ELSE {[dev EXCEPT !.wait_queue = queue]} :
             queue \in Without(dev.wait_queue, p)}

\* cancel_wait() on the device: the owner stays.
Cancelled(dev, p) ==
    {[dev EXCEPT !.wait_queue = queue] : queue \in Without(dev.wait_queue, p)}
=============================================================================
