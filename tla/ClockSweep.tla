----------------------------- MODULE ClockSweep -----------------------------
(***************************************************************************)
(* The Clock loop of handle_page_fault() (memory_manager.cpp:134-194), one *)
(* iteration per step, from every full assignment of frames to pages,      *)
(* every setting of the reference bits and every position of the hand.     *)
(* MemoryManager takes the loop in one step; here it is shown to do what   *)
(* the operators Passed, Hand and Swept say, and to end.                   *)
(***************************************************************************)
EXTENDS MemoryManager

VARIABLES
    victim,         \* the frame at which the loop stopped, or none yet
    start           \* page_tables_ and clock_ptr_ when the loop began

sweepVars == <<vars, victim, start>>

NoVictim == -1

\* Every frame holds a page of its own; bit[f] is that page's reference bit.
FullTables(page, bit) ==
    [p \in Pids |-> [g \in Pages |->
        IF \E f \in Frames : page[f] = <<p, g>>
        THEN LET f == CHOOSE f \in Frames : page[f] = <<p, g>>
             IN  [NewEntry EXCEPT !.present = TRUE, !.frame_number = f,
                                  !.referenced = bit[f]]
        ELSE NewEntry]]

SweepInit ==
    /\ \E page \in [Frames -> Pids \X Pages], bit \in [Frames -> BOOLEAN] :
         /\ \A f, h \in Frames : page[f] = page[h] => f = h
         /\ page_tables = FullTables(page, bit)
         /\ frames = [f \in Frames |-> Assigned(page[f][1], page[f][2])]
    /\ free_swap_blocks \in Ascending(SwapBlocks)
    /\ clock_ptr \in Frames
    /\ frame_data = [f \in Frames |-> Zero]
    /\ swap_data = [b \in SwapBlocks |-> Zero]
    /\ victim = NoVictim
    /\ start = [page_tables |-> page_tables, clock_ptr |-> clock_ptr]

\* Faulty variants: the hand stays on the page; the bit stays set.
SecondChanceInPlace ==
    /\ victim = NoVictim
    /\ Referenced(clock_ptr)
    /\ page_tables' =
         [page_tables EXCEPT
            ![frames[clock_ptr].owner_pid][frames[clock_ptr].page_number].referenced
              = FALSE]
    /\ UNCHANGED <<clock_ptr, frames, free_swap_blocks, frame_data, swap_data,
                   victim, start>>
SecondChanceForever ==
    /\ victim = NoVictim
    /\ Referenced(clock_ptr)
    /\ clock_ptr' = Advanced(clock_ptr)
    /\ UNCHANGED <<page_tables, frames, free_swap_blocks, frame_data, swap_data,
                   victim, start>>

\* A referenced page loses its bit and the hand moves on.
SecondChance ==
    /\ victim = NoVictim
    /\ Referenced(clock_ptr)
    /\ page_tables' =
         [page_tables EXCEPT
            ![frames[clock_ptr].owner_pid][frames[clock_ptr].page_number].referenced
              = FALSE]
    /\ clock_ptr' = Advanced(clock_ptr)
    /\ UNCHANGED <<frames, free_swap_blocks, frame_data, swap_data, victim, start>>

\* Any other page is the victim.
Choose ==
    /\ victim = NoVictim
    /\ ~Referenced(clock_ptr)
    /\ victim' = clock_ptr
    /\ UNCHANGED <<vars, start>>

SweepNext == SecondChance \/ Choose

SweepSpec == SweepInit /\ [][SweepNext]_sweepVars /\ WF_sweepVars(SweepNext)

Before == INSTANCE MemoryManager WITH
            page_tables <- start.page_tables, clock_ptr <- start.clock_ptr

\* When the loop stops, the victim and the reference bits are the ones that
\* MemoryManager computes from the state in which the loop began.
SweepIsAsComputed ==
    victim # NoVictim =>
      \E k \in Before!Passed :
        /\ victim = Before!Hand(k)
        /\ page_tables = Before!Swept(k)

\* The `while (true)' always ends.
SweepEnds == <>(victim # NoVictim)
=============================================================================
