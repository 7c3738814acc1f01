----------------------------- MODULE MCR2F2Alloc -----------------------------
(***************************************************************************)
(* Model checking the allocator.  Its state is finite: a slot holds one of *)
(* NumBlocks - FirstAllocable blocks or one of two marks, and nothing      *)
(* counts, so a geometry is the only bound.                                *)
(***************************************************************************)
EXTENDS R2F2Alloc, Sequences

(***************************************************************************)
(* The slots between the two positions, in order, are the queue.           *)
(***************************************************************************)
Queue == [i \in 1 .. NumFree |-> ring[(alloc_ptr + i - 1) % Capacity]]

FreeList == INSTANCE R2F2FreeList WITH
    Blocks    <- Allocable,
    FreshList <- [i \in 1 .. NumBlocks - FirstAllocable - 1 |-> FirstAllocable + i],
    Root      <- FirstAllocable,
    MayLose   <- FlashFails,
    list      <- Queue,
    owned     <- held

\* The allocator is a first-in-first-out queue of free blocks: every step of
\* it, the ones that recycle an allocator block included, takes the first
\* block of the queue, appends one, or leaves the queue alone.
ImplementsFreeList == FreeList!Spec
=============================================================================
