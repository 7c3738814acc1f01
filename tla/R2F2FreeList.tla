----------------------------- MODULE R2F2FreeList -----------------------------
(***************************************************************************)
(* What the block allocator of r2f2 promises its callers: a queue of free  *)
(* blocks.  A block is handed out from the front, and one that is freed    *)
(* goes to the end, so that every other free block is used before it is    *)
(* used again, which levels the wear of the flash.                         *)
(***************************************************************************)
EXTENDS Sequences

CONSTANTS Blocks,    \* the allocable blocks
          FreshList, \* the free blocks after formatting, in order
          Root,      \* the block formatting hands out
          MayLose    \* may a block that is being freed be lost to a flash error?

VARIABLES list,  \* the free blocks, in the order they will be handed out
          owned  \* the blocks the caller holds

Init == list = FreshList /\ owned = {Root}

Allocate ==
    /\ list # <<>>
    /\ list' = Tail(list)
    /\ owned' = owned \cup {Head(list)}

Free(b) ==
    /\ b \in owned
    /\ list' = Append(list, b)
    /\ owned' = owned \ {b}

Lose(b) ==
    /\ MayLose
    /\ b \in owned
    /\ owned' = owned \ {b}
    /\ UNCHANGED list

Next == Allocate \/ \E b \in Blocks : Free(b) \/ Lose(b)

Spec == Init /\ [][Next]_<<list, owned>>
=============================================================================
