------------------------------ MODULE R2F2Alloc ------------------------------
(***************************************************************************)
(* The block allocator of r2f2 (r2f2_alloc.c).  The indices of the free    *)
(* blocks are kept in flash, in a ring of slots that spans a few allocator *)
(* blocks: freeing a block programs its index into the next erased slot,   *)
(* allocating one overwrites its slot with zeros.  Two positions in RAM    *)
(* bracket the free entries, and mounting recomputes them from the flash.  *)
(*                                                                         *)
(* An action is the code between two flash operations that change flash,   *)
(* so a power loss can come between any two of them.  One flash write or   *)
(* erase is atomic, and one that reports an error has changed nothing.     *)
(*                                                                         *)
(* The rest of the file system is the environment: it programs the blocks  *)
(* it holds, and its garbage collector, which allocate_block runs when no  *)
(* free entry is left, frees some of them.  It frees only what it holds,   *)
(* and what it freed it does not refer to any more.                        *)
(***************************************************************************)
EXTENDS Integers, FiniteSetsExt

CONSTANTS NumBlocks,        \* geom.num_blocks
          EntriesPerBlock,  \* geom.block_size / sizeof(alloc_block_entry_t)
          FlashFails        \* may a flash callback report an error?

FirstAllocatorBlock == 2    \* blocks 0 and 1 are the superblocks
\* Mutant: no allocator block to spare
NumAllocatorBlocksTight == ((NumBlocks - 1) \div EntriesPerBlock) + 1
NumAllocatorBlocks == ((NumBlocks - 1) \div EntriesPerBlock) + 2
FirstAllocable == FirstAllocatorBlock + NumAllocatorBlocks
Allocable == FirstAllocable .. NumBlocks - 1

\* Format takes one block for the root directory; a file system without a
\* second allocable block cannot be mounted after it.
ASSUME GeometryAssumption ==
    /\ NumBlocks \in Nat \ {0}
    /\ EntriesPerBlock \in Nat \ {0}
    /\ FirstAllocable + 2 <= NumBlocks
ASSUME FlashFailsAssumption == FlashFails \in BOOLEAN

Capacity == NumAllocatorBlocks * EntriesPerBlock
Slots == 0 .. Capacity - 1
NoSlot == Capacity          \* a position the code has as address 0: not set
Consumed == 0               \* all zeros: the entry was handed out
Erased == NumBlocks         \* all ones: UINT32_MAX, above every block index
Entries == Allocable \cup {Consumed, Erased}

VARIABLES
    ring,             \* flash: the content of every slot
    alloc_ptr,        \* RAM: the slot the next allocation reads
    next_free_ptr,    \* RAM: the slot the next free programs
    first_allocable,  \* RAM: _first_allocable_block, 0 until format sets it
    mounted,          \* is the file system mounted?
    held,             \* blocks the rest of the file system refers to
    dirty,            \* flash: allocable blocks programmed since their last erase
    pc,               \* where allocate_block, and the free inside it, stands
    freeing,          \* the block that free_block is working on
    freed             \* has this collection counted a freed block?

ringVars == <<ring, alloc_ptr, next_free_ptr>>
stepVars == <<pc, freeing, freed>>
vars == <<ring, alloc_ptr, next_free_ptr, first_allocable, mounted, held,
          dirty, pc, freeing, freed>>

NoBlock == NumBlocks

TypeOK ==
    /\ ring \in [Slots -> Entries]
    /\ alloc_ptr \in Slots \cup {NoSlot}
    /\ next_free_ptr \in Slots \cup {NoSlot}
    /\ first_allocable \in {0, FirstAllocable}
    /\ mounted \in BOOLEAN
    /\ held \subseteq Allocable \cup {0}
    /\ dirty \subseteq Allocable
    /\ pc \in {"idle", "gc", "erase", "write", "take"}
    /\ freeing \in Allocable \cup {NoBlock}
    /\ freed \in BOOLEAN

-----------------------------------------------------------------------------
Live(s) == ring[s] \in Allocable
LiveSlots == {s \in Slots : Live(s)}
ErasedSlots == {s \in Slots : ring[s] = Erased}
FreeBlocks == {ring[s] : s \in LiveSlots}

\* advance_ptr: the next slot, wrapping at the end of the last allocator block
Advance(s) == IF s + 1 >= Capacity THEN 0 ELSE s + 1

\* A slot where an allocator block starts, and the slots of that block
AtBoundary(s) == s % EntriesPerBlock = 0
BlockStart(s) == s - (s % EntriesPerBlock)
BlockFrom(s) == s .. s + EntriesPerBlock - 1
AllConsumed(s) == \A t \in BlockFrom(s) : ring[t] = Consumed
AllErased(s) == \A t \in BlockFrom(s) : ring[t] = Erased

-----------------------------------------------------------------------------
\* Mutant: the reserved blocks are listed too.
FormattedRingAll ==
    [s \in Slots |-> IF s < NumBlocks THEN s ELSE Erased]

\* prepare_block_allocator, and the root directory's block that format takes
\* and writes a header to.
FormattedRing ==
    [s \in Slots |-> IF s = 0 THEN Consumed
                     ELSE IF s < NumBlocks - FirstAllocable THEN FirstAllocable + s
                     ELSE Erased]

Formatted(r, a, n, f, h, d) ==
    /\ r = FormattedRing
    /\ a = 1
    /\ n = NumBlocks - FirstAllocable
    /\ f = FirstAllocable
    /\ h = {FirstAllocable}
    /\ d = {FirstAllocable}

\* Formatted and mounted in the same process.
Init ==
    /\ Formatted(ring, alloc_ptr, next_free_ptr, first_allocable, held, dirty)
    /\ mounted = TRUE
    /\ pc = "idle" /\ freeing = NoBlock /\ freed = FALSE

-----------------------------------------------------------------------------
\* Mutant: the slot keeps its entry.
TakeEntryUnzeroed ==
    LET b == ring[alloc_ptr] IN
    /\ first_allocable <= b /\ b < NumBlocks
    /\ alloc_ptr' = Advance(alloc_ptr)
    /\ held' = held \cup {b}
    /\ UNCHANGED <<ring, next_free_ptr, first_allocable, mounted, dirty>>

\* The entry at alloc_ptr passes the bounds check of allocate_block, is
\* overwritten with zeros and belongs to the caller.
TakeEntry ==
    LET b == ring[alloc_ptr] IN
    /\ first_allocable <= b /\ b < NumBlocks
    /\ ring' = [ring EXCEPT ![alloc_ptr] = Consumed]
    /\ alloc_ptr' = Advance(alloc_ptr)
    /\ held' = held \cup {b}
    /\ UNCHANGED <<next_free_ptr, first_allocable, mounted, dirty>>

\* allocate_block with entries between the two positions.  Where it reports an
\* error instead, it changes nothing.
AllocateBlock ==
    /\ mounted /\ pc = "idle"
    /\ alloc_ptr # next_free_ptr
    /\ TakeEntry
    /\ UNCHANGED stepVars

\* allocate_block with none: run the garbage collector first.
StartGc ==
    /\ mounted /\ pc = "idle"
    /\ alloc_ptr = next_free_ptr
    /\ pc' = "gc" /\ freed' = FALSE
    /\ UNCHANGED <<ringVars, first_allocable, mounted, held, dirty, freeing>>

\* Mutant: the number of freed blocks is not looked at.
GcReturnsUncounted ==
    /\ pc = "gc" /\ pc' = "take"
    /\ UNCHANGED <<ringVars, first_allocable, mounted, held, dirty, freeing, freed>>

\* The collector is back.  It reports RET_NOMEM when it counted no block;
\* otherwise allocate_block goes on, without looking at the positions again.
GcReturns ==
    /\ pc = "gc"
    /\ pc' = IF freed THEN "take" ELSE "idle"
    /\ UNCHANGED <<ringVars, first_allocable, mounted, held, dirty, freeing, freed>>

AllocateAfterGc ==
    /\ pc = "take"
    /\ TakeEntry
    /\ pc' = "idle"
    /\ UNCHANGED <<freeing, freed>>

\* RET_ERR: the entry is no free block, or a flash operation failed.
AllocateFails ==
    /\ pc = "take"
    /\ \/ ring[alloc_ptr] < first_allocable
       \/ ring[alloc_ptr] >= NumBlocks
       \/ FlashFails
    /\ pc' = "idle"
    /\ UNCHANGED <<ringVars, first_allocable, mounted, held, dirty, freeing, freed>>

-----------------------------------------------------------------------------
\* free_block up to the erasure of b: the bounds check, then, at the start of
\* an allocator block, the erasure of that block if all of it is used up.
\* Every reference the collector follows skips index 0.
FreeBlock(b) ==
    /\ pc = "gc"
    /\ b \in held /\ b # 0
    /\ b >= first_allocable /\ b < NumBlocks
    /\ \/ /\ AtBoundary(next_free_ptr) => AllErased(next_free_ptr)
          /\ UNCHANGED ring
       \/ /\ AtBoundary(next_free_ptr) /\ AllConsumed(next_free_ptr)
          /\ ring' = [s \in Slots |-> IF s \in BlockFrom(next_free_ptr)
                                      THEN Erased ELSE ring[s]]
    /\ pc' = "erase" /\ freeing' = b
    /\ UNCHANGED <<alloc_ptr, next_free_ptr, first_allocable, mounted, held,
                   dirty, freed>>

\* "block %u should have been empty (all 0)": free_block gives up.  The
\* collector looks at no return code: it has dropped its reference to b, and
\* counts b as freed.
FreeRefused(b) ==
    /\ pc = "gc"
    /\ b \in held /\ b # 0
    /\ \/ /\ AtBoundary(next_free_ptr)
          /\ ~AllConsumed(next_free_ptr) /\ ~AllErased(next_free_ptr)
       \/ FlashFails
    /\ held' = held \ {b}
    /\ freed' = TRUE
    /\ UNCHANGED <<ringVars, first_allocable, mounted, dirty, pc, freeing>>

\* Mutant: the block is listed without being erased.
EraseFreedSkipped ==
    /\ pc = "erase" /\ pc' = "write"
    /\ UNCHANGED <<ringVars, first_allocable, mounted, held, dirty, freeing, freed>>

EraseFreed ==
    /\ pc = "erase"
    /\ dirty' = dirty \ {freeing}
    /\ pc' = "write"
    /\ UNCHANGED <<ringVars, first_allocable, mounted, held, freeing, freed>>

\* Mutant: next_free_ptr is not advanced.
WriteEntryStays ==
    /\ pc = "write"
    /\ ring' = [ring EXCEPT ![next_free_ptr] = freeing]
    /\ held' = held \ {freeing}
    /\ freed' = TRUE
    /\ pc' = "gc" /\ freeing' = NoBlock
    /\ UNCHANGED <<alloc_ptr, next_free_ptr, first_allocable, mounted, dirty>>

WriteEntry ==
    /\ pc = "write"
    /\ ring' = [ring EXCEPT ![next_free_ptr] = freeing]
    /\ next_free_ptr' = Advance(next_free_ptr)
    /\ held' = held \ {freeing}
    /\ freed' = TRUE
    /\ pc' = "gc" /\ freeing' = NoBlock
    /\ UNCHANGED <<alloc_ptr, first_allocable, mounted, dirty>>

\* The erasure of b, or the write of its entry, fails.
FreeFails ==
    /\ FlashFails
    /\ pc \in {"erase", "write"}
    /\ held' = held \ {freeing}
    /\ freed' = TRUE
    /\ pc' = "gc" /\ freeing' = NoBlock
    /\ UNCHANGED <<ringVars, first_allocable, mounted, dirty>>

-----------------------------------------------------------------------------
\* The file system programs a block it holds; the collector does so too.
Program(b) ==
    /\ mounted /\ pc \in {"idle", "gc"}
    /\ b \in held \cap Allocable
    /\ dirty' = dirty \cup {b}
    /\ UNCHANGED <<ringVars, first_allocable, mounted, held, stepVars>>

Next ==
    \/ AllocateBlock \/ StartGc \/ GcReturns \/ AllocateAfterGc \/ AllocateFails
    \/ \E b \in Allocable : FreeBlock(b) \/ FreeRefused(b) \/ Program(b)
    \/ EraseFreed \/ WriteEntry \/ FreeFails

Spec == Init /\ [][Next]_vars

-----------------------------------------------------------------------------
(***************************************************************************)
(* Power losses, unmounting, mounting and formatting again.                *)
(***************************************************************************)

\* The statics return to zero, and blocks whose reference was not yet on flash
\* are held by nobody.
PowerLoss ==
    /\ mounted' = FALSE
    /\ alloc_ptr' = NoSlot /\ next_free_ptr' = NoSlot
    /\ first_allocable' = 0
    /\ pc' = "idle" /\ freeing' = NoBlock /\ freed' = FALSE
    /\ \E lost \in SUBSET held : held' = held \ lost
    /\ UNCHANGED <<ring, dirty>>

\* r2f2_unmount: no flash operation of the allocator, and the statics stay.
Unmount ==
    /\ mounted /\ pc = "idle"
    /\ mounted' = FALSE
    /\ UNCHANGED <<ringVars, first_allocable, held, dirty, stepVars>>

\* restore_block_allocator: one scan from the first slot to the last.
Mount ==
    /\ ~mounted
    /\ LiveSlots # {} /\ ErasedSlots # {}
    /\ alloc_ptr' = Min(LiveSlots)
    /\ next_free_ptr' = Min(ErasedSlots)
    /\ mounted' = TRUE
    /\ UNCHANGED <<ring, first_allocable, held, dirty, stepVars>>

\* The scan misses one of the two: RET_ERR, and a position that is not set.
MountFails ==
    /\ ~mounted
    /\ \/ LiveSlots = {} /\ alloc_ptr' = NoSlot
       \/ LiveSlots # {} /\ ErasedSlots = {} /\ alloc_ptr' = Min(LiveSlots)
    /\ next_free_ptr' = IF ErasedSlots = {} THEN NoSlot ELSE Min(ErasedSlots)
    /\ UNCHANGED <<ring, first_allocable, mounted, held, dirty, stepVars>>

\* r2f2_format of a file system that is not mounted.
Format ==
    /\ ~mounted
    /\ Formatted(ring', alloc_ptr', next_free_ptr', first_allocable', held', dirty')
    /\ UNCHANGED <<mounted, stepVars>>

RestartNext == Next \/ PowerLoss \/ Unmount \/ Mount \/ MountFails \/ Format

RestartSpec == Init /\ [][RestartNext]_vars
-----------------------------------------------------------------------------
(***************************************************************************)
(* What the allocator promises while the file system stays mounted.        *)
(***************************************************************************)

\* The slots from a up to, and not including, b, going round the ring
InSpan(s, a, b) == IF a <= b THEN a <= s /\ s < b ELSE s < b \/ a <= s

\* r2f2_alloc.h: "An alloc pointer points to the first alloc block entry", "A
\* second pointer points past the last alloc entry".  The free entries are
\* exactly the slots between the two positions, so allocations reach every
\* free block, and the two positions are equal only when none is left.
PointersBracketFreeEntries ==
    mounted => \A s \in Slots : Live(s) <=> InSpan(s, alloc_ptr, next_free_ptr)

\* free_block, r2f2_alloc.c:240: when next_free_ptr enters an allocator block,
\* all of that block is erased or all of it is used up: the free entries never
\* reach round the ring into the block that has to be erased next.
NextBlockEmptyOnFree ==
    pc = "gc" /\ AtBoundary(next_free_ptr) =>
        AllConsumed(next_free_ptr) \/ AllErased(next_free_ptr)

\* allocate_block does not look at the positions again after a collection that
\* counted a freed block: without flash errors there is an entry to take.
CollectionLeavesEntry ==
    pc = "take" /\ ~FlashFails => Live(alloc_ptr)

\* r2f2_alloc.c:11 and 42: blocks 0 and 1 hold the superblocks, the next ones
\* the ring, and only "all non-reserved blocks" are handed out.
OnlyAllocableHeld == held \subseteq Allocable

\* Without flash errors no block is lost: every allocable block is free or
\* held, never neither.
NoBlockLost == ~FlashFails => Allocable \subseteq FreeBlocks \cup held

-----------------------------------------------------------------------------
(***************************************************************************)
(* What it promises across power losses and mounts too.                    *)
(***************************************************************************)

\* One owner per block: no index is in two slots, and none is both free and in
\* use, at any point of allocate_block, free_block and a power loss in them.
UniqueOwnership ==
    /\ \A s, t \in LiveSlots : ring[s] = ring[t] => s = t
    /\ \A s \in LiveSlots : ring[s] \notin held

\* A free block is erased: whoever allocates it can program it.
FreeBlocksErased == \A s \in LiveSlots : ring[s] \notin dirty

\* Where the control of the running call stands
ControlInv ==
    /\ mounted => alloc_ptr \in Slots /\ next_free_ptr \in Slots
    /\ pc # "idle" => mounted
    /\ pc \in {"erase", "write"} => freeing \in held /\ freeing \in Allocable
    /\ pc = "write" => freeing \notin dirty

\* An allocator block is filled from its first slot on.
FilledInOrder ==
    \A s \in Slots : ring[s] = Erased /\ s + 1 \in Slots /\ ~AtBoundary(s + 1)
                         => ring[s + 1] = Erased

\* Inside an allocator block, next_free_ptr is at its first erased slot; at the
\* start of one, free_block has made sure of that before it erases its block.
NextFreeErased ==
    /\ mounted /\ ~AtBoundary(next_free_ptr) =>
           ring[next_free_ptr] = Erased /\ ring[next_free_ptr - 1] # Erased
    /\ pc \in {"erase", "write"} => ring[next_free_ptr] = Erased

\* Inductive under RestartSpec: together with the state of the control, the
\* order in which blocks are filled keeps a free from programming a slot that
\* is not erased, wherever a mount has put the two positions.
RestartInv ==
    /\ TypeOK /\ ControlInv
    /\ UniqueOwnership /\ FreeBlocksErased
    /\ FilledInOrder /\ NextFreeErased

\* The life of a slot under the rules of NOR flash: it is programmed when
\* erased, zeroed when it holds a free block, and erased only with its whole
\* allocator block, when all of that block was used up: no free entry is
\* overwritten or erased.  (Formatting starts over.)
SlotStep ==
    \/ Format
    \/ \A s \in Slots :
          \/ ring'[s] = ring[s]
          \/ ring[s] = Erased /\ ring'[s] \in Allocable
          \/ Live(s) /\ ring'[s] = Consumed
          \/ AllConsumed(BlockStart(s)) /\ ring'[s] = Erased

SlotLifeCycle == [][SlotStep]_vars

-----------------------------------------------------------------------------
(***************************************************************************)
(* Why the first group holds: an inductive invariant of Spec.              *)
(***************************************************************************)

\* The number of entries between the two positions
NumFree == IF alloc_ptr <= next_free_ptr
           THEN next_free_ptr - alloc_ptr
           ELSE Capacity - alloc_ptr + next_free_ptr

\* The blocks that are free and the blocks that are held are at most the
\* allocable ones: what keeps the ring, an allocator block longer than they
\* are, from ever filling up.
RoomInRing == NumFree + Cardinality(held) <= NumBlocks - FirstAllocable

\* Before next_free_ptr first wraps, every slot from it on is erased; later
\* only the rest of its block is, or nothing when it is about to enter one.
FirstLap ==
    /\ alloc_ptr <= next_free_ptr
    /\ ErasedSlots = next_free_ptr .. Capacity - 1
LaterLap ==
    \/ ErasedSlots = next_free_ptr .. BlockStart(next_free_ptr) + EntriesPerBlock - 1
    \/ ErasedSlots = {} /\ AtBoundary(next_free_ptr)

\* A collection that counted a block, without flash errors, wrote its entry.
FreedEntryWritten ==
    /\ pc \in {"gc", "erase", "write"} /\ freed /\ ~FlashFails => alloc_ptr # next_free_ptr
    /\ pc = "take" => freed /\ (~FlashFails => alloc_ptr # next_free_ptr)

MountedInv ==
    /\ RestartInv
    /\ mounted /\ first_allocable = FirstAllocable
    /\ PointersBracketFreeEntries
    /\ RoomInRing
    /\ FirstLap \/ LaterLap
    /\ FreedEntryWritten
    /\ NoBlockLost
=============================================================================
