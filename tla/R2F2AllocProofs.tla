---------------------------- MODULE R2F2AllocProofs ----------------------------
(***************************************************************************)
(* Theorems about the block allocator, for every geometry.                 *)
(*                                                                         *)
(* RestartSpec covers Spec, so what is proved of the first, with power     *)
(* losses, failed mounts and formatting, holds of the second.  The last    *)
(* section proves that the allocator is the queue of R2F2FreeList.         *)
(***************************************************************************)
EXTENDS MCR2F2Alloc, FiniteSetTheorems, SequenceTheorems, WellFoundedInduction, TLAPS

-----------------------------------------------------------------------------
(***************************************************************************)
(* Geometry: division, and where allocator blocks start and end.           *)
(***************************************************************************)

\* Division with remainder by the number of entries in a block.
LEMMA DivMod ==
    ASSUME NEW a \in Nat
    PROVE  /\ a \div EntriesPerBlock \in Nat
           /\ a % EntriesPerBlock \in 0 .. EntriesPerBlock - 1
           /\ a = EntriesPerBlock * (a \div EntriesPerBlock) + (a % EntriesPerBlock)
BY GeometryAssumption

\* The ring has room for an index of every block and one allocator block more.
LEMMA CapacityBound ==
    /\ NumAllocatorBlocks \in Nat
    /\ Capacity \in Nat
    /\ NumBlocks + EntriesPerBlock <= Capacity
<1> DEFINE q == (NumBlocks - 1) \div EntriesPerBlock
           r == (NumBlocks - 1) % EntriesPerBlock
<1>1. /\ q \in Nat /\ r \in 0 .. EntriesPerBlock - 1
      /\ NumBlocks - 1 = EntriesPerBlock * q + r
  BY DivMod, GeometryAssumption
<1>2. Capacity = EntriesPerBlock * q + EntriesPerBlock + EntriesPerBlock
  BY <1>1, GeometryAssumption DEF Capacity, NumAllocatorBlocks
<1>3. NumAllocatorBlocks \in Nat
  BY <1>1 DEF NumAllocatorBlocks
<1> HIDE DEF q, r
<1>4. EntriesPerBlock * q \in Nat
  BY <1>1, GeometryAssumption
<1>5. QED
  BY <1>1, <1>2, <1>3, <1>4, GeometryAssumption

\* The constants the steps compare with each other.
LEMMA Geometry ==
    /\ FirstAllocable \in Nat /\ 0 < FirstAllocable
    /\ NumBlocks \in Nat /\ FirstAllocable + 2 <= NumBlocks
    /\ EntriesPerBlock \in Nat /\ 0 < EntriesPerBlock
    /\ Capacity \in Nat /\ NumBlocks + EntriesPerBlock <= Capacity
BY CapacityBound, GeometryAssumption DEF FirstAllocable, FirstAllocatorBlock

\* Multiplication by the number of entries preserves order.
LEMMA Monotone ==
    ASSUME NEW x \in Nat, NEW y \in Nat, x <= y
    PROVE  EntriesPerBlock * x <= EntriesPerBlock * y
BY GeometryAssumption

\* The remainder is the only one.
LEMMA ModUnique ==
    ASSUME NEW q \in Nat, NEW r \in 0 .. EntriesPerBlock - 1
    PROVE  (EntriesPerBlock * q + r) % EntriesPerBlock = r
<1> DEFINE s == EntriesPerBlock * q + r
           p == s \div EntriesPerBlock
           m == s % EntriesPerBlock
<1>1. s \in Nat
  BY GeometryAssumption
<1>2. p \in Nat /\ m \in 0 .. EntriesPerBlock - 1 /\ s = EntriesPerBlock * p + m
  BY <1>1, DivMod
<1> HIDE DEF p, m
<1>3. CASE p < q
  <2>1. EntriesPerBlock * (p + 1) <= EntriesPerBlock * q
    BY <1>2, <1>3, Monotone
  <2>2. QED
    BY <1>2, <2>1, GeometryAssumption
<1>4. CASE q < p
  <2>1. EntriesPerBlock * (q + 1) <= EntriesPerBlock * p
    BY <1>2, <1>4, Monotone
  <2>2. QED
    BY <1>2, <2>1, GeometryAssumption
<1>5. CASE p = q
  BY <1>2, <1>5, GeometryAssumption DEF m
<1>6. QED
  BY <1>2, <1>3, <1>4, <1>5

\* The block that starts at a boundary ends where the next one starts, within
\* the ring.
LEMMA BlockFits ==
    ASSUME NEW p \in Slots, AtBoundary(p)
    PROVE  /\ p + EntriesPerBlock <= Capacity
           /\ BlockFrom(p) \subseteq Slots
<1> DEFINE q == p \div EntriesPerBlock
<1>1. p \in Nat /\ p < Capacity
  BY CapacityBound DEF Slots
<1>2. q \in Nat /\ p = EntriesPerBlock * q
  BY <1>1, DivMod, GeometryAssumption DEF AtBoundary
<1> HIDE DEF q
<1>3. q < NumAllocatorBlocks
  BY <1>1, <1>2, CapacityBound, Monotone, GeometryAssumption DEF Capacity
<1>4. EntriesPerBlock * (q + 1) <= EntriesPerBlock * NumAllocatorBlocks
  BY <1>2, <1>3, CapacityBound, Monotone
<1>5. p + EntriesPerBlock <= Capacity
  BY <1>2, <1>4, CapacityBound, GeometryAssumption DEF Capacity
<1>6. QED
  BY <1>1, <1>5, CapacityBound, GeometryAssumption DEF BlockFrom, Slots

\* A slot lies in the block that starts at p exactly when p is its block's
\* start, and its successor leaves that block only at a boundary.
LEMMA InBlock ==
    ASSUME NEW p \in Nat, AtBoundary(p), NEW s \in BlockFrom(p)
    PROVE  /\ BlockStart(s) = p
           /\ AtBoundary(s + 1) <=> s + 1 = p + EntriesPerBlock
<1> DEFINE q == p \div EntriesPerBlock
<1>1. q \in Nat /\ p = EntriesPerBlock * q
  BY DivMod, GeometryAssumption DEF AtBoundary
<1> HIDE DEF q
<1>2. s \in Nat /\ p <= s /\ s < p + EntriesPerBlock
  BY GeometryAssumption DEF BlockFrom
<1>3. s % EntriesPerBlock = s - p
  <2> DEFINE r == s - p
  <2>1. r \in 0 .. EntriesPerBlock - 1 /\ s = EntriesPerBlock * q + r
    BY <1>1, <1>2, GeometryAssumption
  <2> HIDE DEF r
  <2>2. s % EntriesPerBlock = r
    BY <1>1, <2>1, ModUnique
  <2>3. QED
    BY <2>2 DEF r
<1>4. (s + 1) % EntriesPerBlock = IF s + 1 = p + EntriesPerBlock THEN 0 ELSE s + 1 - p
  <2>1. CASE s + 1 = p + EntriesPerBlock
    <3>1. 0 \in 0 .. EntriesPerBlock - 1 /\ s + 1 = EntriesPerBlock * (q + 1) + 0
      BY <1>1, <1>2, <2>1, GeometryAssumption
    <3>2. (s + 1) % EntriesPerBlock = 0
      BY <1>1, <3>1, ModUnique
    <3>3. QED
      BY <2>1, <3>2
  <2>2. CASE s + 1 # p + EntriesPerBlock
    <3> DEFINE r == s + 1 - p
    <3>1. r \in 0 .. EntriesPerBlock - 1 /\ s + 1 = EntriesPerBlock * q + r
      BY <1>1, <1>2, <2>2, GeometryAssumption
    <3> HIDE DEF r
    <3>2. (s + 1) % EntriesPerBlock = r
      BY <1>1, <3>1, ModUnique
    <3>3. QED
      BY <2>2, <3>2 DEF r
  <2>3. QED
    BY <2>1, <2>2
<1>5. QED
  BY <1>2, <1>3, <1>4, GeometryAssumption DEF BlockStart, AtBoundary
-----------------------------------------------------------------------------
(***************************************************************************)
(* RestartInv is inductive.                                                *)
(***************************************************************************)

\* The least slot of a non-empty set of slots, which the scan of a mount finds.
LEMMA LeastSlot ==
    ASSUME NEW T, T \subseteq Slots, T # {}
    PROVE  Min(T) \in T /\ \A t \in T : Min(T) <= t
<1> DEFINE less == OpToRel(<, Nat)
<1>1. T \subseteq Nat
  BY Geometry DEF Slots
<1>2. \A y, x \in Nat : y < x => <<y, x>> \in less
  BY DEF OpToRel
<1>3. IsWellFoundedOn(less, Nat)
  BY NatLessThanWellFounded
<1> HIDE DEF less
<1>4. PICK x \in T : \A y \in T : ~(<<y, x>> \in less)
  BY <1>1, <1>3, WFMin
<1>5. ASSUME NEW y \in T PROVE x <= y
  <2>1. y \in Nat /\ x \in Nat
    BY <1>1
  <2>2. ~(y < x)
    BY <1>2, <1>4, <2>1
  <2>3. QED
    BY <2>1, <2>2
<1>6. QED
  BY <1>5 DEF Min

\* advance_ptr stays within the ring, and leaves an allocator block only to the
\* start of one.
LEMMA AdvanceInRing ==
    ASSUME NEW s \in Slots
    PROVE  /\ Advance(s) \in Slots
           /\ ~AtBoundary(Advance(s)) => Advance(s) = s + 1
<1>1. s \in Nat /\ s < Capacity /\ 0 \in Slots
  BY Geometry DEF Slots
<1>2. AtBoundary(0)
  BY Geometry DEF AtBoundary
<1>3. QED
  BY <1>1, <1>2, Geometry DEF Advance, Slots

\* The flash and the positions that formatting leaves satisfy the invariant.
LEMMA FormattedRingShape ==
    /\ FormattedRing \in [Slots -> Entries]
    /\ \A s, t \in Slots : FormattedRing[s] \in Allocable /\ FormattedRing[s] = FormattedRing[t]
                              => s = t
    /\ \A s \in Slots : FormattedRing[s] # FirstAllocable
    /\ \A s \in Slots : FormattedRing[s] = Erased <=> s >= NumBlocks - FirstAllocable
    /\ 1 \in Slots /\ NumBlocks - FirstAllocable \in Slots
BY Geometry DEF FormattedRing, Slots, Entries, Allocable, Consumed, Erased

LEMMA InitRestartInv == Init => RestartInv
<1> SUFFICES ASSUME Init PROVE RestartInv
  OBVIOUS
<1> USE DEF Init, Formatted
<1>1. TypeOK
  <2>1. FirstAllocable \in Allocable
    BY Geometry DEF Allocable
  <2>2. QED
    BY <2>1, FormattedRingShape DEF TypeOK
<1>2. ControlInv
  BY FormattedRingShape DEF ControlInv
<1>3. UniqueOwnership /\ FreeBlocksErased
  BY FormattedRingShape DEF UniqueOwnership, FreeBlocksErased, LiveSlots, Live
<1>4. FilledInOrder
  BY FormattedRingShape, Geometry DEF FilledInOrder, Slots
<1>5. NextFreeErased
  BY FormattedRingShape, Geometry DEF NextFreeErased, Slots
<1>6. QED
  BY <1>1, <1>2, <1>3, <1>4, <1>5 DEF RestartInv

\* Handing out the entry at alloc_ptr, whatever entry it is.
LEMMA TakeEntryRestartInv ==
    ASSUME RestartInv, mounted, TakeEntry,
           pc' = "idle", UNCHANGED <<freeing, freed>>, pc \in {"idle", "take"}
    PROVE  RestartInv'
<1> DEFINE b == ring[alloc_ptr]
<1> USE DEF RestartInv
<1>1. /\ alloc_ptr \in Slots /\ next_free_ptr \in Slots
      /\ ring \in [Slots -> Entries]
      /\ b \in Allocable \cup {0} /\ b # Erased
  BY Geometry DEF TypeOK, ControlInv, TakeEntry, Entries, Consumed, Erased, Allocable
<1>2. /\ ring' = [ring EXCEPT ![alloc_ptr] = Consumed]
      /\ held' = held \cup {b} /\ alloc_ptr' = Advance(alloc_ptr)
      /\ UNCHANGED <<next_free_ptr, first_allocable, mounted, dirty>>
  BY DEF TakeEntry
<1> HIDE DEF b
<1>3. Consumed \notin Allocable /\ Consumed # Erased /\ Consumed \in Entries
  BY Geometry DEF Consumed, Erased, Allocable, Entries
<1>4. \A s \in Slots : ring'[s] = IF s = alloc_ptr THEN Consumed ELSE ring[s]
  BY <1>1, <1>2
<1>5. TypeOK'
  BY <1>1, <1>2, <1>3, AdvanceInRing DEF TypeOK
<1>6. ControlInv'
  BY <1>1, <1>2, AdvanceInRing DEF ControlInv
<1>7. UniqueOwnership'
  BY <1>1, <1>2, <1>3, <1>4 DEF UniqueOwnership, LiveSlots, Live, b
<1>8. FreeBlocksErased'
  BY <1>2, <1>3, <1>4 DEF FreeBlocksErased, LiveSlots, Live
<1>9. FilledInOrder'
  BY <1>1, <1>3, <1>4 DEF FilledInOrder, b
<1>10. NextFreeErased'
  <2>1. CASE AtBoundary(next_free_ptr)
    BY <1>2, <2>1 DEF NextFreeErased
  <2>2. CASE ~AtBoundary(next_free_ptr)
    <3>1. next_free_ptr - 1 \in Slots /\ next_free_ptr # alloc_ptr
      BY <1>1, <2>2, Geometry DEF NextFreeErased, Slots, AtBoundary, b
    <3>2. QED
      BY <1>1, <1>2, <1>3, <1>4, <2>2, <3>1 DEF NextFreeErased
  <2>3. QED
    BY <2>1, <2>2
<1>11. QED
  BY <1>5, <1>6, <1>7, <1>8, <1>9, <1>10

\* free_block up to the erasure of the freed block: an allocator block that is
\* entered is erased only when all of it was used up.
LEMMA FreeBlockRestartInv ==
    ASSUME RestartInv, NEW b \in Allocable, FreeBlock(b)
    PROVE  RestartInv'
<1> USE DEF RestartInv
<1>1. /\ mounted /\ next_free_ptr \in Slots /\ next_free_ptr \in Nat
      /\ ring \in [Slots -> Entries]
  BY Geometry DEF FreeBlock, ControlInv, TypeOK, Slots
<1>2. /\ pc = "gc" /\ b \in held /\ pc' = "erase" /\ freeing' = b
      /\ UNCHANGED <<alloc_ptr, next_free_ptr, first_allocable, mounted, held,
                     dirty, freed>>
  BY DEF FreeBlock
<1>3. /\ Erased \notin Allocable /\ Erased \in Entries /\ Consumed # Erased
  BY Geometry DEF Consumed, Erased, Allocable, Entries
<1>4. ring' \in [Slots -> Entries]
  BY <1>1, <1>3 DEF FreeBlock
<1>5. ring'[next_free_ptr] = Erased
  <2>1. next_free_ptr \in BlockFrom(next_free_ptr)
    BY <1>1, Geometry DEF BlockFrom
  <2>2. QED
    BY <1>1, <2>1 DEF FreeBlock, AllErased, NextFreeErased
<1>6. \A s \in Slots : ring'[s] = ring[s] \/ (ring[s] = Consumed /\ ring'[s] = Erased)
  BY <1>1 DEF FreeBlock, AllConsumed
<1>7. TypeOK' /\ ControlInv'
  BY <1>2, <1>4 DEF TypeOK, ControlInv
<1>8. UniqueOwnership' /\ FreeBlocksErased'
  BY <1>2, <1>3, <1>6 DEF UniqueOwnership, FreeBlocksErased, LiveSlots, Live
<1>9. FilledInOrder'
  <2>1. CASE UNCHANGED ring
    BY <2>1 DEF FilledInOrder
  <2>2. CASE /\ AtBoundary(next_free_ptr)
             /\ ring' = [s \in Slots |-> IF s \in BlockFrom(next_free_ptr)
                                         THEN Erased ELSE ring[s]]
    <3> SUFFICES ASSUME NEW s \in Slots, ring'[s] = Erased, s + 1 \in Slots,
                        ~AtBoundary(s + 1)
                 PROVE  ring'[s + 1] = Erased
      BY DEF FilledInOrder
    <3>1. CASE s \in BlockFrom(next_free_ptr)
      <4>1. s + 1 # next_free_ptr + EntriesPerBlock
        BY <1>1, <2>2, <3>1, InBlock
      <4>2. s + 1 \in BlockFrom(next_free_ptr)
        BY <1>1, <3>1, <4>1, Geometry DEF BlockFrom
      <4>3. QED
        BY <2>2, <4>2
    <3>2. CASE s \notin BlockFrom(next_free_ptr)
      BY <2>2, <3>2 DEF FilledInOrder
    <3>3. QED
      BY <3>1, <3>2
  <2>3. QED
    BY <2>1, <2>2 DEF FreeBlock
<1>10. NextFreeErased'
  <2>1. CASE AtBoundary(next_free_ptr)
    BY <1>2, <1>5, <2>1 DEF NextFreeErased
  <2>2. CASE ~AtBoundary(next_free_ptr)
    BY <1>1, <1>2, <1>5, <2>2 DEF NextFreeErased, FreeBlock
  <2>3. QED
    BY <2>1, <2>2
<1>11. QED
  BY <1>7, <1>8, <1>9, <1>10

\* The write of the entry, into a slot that is erased.
LEMMA WriteEntryRestartInv ==
    ASSUME RestartInv, WriteEntry
    PROVE  RestartInv'
<1> USE DEF RestartInv
<1>1. /\ next_free_ptr \in Slots /\ ring \in [Slots -> Entries]
      /\ freeing \in Allocable /\ freeing \in held /\ freeing \notin dirty
      /\ ring[next_free_ptr] = Erased /\ mounted
  BY DEF WriteEntry, ControlInv, TypeOK, NextFreeErased
<1>2. /\ ring' = [ring EXCEPT ![next_free_ptr] = freeing]
      /\ next_free_ptr' = Advance(next_free_ptr)
      /\ held' = held \ {freeing} /\ freed' = TRUE
      /\ pc' = "gc" /\ freeing' = NoBlock
      /\ UNCHANGED <<alloc_ptr, first_allocable, mounted, dirty>>
  BY DEF WriteEntry
<1>3. freeing # Erased /\ freeing \in Entries
  BY <1>1, Geometry DEF Erased, Allocable, Entries
<1>4. \A s \in Slots : ring'[s] = IF s = next_free_ptr THEN freeing ELSE ring[s]
  BY <1>1, <1>2
<1>5. TypeOK'
  BY <1>1, <1>2, <1>3, AdvanceInRing DEF TypeOK
<1>6. ControlInv'
  BY <1>1, <1>2, AdvanceInRing DEF ControlInv
<1>7. UniqueOwnership' /\ FreeBlocksErased'
  BY <1>1, <1>2, <1>3, <1>4 DEF UniqueOwnership, FreeBlocksErased, LiveSlots, Live
<1>8. FilledInOrder'
  <2> SUFFICES ASSUME NEW s \in Slots, ring'[s] = Erased, s + 1 \in Slots,
                      ~AtBoundary(s + 1)
               PROVE  ring'[s + 1] = Erased
    BY DEF FilledInOrder
  <2>1. ring[s] = Erased /\ ring[s + 1] = Erased
    BY <1>3, <1>4 DEF FilledInOrder
  <2>2. CASE s + 1 = next_free_ptr
    <3>1. ring[next_free_ptr - 1] # Erased
      BY <1>1, <2>2 DEF NextFreeErased
    <3>2. next_free_ptr - 1 = s
      BY <2>2, Geometry DEF Slots
    <3>3. QED
      BY <2>1, <3>1, <3>2
  <2>3. QED
    BY <1>4, <2>1, <2>2
<1>9. NextFreeErased'
  <2>1. CASE AtBoundary(next_free_ptr')
    BY <1>2, <2>1 DEF NextFreeErased
  <2>2. CASE ~AtBoundary(next_free_ptr')
    <3> DEFINE n == Advance(next_free_ptr)
    <3>1. /\ next_free_ptr' = n /\ n \in Slots /\ n = next_free_ptr + 1
          /\ n - 1 = next_free_ptr /\ n # next_free_ptr
      <4>1. n \in Slots /\ n = next_free_ptr + 1
        BY <1>1, <1>2, <2>2, AdvanceInRing
      <4> HIDE DEF n
      <4>2. n - 1 = next_free_ptr /\ n # next_free_ptr
        BY <1>1, <4>1, Geometry DEF Slots
      <4>3. QED
        BY <1>2, <4>1, <4>2 DEF n
    <3> HIDE DEF n
    <3>2. ring[next_free_ptr'] = Erased
      BY <1>1, <2>2, <3>1 DEF FilledInOrder
    <3>3. QED
      BY <1>1, <1>2, <1>3, <1>4, <3>1, <3>2 DEF NextFreeErased
  <2>3. QED
    BY <2>1, <2>2
<1>10. QED
  BY <1>5, <1>6, <1>7, <1>8, <1>9

\* A mount puts next_free_ptr at the first erased slot of the ring, which is
\* the first one of its block.
LEMMA MountRestartInv ==
    ASSUME RestartInv, Mount
    PROVE  RestartInv'
<1> USE DEF RestartInv
<1>1. /\ LiveSlots \subseteq Slots /\ ErasedSlots \subseteq Slots
      /\ LiveSlots # {} /\ ErasedSlots # {}
      /\ alloc_ptr' = Min(LiveSlots) /\ next_free_ptr' = Min(ErasedSlots)
      /\ ~mounted /\ mounted' = TRUE
      /\ UNCHANGED <<ring, first_allocable, held, dirty, pc, freeing, freed>>
  BY DEF Mount, stepVars, LiveSlots, ErasedSlots
<1>2. /\ alloc_ptr' \in Slots
      /\ next_free_ptr' \in ErasedSlots
      /\ \A t \in ErasedSlots : next_free_ptr' <= t
  BY <1>1, LeastSlot
<1>3. TypeOK'
  BY <1>1, <1>2 DEF TypeOK
<1>4. pc = "idle"
  BY <1>1 DEF ControlInv
<1>5. ControlInv'
  BY <1>1, <1>2, <1>4 DEF ControlInv
<1>6. UniqueOwnership' /\ FreeBlocksErased' /\ FilledInOrder'
  BY <1>1 DEF UniqueOwnership, FreeBlocksErased, LiveSlots, Live, FilledInOrder
<1>7. NextFreeErased'
  <2>1. ring[next_free_ptr'] = Erased /\ next_free_ptr' \in Slots
    BY <1>2 DEF ErasedSlots
  <2>2. ASSUME ~AtBoundary(next_free_ptr') PROVE ring[next_free_ptr' - 1] # Erased
    <3>1. next_free_ptr' # 0
      BY <2>2, Geometry DEF AtBoundary
    <3>2. \A n \in Slots : n # 0 => n - 1 \in Slots /\ ~(n <= n - 1)
      BY Geometry DEF Slots
    <3>3. next_free_ptr' - 1 \in Slots /\ ~(next_free_ptr' <= next_free_ptr' - 1)
      BY <2>1, <3>1, <3>2
    <3>4. QED
      BY <1>2, <3>3 DEF ErasedSlots
  <2>3. QED
    BY <1>1, <1>4, <2>1, <2>2 DEF NextFreeErased
<1>8. QED
  BY <1>3, <1>5, <1>6, <1>7

\* A step that leaves the ring and the positions alone, whoever takes it,
\* disturbs neither the order of the slots nor the owners of free blocks.
LEMMA RingUnchanged ==
    ASSUME RestartInv, UNCHANGED <<ring, next_free_ptr>>,
           held' \subseteq held, \A s \in LiveSlots : ring[s] \notin dirty'
    PROVE  /\ UniqueOwnership' /\ FreeBlocksErased' /\ FilledInOrder'
           /\ (mounted' => mounted) /\ (pc' \in {"erase", "write"} => pc \in {"erase", "write"})
                  => NextFreeErased'
BY DEF RestartInv, UniqueOwnership, FreeBlocksErased, FilledInOrder, NextFreeErased,
       LiveSlots, Live

\* The steps of a running call that touch neither the ring nor the positions.
LEMMA ControlStepRestartInv ==
    ASSUME RestartInv,
           \/ StartGc \/ GcReturns \/ AllocateFails \/ EraseFreed \/ FreeFails
           \/ \E b \in Allocable : FreeRefused(b) \/ Program(b)
    PROVE  RestartInv'
<1> USE DEF RestartInv
<1>1. \A s \in LiveSlots : ring[s] \notin dirty /\ ring[s] \notin held
  BY DEF FreeBlocksErased, UniqueOwnership
<1>2. /\ UNCHANGED <<ring, alloc_ptr, next_free_ptr, first_allocable, mounted>>
      /\ held' \subseteq held
      /\ dirty' \subseteq dirty \cup held
      /\ dirty' \subseteq Allocable
  BY DEF StartGc, GcReturns, AllocateFails, EraseFreed, FreeFails, FreeRefused,
         Program, ringVars, stepVars, TypeOK
<1>3. pc' \in {"erase", "write"} => pc \in {"erase", "write"}
  BY DEF StartGc, GcReturns, AllocateFails, EraseFreed, FreeFails, FreeRefused,
         Program, stepVars
<1>4. pc' \in {"idle", "gc", "erase", "write", "take"} /\ (pc' # "idle" => mounted)
  BY DEF StartGc, GcReturns, AllocateFails, EraseFreed, FreeFails, FreeRefused,
         Program, stepVars, TypeOK, ControlInv
<1>5. freeing' \in Allocable \cup {NoBlock} /\ freed' \in BOOLEAN
  BY DEF StartGc, GcReturns, AllocateFails, EraseFreed, FreeFails, FreeRefused,
         Program, stepVars, TypeOK
<1>6. /\ pc' \in {"erase", "write"} => freeing' \in held' /\ freeing' \in Allocable
      /\ pc' = "write" => freeing' \notin dirty'
  BY DEF StartGc, GcReturns, AllocateFails, EraseFreed, FreeFails, FreeRefused,
         Program, stepVars, ControlInv
<1>7. TypeOK'
  BY <1>2, <1>4, <1>5 DEF TypeOK
<1>8. ControlInv'
  BY <1>2, <1>4, <1>6 DEF ControlInv
<1>9. UniqueOwnership' /\ FreeBlocksErased' /\ FilledInOrder' /\ NextFreeErased'
  BY <1>1, <1>2, <1>3, RingUnchanged
<1>10. QED
  BY <1>7, <1>8, <1>9

\* Power losses, unmounting, and mounts that fail.
LEMMA StopRestartInv ==
    ASSUME RestartInv, PowerLoss \/ Unmount \/ MountFails
    PROVE  RestartInv'
<1> USE DEF RestartInv
<1>1. /\ UNCHANGED <<ring, dirty>> /\ held' \subseteq held /\ mounted' = FALSE
      /\ pc' = "idle"
      /\ freeing' \in Allocable \cup {NoBlock}
      /\ first_allocable' \in {0, FirstAllocable}
  BY DEF PowerLoss, Unmount, MountFails, ringVars, stepVars, TypeOK, ControlInv
<1>2. freed' \in BOOLEAN
  BY DEF PowerLoss, Unmount, MountFails, stepVars, TypeOK
<1>3. alloc_ptr' \in Slots \cup {NoSlot} /\ next_free_ptr' \in Slots \cup {NoSlot}
  <2>1. CASE PowerLoss
    BY <2>1 DEF PowerLoss
  <2>2. CASE Unmount
    BY <2>2 DEF Unmount, ringVars, TypeOK
  <2>3. CASE MountFails
    <3>1. LiveSlots \subseteq Slots /\ ErasedSlots \subseteq Slots
      BY DEF LiveSlots, ErasedSlots
    <3>2. QED
      BY <2>3, <3>1, LeastSlot DEF MountFails
  <2>4. QED
    BY <2>1, <2>2, <2>3
<1>4. TypeOK'
  BY <1>1, <1>2, <1>3 DEF TypeOK
<1>5. ControlInv'
  BY <1>1 DEF ControlInv
<1>6. UniqueOwnership' /\ FreeBlocksErased' /\ FilledInOrder' /\ NextFreeErased'
  BY <1>1 DEF UniqueOwnership, FreeBlocksErased, FilledInOrder, NextFreeErased,
              LiveSlots, Live
<1>7. QED
  BY <1>4, <1>5, <1>6

LEMMA FormatRestartInv ==
    ASSUME RestartInv, Format
    PROVE  RestartInv'
<1> USE DEF RestartInv
<1>1. /\ ring' = FormattedRing /\ alloc_ptr' = 1
      /\ next_free_ptr' = NumBlocks - FirstAllocable
      /\ first_allocable' = FirstAllocable
      /\ held' = {FirstAllocable} /\ dirty' = {FirstAllocable}
      /\ mounted' = FALSE /\ pc' = "idle"
      /\ UNCHANGED <<freeing, freed>>
  BY DEF Format, Formatted, stepVars, ControlInv, TypeOK
<1>2. FirstAllocable \in Allocable
  BY Geometry DEF Allocable
<1>3. TypeOK'
  BY <1>1, <1>2, FormattedRingShape DEF TypeOK
<1>4. ControlInv'
  BY <1>1 DEF ControlInv
<1>5. UniqueOwnership' /\ FreeBlocksErased'
  BY <1>1, FormattedRingShape DEF UniqueOwnership, FreeBlocksErased, LiveSlots, Live
<1>6. FilledInOrder'
  BY <1>1, FormattedRingShape, Geometry DEF FilledInOrder, Slots
<1>7. NextFreeErased'
  BY <1>1 DEF NextFreeErased
<1>8. QED
  BY <1>3, <1>4, <1>5, <1>6, <1>7

LEMMA StepRestartInv == RestartInv /\ [RestartNext]_vars => RestartInv'
<1> SUFFICES ASSUME RestartInv, [RestartNext]_vars
             PROVE  RestartInv'
  OBVIOUS
<1>1. CASE AllocateBlock
  BY <1>1, TakeEntryRestartInv DEF AllocateBlock, stepVars
<1>2. CASE AllocateAfterGc
  BY <1>2, TakeEntryRestartInv DEF AllocateAfterGc, RestartInv, ControlInv
<1>3. CASE StartGc \/ GcReturns \/ AllocateFails \/ EraseFreed \/ FreeFails
  BY <1>3, ControlStepRestartInv
<1>4. ASSUME NEW b \in Allocable, FreeBlock(b) PROVE RestartInv'
  BY <1>4, FreeBlockRestartInv
<1>5. ASSUME NEW b \in Allocable, FreeRefused(b) \/ Program(b) PROVE RestartInv'
  BY <1>5, ControlStepRestartInv
<1>6. CASE WriteEntry
  BY <1>6, WriteEntryRestartInv
<1>7. CASE PowerLoss \/ Unmount \/ MountFails
  BY <1>7, StopRestartInv
<1>8. CASE Mount
  BY <1>8, MountRestartInv
<1>9. CASE Format
  BY <1>9, FormatRestartInv
<1>10. CASE UNCHANGED vars
  BY <1>10 DEF vars, RestartInv, TypeOK, ControlInv, UniqueOwnership, FreeBlocksErased,
               FilledInOrder, NextFreeErased, LiveSlots, Live
<1>11. QED
  BY <1>1, <1>2, <1>3, <1>4, <1>5, <1>6, <1>7, <1>8, <1>9, <1>10 DEF RestartNext, Next

\* For every geometry, through every power loss, mount and format, whether or
\* not flash operations fail: RestartInv.
THEOREM RestartInvariance == RestartSpec => []RestartInv
<1>1. Init => RestartInv
  BY InitRestartInv
<1>2. RestartInv /\ [RestartNext]_vars => RestartInv'
  BY StepRestartInv
<1>3. QED
  BY <1>1, <1>2, PTL DEF RestartSpec

\* The variables of R2F2Alloc keep their types, through power losses, failing flash
\* operations and mounts that misplace the positions (r2f2_alloc.c:86-149): every slot
\* holds an entry, and the positions are slots or not set.
THEOREM AllocatorType == RestartSpec => []TypeOK
<1>1. RestartInv => TypeOK
  BY DEF RestartInv
<1>2. QED
  BY <1>1, RestartInvariance, PTL

\* No block is ever both free and in use or free twice (free_block and
\* allocate_block, with a power loss at any point of them).
THEOREM OwnershipIsUnique == RestartSpec => []UniqueOwnership
<1>1. RestartInv => UniqueOwnership
  BY DEF RestartInv
<1>2. QED
  BY <1>1, RestartInvariance, PTL

\* A block that is handed out is erased: free_block erased it before its entry
\* was written, and nobody programmed it since.
THEOREM FreeBlocksAreErased == RestartSpec => []FreeBlocksErased
<1>1. RestartInv => FreeBlocksErased
  BY DEF RestartInv
<1>2. QED
  BY <1>1, RestartInvariance, PTL

\* Every step is one that the life of a slot allows.
LEMMA SlotStepAllowed ==
    ASSUME RestartInv, [RestartNext]_vars
    PROVE  SlotStep
<1> USE DEF RestartInv
<1>1. \A s \in Slots : ring[s] \in Entries
  BY DEF TypeOK
<1>2. UNCHANGED ring => SlotStep
  BY DEF SlotStep
<1>3. CASE AllocateBlock \/ AllocateAfterGc
  <2>1. /\ alloc_ptr \in Slots /\ ring \in [Slots -> Entries]
        /\ ring' = [ring EXCEPT ![alloc_ptr] = Consumed]
        /\ ring[alloc_ptr] \in Allocable \cup {Consumed}
    BY <1>1, <1>3, Geometry
       DEF AllocateBlock, AllocateAfterGc, TakeEntry, ControlInv, TypeOK, Entries, Erased
  <2>2. QED
    BY <2>1 DEF SlotStep, Live
<1>4. ASSUME NEW b \in Allocable, FreeBlock(b) PROVE SlotStep
  <2>1. CASE UNCHANGED ring
    BY <1>2, <2>1
  <2>2. CASE /\ AtBoundary(next_free_ptr) /\ AllConsumed(next_free_ptr)
             /\ ring' = [s \in Slots |-> IF s \in BlockFrom(next_free_ptr)
                                         THEN Erased ELSE ring[s]]
    <3>1. next_free_ptr \in Nat
      BY <1>4, Geometry DEF FreeBlock, ControlInv, Slots
    <3>2. \A s \in BlockFrom(next_free_ptr) : BlockStart(s) = next_free_ptr
      BY <2>2, <3>1, InBlock
    <3>3. QED
      BY <2>2, <3>2 DEF SlotStep
  <2>3. QED
    BY <1>4, <2>1, <2>2 DEF FreeBlock
<1>5. CASE WriteEntry
  <2>1. /\ next_free_ptr \in Slots /\ ring \in [Slots -> Entries]
        /\ ring' = [ring EXCEPT ![next_free_ptr] = freeing]
        /\ ring[next_free_ptr] = Erased /\ freeing \in Allocable
    BY <1>5 DEF WriteEntry, ControlInv, NextFreeErased, TypeOK
  <2>2. QED
    BY <2>1 DEF SlotStep
<1>6. CASE \/ StartGc \/ GcReturns \/ AllocateFails \/ EraseFreed \/ FreeFails
           \/ \E b \in Allocable : FreeRefused(b) \/ Program(b)
           \/ PowerLoss \/ Unmount \/ Mount \/ MountFails
  BY <1>2, <1>6 DEF StartGc, GcReturns, AllocateFails, EraseFreed, FreeFails,
     FreeRefused, Program, PowerLoss, Unmount, Mount, MountFails, ringVars
<1>7. CASE Format
  BY <1>7 DEF SlotStep
<1>8. QED
  BY <1>2, <1>3, <1>4, <1>5, <1>6, <1>7 DEF RestartNext, Next, vars

\* No free entry is overwritten or erased, and no slot is programmed that was
\* not erased: the steps of allocate_block, free_block, and every restart.
THEOREM SlotsFollowLifeCycle == RestartSpec => SlotLifeCycle
<1>1. RestartInv /\ [RestartNext]_vars => [SlotStep]_vars
  BY SlotStepAllowed
<1>2. QED
  BY <1>1, RestartInvariance, PTL DEF RestartSpec, SlotLifeCycle

-----------------------------------------------------------------------------
(***************************************************************************)
(* The file system stays mounted: the span between the two positions.      *)
(***************************************************************************)

\* The number of slots from a up to n, going round the ring; NumFree is the one
\* between the two positions.
Distance(a, n) == IF a <= n THEN n - a ELSE Capacity - a + n

\* Programming the slot at the end of a span that leaves room for more than
\* one slot makes it longer by that slot.
LEMMA SpanGrows ==
    ASSUME NEW a \in Slots, NEW n \in Slots, Distance(a, n) + 1 < Capacity
    PROVE  /\ Distance(a, Advance(n)) = Distance(a, n) + 1
           /\ \A s \in Slots : InSpan(s, a, Advance(n)) <=> InSpan(s, a, n) \/ s = n
<1>1. /\ a \in Int /\ n \in Int /\ 0 <= a /\ 0 <= n /\ a < Capacity /\ n < Capacity
      /\ Capacity \in Int
  BY Geometry DEF Slots
<1>2. QED
  BY <1>1 DEF Distance, Advance, InSpan, Slots

\* Consuming the slot at the start of a non-empty span makes it shorter by that
\* slot.
LEMMA SpanShrinks ==
    ASSUME NEW a \in Slots, NEW n \in Slots, a # n
    PROVE  /\ Distance(Advance(a), n) = Distance(a, n) - 1
           /\ \A s \in Slots : InSpan(s, Advance(a), n) <=> InSpan(s, a, n) /\ s # a
<1>1. /\ a \in Int /\ n \in Int /\ 0 <= a /\ 0 <= n /\ a < Capacity /\ n < Capacity
      /\ Capacity \in Int
  BY Geometry DEF Slots
<1>2. QED
  BY <1>1 DEF Distance, Advance, InSpan, Slots

\* A span that leaves an allocator block's worth of slots free does not reach
\* into the block that starts where it ends.
LEMMA SpanMissesNextBlock ==
    ASSUME NEW a \in Slots, NEW n \in Slots, Distance(a, n) + EntriesPerBlock <= Capacity,
           NEW s \in BlockFrom(n)
    PROVE  ~InSpan(s, a, n)
BY Geometry DEF Slots, Distance, InSpan, BlockFrom

\* Every slot lies in the block that starts at its BlockStart.
LEMMA BlockStartIsBoundary ==
    ASSUME NEW s \in Slots
    PROVE  /\ BlockStart(s) \in Slots /\ AtBoundary(BlockStart(s))
           /\ s \in BlockFrom(BlockStart(s))
<1> DEFINE q == s \div EntriesPerBlock
           r == s % EntriesPerBlock
<1>1. s \in Nat /\ s < Capacity
  BY Geometry DEF Slots
<1>2. q \in Nat /\ r \in 0 .. EntriesPerBlock - 1 /\ s = EntriesPerBlock * q + r
  BY <1>1, DivMod
<1>3. BlockStart(s) = s - r
  BY DEF BlockStart
<1> HIDE DEF q, r
<1>4. BlockStart(s) = EntriesPerBlock * q + 0 /\ 0 \in 0 .. EntriesPerBlock - 1
  BY <1>2, <1>3, Geometry
<1>5. AtBoundary(BlockStart(s))
  BY <1>2, <1>4, ModUnique DEF AtBoundary
<1>6. QED
  BY <1>1, <1>2, <1>3, <1>5, Geometry DEF BlockFrom, Slots

\* Numbers of blocks held: finite, one more at most when one is handed out, and
\* one less when one is given back.
LEMMA HeldCounts ==
    ASSUME TypeOK
    PROVE  /\ IsFiniteSet(held) /\ Cardinality(held) \in Nat
           /\ \A b : /\ Cardinality(held \cup {b}) <= Cardinality(held) + 1
                     /\ Cardinality(held \cup {b}) \in Nat
                     /\ b \in held => Cardinality(held \ {b}) = Cardinality(held) - 1
<1>1. IsFiniteSet(0 .. NumBlocks - 1)
  BY FS_Interval, Geometry
<1>2. held \subseteq 0 .. NumBlocks - 1
  BY Geometry DEF TypeOK, Allocable
<1>3. IsFiniteSet(held)
  BY <1>1, <1>2, FS_Subset
<1>4. Cardinality(held) \in Nat
  BY <1>3, FS_CardinalityType
<1>5. ASSUME NEW b
      PROVE  /\ Cardinality(held \cup {b}) <= Cardinality(held) + 1
             /\ Cardinality(held \cup {b}) \in Nat
             /\ b \in held => Cardinality(held \ {b}) = Cardinality(held) - 1
  <2>1. CASE b \in held
    <3>1. held \cup {b} = held
      BY <2>1
    <3>2. Cardinality(held \ {b}) = Cardinality(held) - 1
      BY <1>3, <2>1, FS_RemoveElement
    <3>3. QED
      BY <1>4, <3>1, <3>2
  <2>2. CASE b \notin held
    <3>1. Cardinality(held \cup {b}) = Cardinality(held) + 1
      BY <1>3, <2>2, FS_AddElement
    <3>2. QED
      BY <1>4, <2>2, <3>1
  <2>3. QED
    BY <2>1, <2>2
<1>6. QED
  BY <1>3, <1>4, <1>5

\* What MountedInv says of the positions, in the form the steps use.
LEMMA MountedFacts ==
    ASSUME MountedInv
    PROVE  /\ alloc_ptr \in Slots /\ next_free_ptr \in Slots
           /\ ring \in [Slots -> Entries]
           /\ NumFree = Distance(alloc_ptr, next_free_ptr) /\ NumFree \in Nat
           /\ NumFree + EntriesPerBlock <= Capacity
           /\ \A s \in Slots : Live(s) <=> InSpan(s, alloc_ptr, next_free_ptr)
           /\ \A s \in Slots : ring[s] \in Entries
<1>1. /\ alloc_ptr \in Slots /\ next_free_ptr \in Slots /\ ring \in [Slots -> Entries]
      /\ \A s \in Slots : Live(s) <=> InSpan(s, alloc_ptr, next_free_ptr)
  BY DEF MountedInv, RestartInv, ControlInv, TypeOK, PointersBracketFreeEntries
<1>2. NumFree = Distance(alloc_ptr, next_free_ptr)
  BY DEF NumFree, Distance
<1>3. NumFree \in Nat
  BY <1>1, Geometry DEF NumFree, Slots
<1>4. Cardinality(held) \in Nat
  BY HeldCounts DEF MountedInv, RestartInv
<1>5. NumFree + EntriesPerBlock <= Capacity
  BY <1>3, <1>4, Geometry DEF MountedInv, RoomInRing
<1>6. QED
  BY <1>1, <1>2, <1>3, <1>5

\* The allocator block that next_free_ptr enters is all erased, when none of
\* the ring's slots was used twice yet, or all used up.
LEMMA NextBlockEmpty ==
    ASSUME MountedInv, AtBoundary(next_free_ptr)
    PROVE  \/ AllErased(next_free_ptr)
           \/ AllConsumed(next_free_ptr) /\ ErasedSlots = {}
<1>1. /\ next_free_ptr \in Slots /\ next_free_ptr \in Nat
      /\ next_free_ptr + EntriesPerBlock <= Capacity
      /\ BlockFrom(next_free_ptr) \subseteq Slots
  BY MountedFacts, BlockFits, Geometry DEF Slots
<1>2. BlockStart(next_free_ptr) = next_free_ptr
  BY <1>1, InBlock, Geometry DEF BlockFrom
<1>3. CASE ErasedSlots = {}
  <2>1. \A s \in BlockFrom(next_free_ptr) : ~Live(s)
    BY <1>1, MountedFacts, SpanMissesNextBlock
  <2>2. \A s \in BlockFrom(next_free_ptr) : ring[s] = Consumed
    BY <1>1, <1>3, <2>1, MountedFacts DEF Live, Entries, ErasedSlots
  <2>3. QED
    BY <1>3, <2>2 DEF AllConsumed
<1>4. CASE BlockFrom(next_free_ptr) \subseteq ErasedSlots
  BY <1>4 DEF AllErased, ErasedSlots
<1>5. BlockFrom(next_free_ptr) \subseteq next_free_ptr .. Capacity - 1
  BY <1>1, Geometry DEF BlockFrom
<1>6. QED
  BY <1>2, <1>3, <1>4, <1>5 DEF MountedInv, FirstLap, LaterLap, BlockFrom

LEMMA InitMountedInv == Init => MountedInv
<1> SUFFICES ASSUME Init PROVE MountedInv
  OBVIOUS
<1> USE DEF Init, Formatted
<1>1. RestartInv
  BY InitRestartInv
<1>2. \A s \in Slots : ring[s] \in Allocable <=> 1 <= s /\ s < NumBlocks - FirstAllocable
  BY Geometry DEF FormattedRing, Slots, Allocable, Consumed, Erased
<1>3. PointersBracketFreeEntries
  BY <1>2, Geometry DEF PointersBracketFreeEntries, Live, InSpan
<1>4. RoomInRing
  <2>1. Cardinality(held) = 1
    BY FS_Singleton
  <2>2. NumFree = NumBlocks - FirstAllocable - 1
    BY Geometry DEF NumFree
  <2>3. QED
    BY <2>1, <2>2, Geometry DEF RoomInRing
<1>5. FirstLap
  <2>1. ErasedSlots = next_free_ptr .. Capacity - 1
    BY FormattedRingShape, Geometry DEF ErasedSlots, Slots
  <2>2. QED
    BY <2>1, Geometry DEF FirstLap
<1>6. NoBlockLost
  <2> SUFFICES ASSUME NEW b \in Allocable, b \notin held
               PROVE  b \in FreeBlocks
    BY DEF NoBlockLost
  <2> DEFINE s == b - FirstAllocable
  <2>1. s \in Slots /\ s \in Int /\ 1 <= s /\ s < NumBlocks - FirstAllocable
        /\ FirstAllocable + s = b
    BY Geometry DEF Allocable, Slots
  <2>2. ring[s] = FirstAllocable + s
    BY <2>1 DEF FormattedRing
  <2> HIDE DEF s
  <2>3. s \in LiveSlots /\ ring[s] = b
    BY <2>1, <2>2 DEF LiveSlots, Live
  <2>4. QED
    BY <2>3 DEF FreeBlocks
<1>7. QED
  BY <1>1, <1>3, <1>4, <1>5, <1>6 DEF MountedInv, FreedEntryWritten

\* Handing out an entry: the positions are not equal, for the slot where they
\* meet holds no free block.
LEMMA TakeEntryMountedInv ==
    ASSUME MountedInv, RestartInv', TakeEntry, pc' = "idle"
    PROVE  MountedInv'
<1> DEFINE b == ring[alloc_ptr]
<1>1. /\ alloc_ptr \in Slots /\ next_free_ptr \in Slots
      /\ ring \in [Slots -> Entries] /\ b \in Entries
  BY MountedFacts
<1>2. /\ ring' = [ring EXCEPT ![alloc_ptr] = Consumed]
      /\ held' = held \cup {b} /\ alloc_ptr' = Advance(alloc_ptr)
      /\ first_allocable <= b /\ b < NumBlocks
      /\ UNCHANGED <<next_free_ptr, first_allocable, mounted, dirty>>
  BY DEF TakeEntry
<1>3. b \in Allocable /\ Live(alloc_ptr)
  BY <1>1, <1>2, Geometry DEF MountedInv, Entries, Consumed, Erased, Live
<1>4. alloc_ptr # next_free_ptr
  BY <1>1, <1>3, MountedFacts, Geometry DEF InSpan, Slots
<1> HIDE DEF b
<1>5. Consumed \notin Allocable /\ Consumed # Erased /\ Erased \notin Allocable
  BY Geometry DEF Consumed, Erased, Allocable
<1>6. \A s \in Slots : ring'[s] = IF s = alloc_ptr THEN Consumed ELSE ring[s]
  BY <1>1, <1>2
<1>7. PointersBracketFreeEntries'
  BY <1>1, <1>2, <1>4, <1>5, <1>6, MountedFacts, SpanShrinks
     DEF PointersBracketFreeEntries, Live
<1>8. RoomInRing'
  <2>1. NumFree' = NumFree - 1
    BY <1>1, <1>2, <1>4, SpanShrinks DEF NumFree, Distance
  <2>2. Cardinality(held') <= Cardinality(held) + 1 /\ Cardinality(held') \in Nat
        /\ Cardinality(held) \in Nat
    BY <1>2, HeldCounts DEF MountedInv, RestartInv
  <2>3. QED
    BY <2>1, <2>2, MountedFacts, Geometry DEF MountedInv, RoomInRing
<1>9. ErasedSlots' = ErasedSlots
  BY <1>3, <1>5, <1>6 DEF ErasedSlots, Live
<1>10. FirstLap' \/ LaterLap'
  <2>1. CASE FirstLap
    <3>1. alloc_ptr' <= next_free_ptr
      BY <1>1, <1>2, <1>4, <2>1, Geometry DEF FirstLap, Advance, Slots
    <3>2. QED
      BY <1>2, <1>9, <2>1, <3>1 DEF FirstLap
  <2>2. CASE LaterLap
    BY <1>2, <1>9, <2>2 DEF LaterLap
  <2>3. QED
    BY <2>1, <2>2 DEF MountedInv
<1>11. NoBlockLost'
  <2> SUFFICES ASSUME ~FlashFails, NEW a \in Allocable, a \notin held'
               PROVE  a \in FreeBlocks'
    BY DEF NoBlockLost
  <2>1. PICK s \in LiveSlots : ring[s] = a
    BY <1>2 DEF MountedInv, NoBlockLost, FreeBlocks
  <2>2. s \in LiveSlots' /\ ring'[s] = a
    BY <1>2, <1>6, <2>1 DEF LiveSlots, Live, b
  <2>3. QED
    BY <2>2 DEF FreeBlocks
<1>12. QED
  BY <1>2, <1>7, <1>8, <1>10, <1>11 DEF MountedInv, FreedEntryWritten

\* free_block enters an allocator block that is erased, or erases one that is
\* all used up: no free entry is lost, and the erased slots are that block.
LEMMA FreeBlockMountedInv ==
    ASSUME MountedInv, RestartInv', NEW b \in Allocable, FreeBlock(b)
    PROVE  MountedInv'
<1>1. /\ next_free_ptr \in Slots /\ ring \in [Slots -> Entries]
      /\ next_free_ptr \in BlockFrom(next_free_ptr)
  BY MountedFacts, Geometry DEF BlockFrom, Slots
<1>2. /\ pc = "gc" /\ pc' = "erase"
      /\ UNCHANGED <<alloc_ptr, next_free_ptr, first_allocable, mounted, held,
                     dirty, freed>>
  BY DEF FreeBlock
<1>3. Consumed # Erased /\ Consumed \notin Allocable /\ Erased \notin Allocable
  BY Geometry DEF Consumed, Erased, Allocable
<1>4. CASE UNCHANGED ring
  BY <1>2, <1>4 DEF MountedInv, PointersBracketFreeEntries, Live, RoomInRing, NumFree,
     FirstLap, LaterLap, ErasedSlots, FreedEntryWritten, NoBlockLost, FreeBlocks, LiveSlots
<1>5. CASE /\ AtBoundary(next_free_ptr) /\ AllConsumed(next_free_ptr)
           /\ ring' = [s \in Slots |-> IF s \in BlockFrom(next_free_ptr)
                                       THEN Erased ELSE ring[s]]
  <2>1. ErasedSlots = {}
    BY <1>1, <1>3, <1>5, NextBlockEmpty DEF AllErased, AllConsumed
  <2>2. \A s \in Slots : ring'[s] = IF s \in BlockFrom(next_free_ptr) THEN Erased ELSE ring[s]
    BY <1>5
  <2>3. \A s \in Slots : Live(s)' <=> Live(s)
    BY <1>3, <1>5, <2>2 DEF Live, AllConsumed
  <2>4. LiveSlots' = LiveSlots /\ \A s \in LiveSlots : ring'[s] = ring[s]
    BY <1>3, <1>5, <2>2, <2>3 DEF LiveSlots, Live, AllConsumed
  <2>5. PointersBracketFreeEntries'
    BY <1>2, <2>3 DEF MountedInv, PointersBracketFreeEntries
  <2>6. NoBlockLost'
    BY <1>2, <2>4 DEF MountedInv, NoBlockLost, FreeBlocks
  <2>7. BlockFrom(next_free_ptr) \subseteq Slots
    BY <1>1, <1>5, BlockFits
  <2>8. ErasedSlots' = BlockFrom(next_free_ptr)
    BY <2>1, <2>2, <2>7 DEF ErasedSlots
  <2>9. BlockStart(next_free_ptr) = next_free_ptr
    BY <1>1, <1>5, InBlock, Geometry DEF Slots
  <2>10. LaterLap'
    BY <1>2, <2>8, <2>9 DEF LaterLap, BlockFrom, BlockStart
  <2>11. QED
    BY <1>2, <2>5, <2>6, <2>10 DEF MountedInv, RoomInRing, NumFree, FreedEntryWritten
<1>6. QED
  BY <1>4, <1>5 DEF FreeBlock

\* The erased slots of the ring once the slot at next_free_ptr is programmed:
\* the rest of its block, or none when it was the last one.
LEMMA ErasedAfterWrite ==
    ASSUME MountedInv, ring[next_free_ptr] = Erased, Distance(alloc_ptr, next_free_ptr) + 1 < Capacity
    PROVE  LET n == Advance(next_free_ptr)
               rest == ErasedSlots \ {next_free_ptr}
           IN  \/ alloc_ptr <= n /\ rest = n .. Capacity - 1
               \/ rest = n .. BlockStart(n) + EntriesPerBlock - 1
               \/ rest = {} /\ AtBoundary(n)
<1> DEFINE n == Advance(next_free_ptr)
           p == BlockStart(next_free_ptr)
<1>1. /\ next_free_ptr \in Slots /\ alloc_ptr \in Slots
      /\ next_free_ptr \in Nat /\ next_free_ptr < Capacity
      /\ next_free_ptr \in ErasedSlots
  BY MountedFacts, Geometry DEF Slots, ErasedSlots
<1>2. AtBoundary(0)
  BY Geometry DEF AtBoundary
<1>3. CASE FirstLap
  <2>1. CASE next_free_ptr + 1 = Capacity
    BY <1>1, <1>2, <1>3, <2>1, Geometry DEF FirstLap, Advance
  <2>2. CASE next_free_ptr + 1 # Capacity
    BY <1>1, <1>3, <2>2, Geometry DEF FirstLap, Advance, Slots
  <2>3. QED
    BY <2>1, <2>2
<1>4. CASE LaterLap
  <2>1. /\ p \in Slots /\ AtBoundary(p) /\ next_free_ptr \in BlockFrom(p)
        /\ p \in Nat /\ p + EntriesPerBlock <= Capacity
    BY <1>1, BlockStartIsBoundary, BlockFits, Geometry DEF Slots
  <2>2. ErasedSlots = next_free_ptr .. p + EntriesPerBlock - 1
    BY <1>1, <1>4 DEF LaterLap
  <2> HIDE DEF p
  <2>3. next_free_ptr < p + EntriesPerBlock
    BY <2>1, Geometry DEF BlockFrom
  <2>4. CASE next_free_ptr + 1 = p + EntriesPerBlock
    <3>1. AtBoundary(next_free_ptr + 1)
      BY <2>1, <2>4, InBlock
    <3>2. AtBoundary(n)
      BY <1>2, <3>1 DEF Advance
    <3>3. ErasedSlots \ {next_free_ptr} = {}
      BY <1>1, <2>1, <2>2, <2>4, Geometry
    <3>4. QED
      BY <3>2, <3>3
  <2>5. CASE next_free_ptr + 1 # p + EntriesPerBlock
    <3>1. n = next_free_ptr + 1
      BY <1>1, <2>1, <2>3, <2>5, Geometry DEF Advance
    <3>2. n \in BlockFrom(p)
      BY <1>1, <2>1, <2>3, <2>5, <3>1, Geometry DEF BlockFrom
    <3>3. BlockStart(n) = p
      BY <2>1, <3>2, InBlock
    <3>4. ErasedSlots \ {next_free_ptr} = n .. p + EntriesPerBlock - 1
      BY <1>1, <2>1, <2>2, <2>3, <3>1, Geometry
    <3>5. QED
      BY <3>3, <3>4
  <2>6. QED
    BY <2>4, <2>5
<1>5. QED
  BY <1>3, <1>4 DEF MountedInv

\* The freed block moves from the held ones to the end of the span.
LEMMA WriteEntryMountedInv ==
    ASSUME MountedInv, RestartInv', WriteEntry
    PROVE  MountedInv'
<1>1. /\ next_free_ptr \in Slots /\ alloc_ptr \in Slots /\ ring \in [Slots -> Entries]
      /\ ring[next_free_ptr] = Erased
      /\ freeing \in Allocable /\ freeing \in held
  BY MountedFacts DEF MountedInv, RestartInv, NextFreeErased, ControlInv, WriteEntry
<1>2. /\ ring' = [ring EXCEPT ![next_free_ptr] = freeing]
      /\ next_free_ptr' = Advance(next_free_ptr)
      /\ held' = held \ {freeing} /\ pc' = "gc"
      /\ UNCHANGED <<alloc_ptr, first_allocable, mounted, dirty>>
  BY DEF WriteEntry
<1>3. freeing # Erased /\ Erased \notin Allocable
  BY <1>1, Geometry DEF Allocable, Erased
<1>4. \A s \in Slots : ring'[s] = IF s = next_free_ptr THEN freeing ELSE ring[s]
  BY <1>1, <1>2
<1>5. /\ Cardinality(held') = Cardinality(held) - 1
      /\ Cardinality(held) \in Nat /\ Cardinality(held') \in Nat
  <2>1. Cardinality(held') = Cardinality(held) - 1 /\ Cardinality(held) \in Nat
    BY <1>1, <1>2, HeldCounts DEF MountedInv, RestartInv
  <2>2. Cardinality(held') \in Nat
    <3>1. IsFiniteSet(held)
      BY HeldCounts DEF MountedInv, RestartInv
    <3>2. IsFiniteSet(held')
      BY <1>2, <3>1, FS_RemoveElement
    <3>3. QED
      BY <3>2, FS_CardinalityType
  <2>3. QED
    BY <2>1, <2>2
<1>6. Distance(alloc_ptr, next_free_ptr) + 1 < Capacity
  BY <1>5, MountedFacts, Geometry DEF MountedInv, RoomInRing
<1>7. PointersBracketFreeEntries'
  BY <1>1, <1>2, <1>4, <1>6, MountedFacts, SpanGrows DEF PointersBracketFreeEntries, Live
<1>8. NumFree' = NumFree + 1 /\ NumFree \in Nat
  BY <1>1, <1>2, <1>6, MountedFacts, SpanGrows DEF NumFree, Distance
<1>9. RoomInRing'
  BY <1>5, <1>8, Geometry DEF MountedInv, RoomInRing
<1>10. FirstLap' \/ LaterLap'
  <2>1. ErasedSlots' = ErasedSlots \ {next_free_ptr}
    BY <1>1, <1>3, <1>4 DEF ErasedSlots
  <2>2. QED
    BY <1>1, <1>2, <1>6, <2>1, ErasedAfterWrite DEF FirstLap, LaterLap, BlockStart
<1>11. alloc_ptr' # next_free_ptr'
  BY <1>1, <1>2, <1>4, <1>7, Geometry
     DEF PointersBracketFreeEntries, Live, InSpan, MountedInv, Slots
<1>12. NoBlockLost'
  <2> SUFFICES ASSUME ~FlashFails, NEW a \in Allocable, a \notin held'
               PROVE  a \in FreeBlocks'
    BY DEF NoBlockLost
  <2>1. CASE a = freeing
    BY <1>1, <1>4, <2>1 DEF FreeBlocks, LiveSlots, Live
  <2>2. CASE a # freeing
    <3>1. PICK s \in LiveSlots : ring[s] = a
      BY <1>2, <2>2 DEF MountedInv, NoBlockLost, FreeBlocks
    <3>2. s \in LiveSlots' /\ ring'[s] = a
      BY <1>1, <1>3, <1>4, <3>1 DEF LiveSlots, Live
    <3>3. QED
      BY <3>2 DEF FreeBlocks
  <2>3. QED
    BY <2>1, <2>2
<1>13. QED
  BY <1>2, <1>7, <1>9, <1>10, <1>11, <1>12 DEF MountedInv, FreedEntryWritten

\* Steps that leave the ring and the positions alone.
LEMMA ControlStepMountedInv ==
    ASSUME MountedInv, RestartInv',
           \/ StartGc \/ GcReturns \/ AllocateFails \/ EraseFreed \/ FreeFails
           \/ \E b \in Allocable : FreeRefused(b) \/ Program(b)
    PROVE  MountedInv'
<1>1. /\ UNCHANGED <<ring, alloc_ptr, next_free_ptr, first_allocable, mounted>>
      /\ \/ held' = held
         \/ FlashFails /\ \E b \in held : held' = held \ {b}
  <2>1. CASE \E b \in Allocable : FreeRefused(b)
    <3>1. PICK b \in Allocable : FreeRefused(b)
      BY <2>1
    <3>2. FlashFails
      BY <3>1, NextBlockEmpty DEF FreeRefused
    <3>3. QED
      BY <3>1, <3>2 DEF FreeRefused, ringVars
  <2>2. CASE FreeFails
    BY <2>2 DEF FreeFails, MountedInv, RestartInv, ControlInv, ringVars
  <2>3. CASE \/ StartGc \/ GcReturns \/ AllocateFails \/ EraseFreed
             \/ \E b \in Allocable : Program(b)
    BY <2>3 DEF StartGc, GcReturns, AllocateFails, EraseFreed, Program, ringVars
  <2>4. QED
    BY <2>1, <2>2, <2>3
<1>2. PointersBracketFreeEntries' /\ (FirstLap' \/ LaterLap')
  BY <1>1 DEF MountedInv, PointersBracketFreeEntries, Live, FirstLap, LaterLap,
              ErasedSlots
<1>3. RoomInRing'
  <2>1. NumFree' = NumFree
    BY <1>1 DEF NumFree
  <2>2. /\ Cardinality(held) \in Nat
        /\ held' # held => Cardinality(held') = Cardinality(held) - 1
    BY <1>1, HeldCounts DEF MountedInv, RestartInv
  <2>3. CASE held' = held
    BY <2>1, <2>3 DEF MountedInv, RoomInRing
  <2>4. CASE held' # held
    BY <2>1, <2>2, <2>4, MountedFacts, Geometry DEF MountedInv, RoomInRing
  <2>5. QED
    BY <2>3, <2>4
<1>4. NoBlockLost'
  BY <1>1 DEF MountedInv, NoBlockLost, FreeBlocks, LiveSlots, Live
<1>5. FreedEntryWritten'
  <2>1. CASE FlashFails
    BY <2>1 DEF MountedInv, FreedEntryWritten, StartGc, GcReturns, AllocateFails,
       EraseFreed, FreeFails, FreeRefused, Program, stepVars
  <2>2. CASE ~FlashFails
    <3>1. CASE \E b \in Allocable : FreeRefused(b)
      BY <2>2, <3>1, NextBlockEmpty DEF FreeRefused
    <3>2. CASE FreeFails
      BY <2>2, <3>2 DEF FreeFails
    <3>3. CASE StartGc \/ GcReturns
      BY <1>1, <3>3 DEF MountedInv, FreedEntryWritten, StartGc, GcReturns
    <3>4. CASE AllocateFails \/ EraseFreed
      BY <1>1, <3>4 DEF MountedInv, FreedEntryWritten, AllocateFails, EraseFreed
    <3>5. CASE \E b \in Allocable : Program(b)
      BY <1>1, <3>5 DEF MountedInv, FreedEntryWritten, Program, stepVars
    <3>6. QED
      BY <3>1, <3>2, <3>3, <3>4, <3>5
  <2>3. QED
    BY <2>1, <2>2
<1>6. QED
  BY <1>1, <1>2, <1>3, <1>4, <1>5 DEF MountedInv

LEMMA StepMountedInv == MountedInv /\ [Next]_vars => MountedInv'
<1> SUFFICES ASSUME MountedInv, [Next]_vars
             PROVE  MountedInv'
  OBVIOUS
<1>1. RestartInv'
  BY StepRestartInv DEF MountedInv, RestartNext
<1>2. CASE AllocateBlock
  BY <1>1, <1>2, TakeEntryMountedInv DEF AllocateBlock, stepVars
<1>3. CASE AllocateAfterGc
  BY <1>1, <1>3, TakeEntryMountedInv DEF AllocateAfterGc
<1>4. ASSUME NEW b \in Allocable, FreeBlock(b) PROVE MountedInv'
  BY <1>1, <1>4, FreeBlockMountedInv
<1>5. CASE WriteEntry
  BY <1>1, <1>5, WriteEntryMountedInv
<1>6. CASE \/ StartGc \/ GcReturns \/ AllocateFails \/ EraseFreed \/ FreeFails
           \/ \E b \in Allocable : FreeRefused(b) \/ Program(b)
  BY <1>1, <1>6, ControlStepMountedInv
<1>7. CASE UNCHANGED vars
  BY <1>1, <1>7 DEF vars, MountedInv, PointersBracketFreeEntries, Live, RoomInRing,
     NumFree, FirstLap, LaterLap, ErasedSlots, FreedEntryWritten, NoBlockLost,
     FreeBlocks, LiveSlots
<1>8. QED
  BY <1>2, <1>3, <1>4, <1>5, <1>6, <1>7 DEF Next

\* While the file system stays mounted: MountedInv, for every geometry.
THEOREM MountedInvariance == Spec => []MountedInv
<1>1. Init => MountedInv
  BY InitMountedInv
<1>2. MountedInv /\ [Next]_vars => MountedInv'
  BY StepMountedInv
<1>3. QED
  BY <1>1, <1>2, PTL DEF Spec

\* The two positions bracket exactly the free entries (r2f2_alloc.h:20-26).
THEOREM PointersBracket == Spec => []PointersBracketFreeEntries
<1>1. MountedInv => PointersBracketFreeEntries
  BY DEF MountedInv
<1>2. QED
  BY <1>1, MountedInvariance, PTL

\* free_block never meets an allocator block that is partly used: the error
\* "should have been empty" (r2f2_alloc.c:247) cannot happen, because the ring
\* has an allocator block more than all free entries fill.
THEOREM NextBlockIsEmpty == Spec => []NextBlockEmptyOnFree
<1>1. MountedInv => NextBlockEmptyOnFree
  BY NextBlockEmpty DEF NextBlockEmptyOnFree
<1>2. QED
  BY <1>1, MountedInvariance, PTL

\* A collection that counted a block leaves allocate_block an entry to take,
\* unless a flash operation failed.
THEOREM CollectionSucceeds == Spec => []CollectionLeavesEntry
<1>1. ASSUME MountedInv, pc = "take", ~FlashFails PROVE Live(alloc_ptr)
  <2>1. alloc_ptr # next_free_ptr
    BY <1>1 DEF MountedInv, FreedEntryWritten
  <2>2. InSpan(alloc_ptr, alloc_ptr, next_free_ptr)
    BY <1>1, <2>1, MountedFacts, Geometry DEF InSpan, Slots
  <2>3. QED
    BY <1>1, <2>2, MountedFacts
<1>2. MountedInv => CollectionLeavesEntry
  BY <1>1 DEF CollectionLeavesEntry
<1>3. QED
  BY <1>2, MountedInvariance, PTL

\* Without flash errors, allocate_block and free_block lose no block.
THEOREM NoBlockIsLost == Spec => []NoBlockLost
<1>1. MountedInv => NoBlockLost
  BY DEF MountedInv
<1>2. QED
  BY <1>1, MountedInvariance, PTL

-----------------------------------------------------------------------------
(***************************************************************************)
(* The allocator implements the queue of R2F2FreeList, for every geometry. *)
(*                                                                         *)
(* The queue is what the ring holds from alloc_ptr up to next_free_ptr.    *)
(* MountedInv says that these slots are free blocks, that a step into them *)
(* from either end stays clear of the other, and that free_block erases    *)
(* none of them.                                                           *)
(***************************************************************************)

\* A position less than two rings on, taken round the ring.
LEMMA RoundOnce ==
    ASSUME NEW x \in Nat, x < Capacity + Capacity
    PROVE  x % Capacity = IF x < Capacity THEN x ELSE x - Capacity
<1> DEFINE q == x \div Capacity
           r == x % Capacity
<1>1. Capacity \in Nat /\ 0 < Capacity
  BY Geometry
<1>2. q \in Nat /\ r \in 0 .. Capacity - 1 /\ x = Capacity * q + r
  BY <1>1
<1> HIDE DEF q, r
<1>3. q # 0 => Capacity <= Capacity * q
  BY <1>1, <1>2
<1>4. ~(q < 2) => Capacity + Capacity <= Capacity * q
  BY <1>1, <1>2
<1>5. q = 0 \/ q = 1
  BY <1>1, <1>2, <1>4
<1>6. r = IF x < Capacity THEN x ELSE x - Capacity
  BY <1>1, <1>2, <1>3, <1>5
<1> QED
  BY <1>6 DEF r

\* The slot that holds the i-th entry of a queue that starts at slot a
SlotOf(a, i) == IF a + i - 1 < Capacity THEN a + i - 1 ELSE a + i - 1 - Capacity

\* The first entry of a span is at its start, the next ones follow it, the one after
\* the last is at its end, and all are different slots.
LEMMA SpanSlots ==
    ASSUME NEW a \in Slots, NEW n \in Slots
    PROVE  /\ Distance(a, n) \in Nat /\ Distance(a, n) < Capacity
           /\ SlotOf(a, Distance(a, n) + 1) = n
           /\ \A i \in 1 .. Distance(a, n) :
                 /\ SlotOf(a, i) \in Slots
                 /\ InSpan(SlotOf(a, i), a, n)
                 /\ SlotOf(a, i) # n
                 /\ i # 1 => SlotOf(a, i) # a
                 /\ i # Distance(a, n) => SlotOf(Advance(a), i) = SlotOf(a, i + 1)
<1>1. /\ a \in Int /\ n \in Int /\ 0 <= a /\ 0 <= n /\ a < Capacity /\ n < Capacity
      /\ Capacity \in Int
  BY Geometry DEF Slots
<1>2. Distance(a, n) \in Nat /\ Distance(a, n) < Capacity
  BY <1>1 DEF Distance
<1>3. SlotOf(a, Distance(a, n) + 1) = n
  BY <1>1 DEF Distance, SlotOf
<1>4. ASSUME NEW i \in 1 .. Distance(a, n)
      PROVE  /\ SlotOf(a, i) \in Slots
             /\ InSpan(SlotOf(a, i), a, n)
             /\ SlotOf(a, i) # n
             /\ i # 1 => SlotOf(a, i) # a
             /\ i # Distance(a, n) => SlotOf(Advance(a), i) = SlotOf(a, i + 1)
  BY <1>1, <1>2 DEF Distance, SlotOf, InSpan, Advance, Slots
<1> QED
  BY <1>2, <1>3, <1>4

\* The n entries from slot a on
QueueOf(r, a, n) == [i \in 1 .. n |-> r[SlotOf(a, i)]]

\* Taking positions round the ring is taking the slots in turn.
LEMMA RoundTheRing ==
    ASSUME NEW r, NEW a \in Slots, NEW n \in Nat, n < Capacity
    PROVE  [i \in 1 .. n |-> r[(a + i - 1) % Capacity]] = QueueOf(r, a, n)
<1>1. ASSUME NEW i \in 1 .. n  PROVE (a + i - 1) % Capacity = SlotOf(a, i)
  <2>1. PICK x \in Nat : x = a + i - 1 /\ x < Capacity + Capacity
    BY Geometry DEF Slots
  <2>2. SlotOf(a, i) = IF x < Capacity THEN x ELSE x - Capacity
    BY <2>1, Geometry DEF SlotOf, Slots
  <2> QED
    BY <2>1, <2>2, RoundOnce
<1> QED
  BY <1>1 DEF QueueOf

\* Entries that are free blocks make a sequence of them.
LEMMA QueueOfBlocks ==
    ASSUME NEW r, NEW a, NEW n \in Nat,
           \A i \in 1 .. n : r[SlotOf(a, i)] \in Allocable
    PROVE  /\ QueueOf(r, a, n) \in Seq(Allocable)
           /\ Len(QueueOf(r, a, n)) = n
           /\ \A i \in 1 .. n : QueueOf(r, a, n)[i] = r[SlotOf(a, i)]
<1> DEFINE q == [i \in 1 .. n |-> r[SlotOf(a, i)]]
<1>1. q \in [1 .. n -> Allocable]
  OBVIOUS
<1>2. \A i \in 1 .. n : q[i] = r[SlotOf(a, i)]
  OBVIOUS
<1> HIDE DEF q
<1>3. q \in Seq(Allocable) /\ Len(q) = n
  BY <1>1
<1> QED
  BY <1>2, <1>3 DEF QueueOf, q

\* The queue is a sequence of free blocks.
LEMMA QueueFacts ==
    ASSUME MountedInv
    PROVE  /\ NumFree \in Nat /\ NumFree < Capacity
           /\ Queue = QueueOf(ring, alloc_ptr, NumFree)
           /\ \A i \in 1 .. NumFree : ring[SlotOf(alloc_ptr, i)] \in Allocable
           /\ Queue \in Seq(Allocable) /\ Len(Queue) = NumFree
           /\ \A i \in 1 .. NumFree : Queue[i] = ring[SlotOf(alloc_ptr, i)]
<1>1. /\ alloc_ptr \in Slots /\ next_free_ptr \in Slots
      /\ NumFree = Distance(alloc_ptr, next_free_ptr) /\ NumFree \in Nat
      /\ NumFree < Capacity
  BY MountedFacts, SpanSlots
<1>2. Queue = QueueOf(ring, alloc_ptr, NumFree)
  BY <1>1, RoundTheRing DEF Queue
<1>3. ASSUME NEW i \in 1 .. NumFree  PROVE ring[SlotOf(alloc_ptr, i)] \in Allocable
  <2>1. SlotOf(alloc_ptr, i) \in Slots /\ InSpan(SlotOf(alloc_ptr, i), alloc_ptr, next_free_ptr)
    BY <1>1, SpanSlots
  <2>2. Live(SlotOf(alloc_ptr, i))
    BY <2>1, MountedFacts
  <2> QED
    BY <2>2 DEF Live
<1> QED
  BY <1>1, <1>2, <1>3, QueueOfBlocks

\* Handing out the first entry.
LEMMA TakeEntryAllocates ==
    ASSUME MountedInv, TakeEntry
    PROVE  FreeList!Allocate
<1> DEFINE b == ring[alloc_ptr]
<1>1. /\ alloc_ptr \in Slots /\ next_free_ptr \in Slots
      /\ ring \in [Slots -> Entries] /\ b \in Entries
      /\ NumFree = Distance(alloc_ptr, next_free_ptr)
  BY MountedFacts
<1>2. /\ ring' = [ring EXCEPT ![alloc_ptr] = Consumed]
      /\ held' = held \cup {b} /\ alloc_ptr' = Advance(alloc_ptr)
      /\ next_free_ptr' = next_free_ptr
      /\ first_allocable <= b /\ b < NumBlocks
  BY DEF TakeEntry
<1>3. Live(alloc_ptr)
  BY <1>1, <1>2, Geometry DEF MountedInv, Entries, Consumed, Erased, Live
<1>4. alloc_ptr # next_free_ptr
  BY <1>1, <1>3, MountedFacts, Geometry DEF InSpan, Slots
<1>5. NumFree' = NumFree - 1 /\ NumFree \in Nat /\ NumFree # 0 /\ NumFree < Capacity
  <2>1. NumFree' = NumFree - 1
    BY <1>1, <1>2, <1>4, SpanShrinks DEF NumFree, Distance
  <2>2. NumFree # 0
    BY <1>1, <1>4, Geometry DEF Distance, Slots
  <2> QED
    BY <2>1, <2>2, QueueFacts
<1>6. Queue # <<>> /\ Head(Queue) = b
  <2>1. SlotOf(alloc_ptr, 1) = alloc_ptr
    BY <1>1, Geometry DEF SlotOf, Slots
  <2>2. Queue # <<>>
    BY <1>5, QueueFacts, EmptySeq
  <2>3. Head(Queue) = Queue[1]
    BY <2>2, QueueFacts
  <2> QED
    BY <1>5, <2>1, <2>2, <2>3, QueueFacts
<1>7. Queue' = QueueOf(ring', Advance(alloc_ptr), NumFree - 1)
  <2>1. Advance(alloc_ptr) \in Slots /\ NumFree - 1 \in Nat /\ NumFree - 1 < Capacity
    BY <1>1, <1>5, AdvanceInRing, Geometry
  <2>2. Queue' = [i \in 1 .. NumFree - 1 |-> ring'[(Advance(alloc_ptr) + i - 1) % Capacity]]
    BY <1>2, <1>5 DEF Queue
  <2> QED
    BY <2>1, <2>2, RoundTheRing
<1>8. ASSUME NEW i \in 1 .. NumFree - 1
      PROVE  /\ ring'[SlotOf(Advance(alloc_ptr), i)] = Queue[i + 1]
             /\ Queue[i + 1] \in Allocable
  <2>1. i \in 1 .. NumFree /\ i + 1 \in 1 .. NumFree /\ i # NumFree /\ i + 1 # 1
    BY <1>5
  <2>2. /\ SlotOf(Advance(alloc_ptr), i) = SlotOf(alloc_ptr, i + 1)
        /\ SlotOf(alloc_ptr, i + 1) \in Slots
        /\ SlotOf(alloc_ptr, i + 1) # alloc_ptr
    BY <1>1, <2>1, SpanSlots
  <2>3. Queue[i + 1] = ring[SlotOf(alloc_ptr, i + 1)] /\ Queue[i + 1] \in Allocable
    BY <2>1, QueueFacts
  <2> QED
    BY <1>1, <1>2, <2>2, <2>3
<1>9. /\ Queue' \in Seq(Allocable) /\ Len(Queue') = NumFree - 1
      /\ \A i \in 1 .. NumFree - 1 : Queue'[i] = Queue[i + 1]
  <2>1. NumFree - 1 \in Nat
    BY <1>5
  <2> QED
    BY <1>7, <1>8, <2>1, QueueOfBlocks
<1>10. Queue' = Tail(Queue)
  <2>1. /\ Tail(Queue) \in Seq(Allocable) /\ Len(Tail(Queue)) = NumFree - 1
        /\ \A i \in 1 .. NumFree - 1 : Tail(Queue)[i] = Queue[i + 1]
    BY <1>6, QueueFacts, HeadTailProperties
  <2> QED
    BY <1>9, <2>1, SeqEqual
<1> QED
  BY <1>2, <1>6, <1>10 DEF FreeList!Allocate

\* The write of an entry.
LEMMA WriteEntryFrees ==
    ASSUME MountedInv, WriteEntry
    PROVE  \E b \in Allocable : FreeList!Free(b)
<1>1. /\ next_free_ptr \in Slots /\ alloc_ptr \in Slots /\ ring \in [Slots -> Entries]
      /\ NumFree = Distance(alloc_ptr, next_free_ptr)
      /\ freeing \in Allocable /\ freeing \in held
  BY MountedFacts DEF MountedInv, RestartInv, ControlInv, WriteEntry
<1>2. /\ ring' = [ring EXCEPT ![next_free_ptr] = freeing]
      /\ next_free_ptr' = Advance(next_free_ptr)
      /\ held' = held \ {freeing} /\ alloc_ptr' = alloc_ptr
  BY DEF WriteEntry
<1>3. Distance(alloc_ptr, next_free_ptr) + 1 < Capacity
  <2>1. Cardinality(held) \in Nat /\ Cardinality(held \ {freeing}) = Cardinality(held) - 1
    BY <1>1, HeldCounts DEF MountedInv, RestartInv
  <2>2. Cardinality(held') \in Nat
    BY <1>1, <1>2, HeldCounts, FS_RemoveElement, FS_CardinalityType DEF MountedInv, RestartInv
  <2> QED
    BY <1>1, <1>2, <2>1, <2>2, MountedFacts, Geometry DEF MountedInv, RoomInRing
<1>4. NumFree' = NumFree + 1 /\ NumFree \in Nat /\ NumFree + 1 < Capacity
  BY <1>1, <1>2, <1>3, SpanGrows, QueueFacts DEF NumFree, Distance
<1>5. Queue' = QueueOf(ring', alloc_ptr, NumFree + 1)
  <2>1. Queue' = [i \in 1 .. NumFree + 1 |-> ring'[(alloc_ptr + i - 1) % Capacity]]
    BY <1>2, <1>4 DEF Queue
  <2>2. NumFree + 1 \in Nat
    BY <1>4
  <2> QED
    BY <1>1, <1>4, <2>1, <2>2, RoundTheRing
<1>6. ASSUME NEW i \in 1 .. NumFree + 1
      PROVE  /\ ring'[SlotOf(alloc_ptr, i)] = IF i <= NumFree THEN Queue[i] ELSE freeing
             /\ ring'[SlotOf(alloc_ptr, i)] \in Allocable
  <2>1. CASE i = NumFree + 1
    BY <1>1, <1>2, <1>4, <2>1, SpanSlots
  <2>2. CASE i # NumFree + 1
    <3>1. i \in 1 .. NumFree
      BY <1>4, <2>2
    <3>2. SlotOf(alloc_ptr, i) \in Slots /\ SlotOf(alloc_ptr, i) # next_free_ptr
      BY <1>1, <3>1, SpanSlots
    <3>3. Queue[i] = ring[SlotOf(alloc_ptr, i)] /\ Queue[i] \in Allocable
      BY <3>1, QueueFacts
    <3> QED
      BY <1>1, <1>2, <3>1, <3>2, <3>3
  <2> QED
    BY <2>1, <2>2
<1>7. /\ Queue' \in Seq(Allocable) /\ Len(Queue') = NumFree + 1
      /\ \A i \in 1 .. NumFree + 1 : Queue'[i] = IF i <= NumFree THEN Queue[i] ELSE freeing
  BY <1>4, <1>5, <1>6, QueueOfBlocks
<1>8. Queue' = Append(Queue, freeing)
  <2>1. /\ Append(Queue, freeing) \in Seq(Allocable)
        /\ Len(Append(Queue, freeing)) = NumFree + 1
        /\ \A i \in 1 .. NumFree : Append(Queue, freeing)[i] = Queue[i]
        /\ Append(Queue, freeing)[NumFree + 1] = freeing
    BY <1>1, QueueFacts, AppendProperties
  <2>2. \A i \in 1 .. NumFree + 1 : \/ i <= NumFree /\ i \in 1 .. NumFree
                                    \/ i = NumFree + 1 /\ ~(i <= NumFree)
    BY <1>4
  <2>3. \A i \in 1 .. NumFree + 1 : Queue'[i] = Append(Queue, freeing)[i]
    BY <1>7, <2>1, <2>2
  <2> QED
    BY <1>7, <2>1, <2>3, SeqEqual
<1> QED
  BY <1>1, <1>2, <1>8 DEF FreeList!Free

\* Where the slots between the positions are as they were, so is the queue.
LEMMA QueueUnchanged ==
    ASSUME MountedInv, UNCHANGED <<alloc_ptr, next_free_ptr>>,
           \A s \in Slots : Live(s) => ring'[s] = ring[s]
    PROVE  UNCHANGED Queue
<1>1. /\ alloc_ptr \in Slots /\ next_free_ptr \in Slots
      /\ NumFree = Distance(alloc_ptr, next_free_ptr)
  BY MountedFacts
<1>2. NumFree' = NumFree
  BY DEF NumFree
<1>3. Queue' = QueueOf(ring', alloc_ptr, NumFree)
  <2>1. Queue' = [i \in 1 .. NumFree |-> ring'[(alloc_ptr + i - 1) % Capacity]]
    BY <1>2 DEF Queue
  <2> QED
    BY <1>1, <2>1, QueueFacts, RoundTheRing
<1>4. ASSUME NEW i \in 1 .. NumFree
      PROVE  ring'[SlotOf(alloc_ptr, i)] = ring[SlotOf(alloc_ptr, i)]
  <2>1. SlotOf(alloc_ptr, i) \in Slots /\ InSpan(SlotOf(alloc_ptr, i), alloc_ptr, next_free_ptr)
    BY <1>1, SpanSlots
  <2> QED
    BY <2>1, MountedFacts
<1>5. QueueOf(ring', alloc_ptr, NumFree) = QueueOf(ring, alloc_ptr, NumFree)
  BY <1>4 DEF QueueOf
<1> QED
  BY <1>3, <1>5, QueueFacts

\* Formatting leaves the queue of the free blocks in order.
LEMMA InitIsFresh ==
    ASSUME Init
    PROVE  FreeList!Init
<1> DEFINE n == NumBlocks - FirstAllocable - 1
<1>1. /\ ring = FormattedRing /\ alloc_ptr = 1 /\ held = {FirstAllocable}
      /\ next_free_ptr = NumBlocks - FirstAllocable
  BY DEF Init, Formatted
<1>2. NumFree = n /\ n \in Nat
  BY <1>1, Geometry DEF NumFree
<1>3. Queue = [i \in 1 .. n |-> ring[SlotOf(1, i)]]
  BY <1>1, <1>2, InitMountedInv, QueueFacts DEF QueueOf
<1>4. ASSUME NEW i \in 1 .. n  PROVE ring[SlotOf(1, i)] = FirstAllocable + i
  <2>1. SlotOf(1, i) = i /\ i \in Slots /\ i # 0 /\ i < NumBlocks - FirstAllocable
    BY Geometry DEF SlotOf, Slots
  <2> QED
    BY <1>1, <2>1 DEF FormattedRing
<1>5. Queue = [i \in 1 .. n |-> FirstAllocable + i]
  BY <1>3, <1>4
<1> QED
  BY <1>1, <1>5 DEF FreeList!Init

\* Every step of the mounted allocator takes the first block of the queue, appends one,
\* loses one to a flash error, or leaves the queue alone.
LEMMA StepImplements ==
    ASSUME MountedInv, [Next]_vars
    PROVE  [FreeList!Next]_<<Queue, held>>
<1>1. CASE AllocateBlock \/ AllocateAfterGc
  BY <1>1, TakeEntryAllocates DEF AllocateBlock, AllocateAfterGc, FreeList!Next
<1>2. CASE WriteEntry
  BY <1>2, WriteEntryFrees DEF FreeList!Next
<1>3. ASSUME NEW b \in Allocable, FreeBlock(b)  PROVE UNCHANGED <<Queue, held>>
  <2>1. Consumed \notin Allocable
    BY Geometry DEF Consumed, Allocable
  <2>2. \A s \in Slots : Live(s) => ring'[s] = ring[s]
    BY <1>3, <2>1, MountedFacts DEF FreeBlock, AllConsumed, Live
  <2> QED
    BY <1>3, <2>2, QueueUnchanged DEF FreeBlock
<1>4. ASSUME NEW b \in Allocable, FreeRefused(b)  PROVE FreeList!Lose(b)
  <2>1. FlashFails
    BY <1>4, NextBlockEmpty DEF FreeRefused
  <2>2. UNCHANGED Queue
    BY <1>4, QueueUnchanged DEF FreeRefused, ringVars
  <2> QED
    BY <1>4, <2>1, <2>2 DEF FreeRefused, FreeList!Lose
<1>5. ASSUME FreeFails  PROVE FreeList!Lose(freeing) /\ freeing \in Allocable
  <2>1. freeing \in held /\ freeing \in Allocable
    BY <1>5 DEF FreeFails, MountedInv, RestartInv, ControlInv
  <2>2. UNCHANGED Queue
    BY <1>5, QueueUnchanged DEF FreeFails, ringVars
  <2> QED
    BY <1>5, <2>1, <2>2 DEF FreeFails, FreeList!Lose
<1>6. CASE \/ StartGc \/ GcReturns \/ AllocateFails \/ EraseFreed \/ UNCHANGED vars
           \/ \E b \in Allocable : Program(b)
  <2>1. UNCHANGED <<ring, alloc_ptr, next_free_ptr, held>>
    BY <1>6 DEF StartGc, GcReturns, AllocateFails, EraseFreed, Program, vars, ringVars
  <2> QED
    BY <2>1, QueueUnchanged
<1> QED
  BY <1>1, <1>2, <1>3, <1>4, <1>5, <1>6 DEF Next, FreeList!Next

\* While the file system stays mounted, the allocator is a queue of free blocks: blocks
\* are handed out in the order they were freed, whatever allocator blocks are recycled
\* on the way, and none is lost but to a flash error.
THEOREM AllocatorIsQueue == Spec => ImplementsFreeList
<1>1. Init => FreeList!Init
  BY InitIsFresh
<1>2. MountedInv /\ [Next]_vars => [FreeList!Next]_<<Queue, held>>
  BY StepImplements
<1> QED
  BY <1>1, <1>2, MountedInvariance, PTL DEF Spec, ImplementsFreeList, FreeList!Spec
=============================================================================
