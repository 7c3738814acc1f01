-------------------------- MODULE R2F2LayoutProofs --------------------------
(***************************************************************************)
(* Theorems about the layout of a file's data, for every page size, block  *)
(* size and number of sequence entries.                                    *)
(***************************************************************************)
EXTENDS R2F2Layout, SequenceTheorems, TLAPS


Bytes == 1 .. MaxBytes
Fills == 0 .. Capacity

\* The descriptor's fill level is a number of whole pages, and what is behind it
\* in the descriptor's data block is blank.
PageAligned == \E k \in 0 .. DataPages : fd.fill = k * PageSize
BlankBehind == fd.block # NoBlock =>
                   \A p \in Pages : p * PageSize >= fd.fill => data[fd.block][p] = <<>>

\* What is known of each variable, and between them: the buffer never holds more
\* than a block, and all bytes together are no more than were written.
Shape ==
    /\ data \in Seq([Pages -> Seq(Bytes)])
    /\ fse \in Seq([block : Nat \ {0}, fill : Nat \ {0}, off : Nat])
    /\ fd \in [block : Nat, fill : Fills, off : Nat, size : Nat, offset : Nat]
    /\ buf \in Seq(Bytes) /\ done \in Nat
    /\ pc \in {"idle", "fsync", "aborted"}
Bounds ==
    /\ \A i \in DOMAIN fse :
          fse[i].block <= Len(data) /\ fse[i].fill <= Capacity /\ fse[i].off <= MaxBytes
    /\ Len(fse) <= SeqEntries
    /\ fd.block <= Len(data) /\ fd.off <= MaxBytes
    /\ Len(buf) <= Capacity /\ done <= Len(buf)
    /\ fd.size + Count <= MaxBytes
    /\ fd.offset <= MaxBytes + fd.size + Count
InCall ==
    /\ pc = "fsync" => fd.block # NoBlock /\ done < Len(buf)
    /\ pc # "fsync" => done = 0

IInv == Shape /\ Bounds /\ InCall /\ PageAligned /\ BlankBehind

\* What a sequence holds at one of its indices is of the sequence's type.
LEMMA AtIndex == ASSUME NEW S, NEW s \in Seq(S), NEW i \in DOMAIN s  PROVE s[i] \in S
<1>1. i \in 1 .. Len(s)
  BY LenProperties
<1> QED
  BY <1>1, ElementOfSeq

-----------------------------------------------------------------------------
(***************************************************************************)
(* Arithmetic.                                                             *)
(***************************************************************************)
LEMMA Constants ==
    /\ PageSize \in Nat \ {0} /\ DataPages \in Nat \ {0} /\ SeqEntries \in Nat \ {0}
    /\ MaxBytes \in Nat
    /\ Capacity \in Nat \ {0} /\ Capacity = DataPages * PageSize
<1>1. PageSize \in Nat \ {0} /\ DataPages \in Nat \ {0}
  BY LayoutAssumption DEF LayoutAssumption
<1>2. SeqEntries \in Nat \ {0} /\ MaxBytes \in Nat
  BY LayoutAssumption DEF LayoutAssumption
<1>3. PageSize * DataPages \in Nat \ {0} /\ PageSize * DataPages = DataPages * PageSize
  BY <1>1
<1> QED
  BY <1>1, <1>2, <1>3 DEF Capacity

\* Dividing a multiple of the page size, or a rounding up, by it
LEMMA Division ==
    ASSUME NEW a \in Nat
    PROVE  /\ a \div PageSize \in Nat /\ a % PageSize \in 0 .. PageSize - 1
           /\ a = PageSize * (a \div PageSize) + (a % PageSize)
  BY Constants

LEMMA Scale ==
    ASSUME NEW a \in Int, NEW b \in Int
    PROVE  /\ a < b <=> PageSize * a < PageSize * b
           /\ a <= b <=> PageSize * a <= PageSize * b
           /\ PageSize * a = a * PageSize /\ PageSize * a \in Int
  BY Constants

LEMMA MinOfTwo ==
    ASSUME NEW a \in Int, NEW b \in Int
    PROVE  Min({a, b}) = IF a <= b THEN a ELSE b
  BY DEF Min

\* Bytes that fit behind k pages of a block fill at least one page, and no more
\* pages than are left.
LEMMA PagesFit ==
    ASSUME NEW k \in 0 .. DataPages, NEW n \in Nat \ {0}, n <= Capacity - k * PageSize
    PROVE  /\ PagesFor(n) \in 1 .. DataPages - k
           /\ n <= PagesFor(n) * PageSize
<1> DEFINE m == n + PageSize - 1
           q == m \div PageSize
           r == m % PageSize
<1>0. m \in Nat /\ PagesFor(n) = q
  BY Constants DEF PagesFor
<1>1. q \in Nat /\ r \in 0 .. PageSize - 1 /\ m = PageSize * q + r
  BY <1>0, Division
<1> HIDE DEF q, r
<1>2. n <= PageSize * q
  BY <1>1, Constants
<1>3. PageSize * q < PageSize * (DataPages - k + 1)
  <2>1. PageSize * (DataPages - k + 1) = Capacity - k * PageSize + PageSize
    BY Constants
  <2>2. k * PageSize \in Nat /\ PageSize * q \in Nat
    BY <1>1, Constants
  <2> DEFINE start == k * PageSize
             top == PageSize * (DataPages - k + 1)
             whole == PageSize * q
  <2>3. start \in Nat /\ top = Capacity - start + PageSize /\ n <= Capacity - start
        /\ whole \in Nat /\ m = whole + r
    BY <1>1, <2>1, <2>2
  <2> HIDE DEF start, top, whole
  <2>4. whole < top
    BY <1>1, <2>3, Constants
  <2> QED
    BY <2>4 DEF whole, top
<1>4. q < DataPages - k + 1
  BY <1>1, <1>3, Scale, Constants
<1>5. q >= 1
  BY <1>1, <1>2, Constants
<1>6. q \in 1 .. DataPages - k
  BY <1>1, <1>4, <1>5, Constants
<1>7. n <= q * PageSize
  BY <1>1, <1>2, Scale
<1> QED
  BY <1>0, <1>6, <1>7

\* So the fill level after a chunk is again a number of whole pages.
LEMMA FilledPages ==
    ASSUME NEW k \in 0 .. DataPages, NEW n \in Nat \ {0}, n <= Capacity - k * PageSize
    PROVE  /\ k + PagesFor(n) \in 1 .. DataPages
           /\ Filled(k * PageSize, n) = (k + PagesFor(n)) * PageSize
           /\ Filled(k * PageSize, n) \in 1 .. Capacity
<1>1. PagesFor(n) \in 1 .. DataPages - k
  BY PagesFit
<1>2. Filled(k * PageSize, n) = (k + PagesFor(n)) * PageSize
  BY <1>1, Constants DEF Filled
<1>3. k + PagesFor(n) \in 1 .. DataPages
  BY <1>1, Constants
<1>4. (k + PagesFor(n)) * PageSize \in 1 .. Capacity
  BY <1>3, Scale, Constants
<1> QED
  BY <1>2, <1>3, <1>4

LEMMA PageOfFill ==
    ASSUME NEW k \in Nat
    PROVE  (k * PageSize) \div PageSize = k /\ (k * PageSize) % PageSize = 0
<1> DEFINE a == k * PageSize
           q == a \div PageSize
           r == a % PageSize
<1>1. a \in Nat /\ a = PageSize * k
  BY Constants
<1>2. q \in Nat /\ r \in 0 .. PageSize - 1 /\ a = PageSize * q + r
  BY <1>1, Division
<1> HIDE DEF q, r, a
<1>3. PageSize * k < PageSize * (q + 1) /\ PageSize * q <= PageSize * k
  BY <1>1, <1>2, Constants
<1>4. k = q
  BY <1>2, <1>3, Scale
<1> QED
  BY <1>1, <1>2, <1>4, Constants DEF a, q, r

-----------------------------------------------------------------------------
(***************************************************************************)
(* What r2f2_write_data writes.                                            *)
(***************************************************************************)
\* A chunk written behind k pages leaves those before it and those after it.
LEMMA Written ==
    ASSUME NEW block \in [Pages -> Seq(Bytes)], NEW k \in 0 .. DataPages,
           NEW s \in Seq(Bytes), s # <<>>, Len(s) <= Capacity - k * PageSize
    PROVE  /\ WriteData(block, k * PageSize, s) \in [Pages -> Seq(Bytes)]
           /\ \A p \in Pages : p >= k + PagesFor(Len(s)) =>
                 WriteData(block, k * PageSize, s)[p] = block[p]
<1> DEFINE w == WriteData(block, k * PageSize, s)
           pages == PagesFor(Len(s))
           part(j) == SubSeq(s, j * PageSize + 1, Min({(j + 1) * PageSize, Len(s)}))
<1>1. Len(s) \in Nat \ {0} /\ pages \in 1 .. DataPages - k
  BY PagesFit
<1>2. (k * PageSize) \div PageSize = k
  BY PageOfFill
<1>3. w = [p \in Pages |-> IF p - k \in 0 .. pages - 1 THEN part(p - k) ELSE block[p]]
  BY <1>2 DEF WriteData
<1>4. ASSUME NEW j \in Nat  PROVE part(j) \in Seq(Bytes)
  <2> DEFINE to == Min({(j + 1) * PageSize, Len(s)})
             from == j * PageSize + 1
  <2>1. from \in Nat \ {0} /\ (j + 1) * PageSize \in Nat
    BY Constants
  <2>2. to \in Int /\ to <= Len(s)
    <3> DEFINE end == (j + 1) * PageSize
    <3> HIDE DEF end
    <3>1. Min({end, Len(s)}) \in Int /\ Min({end, Len(s)}) <= Len(s)
      BY <1>1, <2>1, MinOfTwo DEF end
    <3> QED
      BY <3>1 DEF end
  <2>3. \A i \in from .. to : s[i] \in Bytes
    BY <1>1, <2>1, <2>2
  <2> HIDE DEF from, to
  <2>4. SubSeq(s, from, to) \in Seq(Bytes)
    BY <2>1, <2>2, <2>3, SubSeqProperties
  <2> QED
    BY <2>4 DEF from, to
<1> HIDE DEF part, w, pages
<1>5. w \in [Pages -> Seq(Bytes)]
  <2>1. ASSUME NEW p \in Pages, p - k \in 0 .. pages - 1  PROVE part(p - k) \in Seq(Bytes)
    BY <1>1, <1>4, <2>1
  <2> QED
    BY <1>3, <2>1
<1>6. \A p \in Pages : p >= k + pages => w[p] = block[p]
  BY <1>1, <1>3 DEF Pages
<1> QED
  BY <1>5, <1>6 DEF w, pages

-----------------------------------------------------------------------------
(***************************************************************************)
(* The inductive invariant.                                                *)
(***************************************************************************)
LEMMA FunctionIsSeq ==
    ASSUME NEW S, NEW n \in Nat, NEW f \in [1 .. n -> S]
    PROVE  f \in Seq(S) /\ Len(f) = n
  OBVIOUS

\* Updating the descriptor
LEMMA Descriptor ==
    ASSUME NEW d \in [block : Nat, fill : Fills, off : Nat, size : Nat, offset : Nat],
           NEW b \in Nat, NEW fill \in Fills, NEW off \in Nat, NEW size \in Nat,
           NEW offset \in Nat
    PROVE  /\ [d EXCEPT !.offset = offset] =
                 [block |-> d.block, fill |-> d.fill, off |-> d.off, size |-> d.size,
                  offset |-> offset]
           /\ [d EXCEPT !.block = b] =
                 [block |-> b, fill |-> d.fill, off |-> d.off, size |-> d.size,
                  offset |-> d.offset]
           /\ [d EXCEPT !.block = b, !.fill = fill, !.off = off] =
                 [block |-> b, fill |-> fill, off |-> off, size |-> d.size,
                  offset |-> d.offset]
           /\ [d EXCEPT !.fill = fill, !.size = size] =
                 [block |-> d.block, fill |-> fill, off |-> d.off, size |-> size,
                  offset |-> d.offset]
<1>1. [d EXCEPT !.offset = offset] =
         [block |-> d.block, fill |-> d.fill, off |-> d.off, size |-> d.size,
          offset |-> offset]
  OBVIOUS
<1>2. [d EXCEPT !.block = b] =
         [block |-> b, fill |-> d.fill, off |-> d.off, size |-> d.size,
          offset |-> d.offset]
  OBVIOUS
<1>3. [d EXCEPT !.block = b, !.fill = fill, !.off = off] =
         [block |-> b, fill |-> fill, off |-> off, size |-> d.size, offset |-> d.offset]
  <2> DEFINE e == [block |-> b, fill |-> d.fill, off |-> d.off, size |-> d.size,
                   offset |-> d.offset]
             g == [block |-> b, fill |-> fill, off |-> d.off, size |-> d.size,
                   offset |-> d.offset]
  <2>1. [d EXCEPT !.block = b] = e
    BY <1>2
  <2>2. [e EXCEPT !.fill = fill] = g
    OBVIOUS
  <2>3. [g EXCEPT !.off = off] =
           [block |-> b, fill |-> fill, off |-> off, size |-> d.size, offset |-> d.offset]
    OBVIOUS
  <2> HIDE DEF e, g
  <2>4. [d EXCEPT !.block = b, !.fill = fill, !.off = off] =
           [[[d EXCEPT !.block = b] EXCEPT !.fill = fill] EXCEPT !.off = off]
    OBVIOUS
  <2> QED
    BY <2>1, <2>2, <2>3, <2>4
<1>4. [d EXCEPT !.fill = fill, !.size = size] =
         [block |-> d.block, fill |-> fill, off |-> d.off, size |-> size,
          offset |-> d.offset]
  <2> DEFINE e == [block |-> d.block, fill |-> fill, off |-> d.off, size |-> d.size,
                   offset |-> d.offset]
  <2>1. [d EXCEPT !.fill = fill] = e
    OBVIOUS
  <2>2. [e EXCEPT !.size = size] =
           [block |-> d.block, fill |-> fill, off |-> d.off, size |-> size,
            offset |-> d.offset]
    OBVIOUS
  <2> HIDE DEF e
  <2>3. [d EXCEPT !.fill = fill, !.size = size] =
           [[d EXCEPT !.fill = fill] EXCEPT !.size = size]
    OBVIOUS
  <2> QED
    BY <2>1, <2>2, <2>3
<1> QED
  BY <1>1, <1>2, <1>3, <1>4

LEMMA BlankBlockType == BlankBlock \in [Pages -> Seq(Bytes)]
  BY DEF BlankBlock

LEMMA CountType ==
    ASSUME IInv
    PROVE  Count \in 0 .. Capacity /\ Len(buf) \in 0 .. Capacity /\ done \in 0 .. Len(buf)
  BY Constants DEF IInv, Shape, Bounds, Count

LEMMA InitHolds == Init => IInv
<1> SUFFICES ASSUME Init  PROVE IInv
  OBVIOUS
<1>1. Shape /\ Bounds /\ InCall /\ BlankBehind
  BY Constants DEF Init, Shape, Bounds, InCall, BlankBehind, Count, NoBlock, Fills
<1>2. 0 \in 0 .. DataPages /\ fd.fill = 0 * PageSize
  BY Constants DEF Init
<1> QED
  BY <1>1, <1>2 DEF IInv, PageAligned

LEMMA WriteKeeps ==
    ASSUME IInv, NEW n \in 1 .. Capacity, Write(n)
    PROVE  IInv'
<1> DEFINE new == [i \in 1 .. n |-> fd.size + Count + i]
<1>1. /\ fd.size \in Nat /\ fd.offset \in Nat /\ Count \in Nat /\ n \in Nat
      /\ fd.size + Count + n <= MaxBytes /\ done = 0
  BY CountType, Constants DEF IInv, Shape, InCall, Write
<1>2. new \in Seq(Bytes) /\ Len(new) = n
  <2>1. \A i \in 1 .. n : fd.size + Count + i \in Bytes
    BY <1>1, Constants DEF Bytes
  <2>2. new \in [1 .. n -> Bytes]
    BY <2>1
  <2> QED
    BY <1>1, <2>2, FunctionIsSeq
<1> HIDE DEF new
<1>3. buf' \in Seq(Bytes) /\ Len(buf') = Len(buf) + n
  <2>1. buf' = buf \o new
    BY DEF Write, new
  <2> QED
    BY <1>2, <2>1, ConcatProperties DEF IInv, Shape
<1>4. /\ fd' = [block |-> fd.block, fill |-> fd.fill, off |-> fd.off, size |-> fd.size,
                 offset |-> fd.offset + n]
      /\ UNCHANGED <<data, fse, done, pc>>
  <2>1. fd' = [fd EXCEPT !.offset = fd.offset + n] /\ UNCHANGED <<data, fse, done, pc>>
    BY DEF Write
  <2>2. fd.offset + n \in Nat /\ fd \in [block : Nat, fill : Fills, off : Nat, size : Nat,
                                       offset : Nat]
    BY <1>1 DEF IInv, Shape
  <2> QED
    BY <2>1, <2>2, Descriptor
<1>5. Count' = Count + n /\ Count + n <= Capacity
  BY <1>1, <1>3, <1>4, CountType DEF Count, Write
<1>6. Shape'
  BY <1>1, <1>3, <1>4 DEF IInv, Shape
<1>7. Bounds'
  <2>1. Bounds /\ done' <= Len(buf') /\ Len(buf') <= Capacity
    BY <1>1, <1>3, <1>4, <1>5, CountType DEF IInv, Count
  <2>2. /\ fd'.size = fd.size /\ fd'.offset = fd.offset + n /\ fd'.block = fd.block
        /\ fd'.off = fd.off /\ data' = data /\ fse' = fse
    BY <1>4
  <2>3. fd'.size + Count' <= MaxBytes /\ fd'.offset <= MaxBytes + fd'.size + Count'
    <3>1. fd.offset <= MaxBytes + fd.size + Count
      BY <2>1 DEF Bounds
    <3> QED
      BY <1>1, <1>5, <2>2, <3>1, Constants
  <2> QED
    BY <2>1, <2>2, <2>3 DEF Bounds
<1>8. InCall' /\ PageAligned' /\ BlankBehind'
  BY <1>1, <1>4 DEF IInv, Shape, InCall, PageAligned, BlankBehind, Write
<1> QED
  BY <1>6, <1>7, <1>8 DEF IInv

\* The first data block of a file is blank.
LEMMA FsyncKeeps ==
    ASSUME IInv, Fsync
    PROVE  IInv'
<1>1. /\ pc' = "fsync" /\ UNCHANGED <<fse, buf, done>> /\ pc = "idle" /\ Count > 0
      /\ Count' = Count
  BY DEF Fsync, Count
<1>2. CASE fd.block # NoBlock
  <2>1. UNCHANGED <<data, fd>>
    BY <1>2 DEF Fsync
  <2> QED
    BY <1>1, <1>2, <2>1, CountType
    DEF IInv, Shape, Bounds, InCall, PageAligned, BlankBehind, Count
<1>3. CASE fd.block = NoBlock
  <2>0. Len(data) \in Nat /\ fd \in [block : Nat, fill : Fills, off : Nat, size : Nat,
                                   offset : Nat]
    BY DEF IInv, Shape
  <2>1. /\ data' = Append(data, BlankBlock)
        /\ fd' = [block |-> Len(data) + 1, fill |-> fd.fill, off |-> fd.off,
                  size |-> fd.size, offset |-> fd.offset]
    <3>1. data' = Append(data, BlankBlock) /\ fd' = [fd EXCEPT !.block = Len(data) + 1]
      BY <1>3 DEF Fsync
    <3> QED
      BY <2>0, <3>1, Descriptor
  <2>2. /\ data' \in Seq([Pages -> Seq(Bytes)]) /\ Len(data') = Len(data) + 1
        /\ data'[Len(data) + 1] = BlankBlock
    BY <2>1, BlankBlockType, AppendProperties DEF IInv, Shape
  <2>3. Len(data) \in Nat
    BY DEF IInv, Shape
  <2>4. Shape'
    BY <1>1, <2>1, <2>2, <2>3 DEF IInv, Shape
  <2>5. Bounds'
    <3>1. /\ fd'.block = Len(data) + 1 /\ fd'.off = fd.off /\ fd'.size = fd.size
          /\ fd'.offset = fd.offset /\ fse' = fse /\ buf' = buf /\ done' = done
      BY <1>1, <2>1
    <3>2. ASSUME NEW i \in DOMAIN fse  PROVE fse[i].block <= Len(data')
      <4> DEFINE E == [block : Nat \ {0}, fill : Nat \ {0}, off : Nat]
      <4>0. fse \in Seq(E)
        BY DEF IInv, Shape
      <4> HIDE DEF E
      <4>1. fse[i] \in E
        BY <4>0, AtIndex
      <4> USE DEF E
      <4>2. fse[i].block \in Nat /\ fse[i].block <= Len(data)
        BY <4>1 DEF IInv, Bounds
      <4> QED
        BY <2>2, <2>3, <4>2
    <3>3. Bounds
      BY DEF IInv
    <3> QED
      BY <1>1, <2>2, <2>3, <3>1, <3>2, <3>3 DEF Bounds
  <2>6. InCall' /\ PageAligned'
    BY <1>1, <2>1, <2>3, CountType DEF IInv, Shape, InCall, PageAligned, NoBlock, Count
  <2>7. BlankBehind'
    BY <2>1, <2>2, <2>3 DEF IInv, Shape, BlankBehind, BlankBlock
  <2> QED
    BY <2>4, <2>5, <2>6, <2>7 DEF IInv
<1> QED
  BY <1>2, <1>3

\* A turn of the loop of r2f2_fsync: the data blocks, the descriptor and the number of
\* bytes it has, once there is room in the last block
TurnBlocks == IF fd.fill = Capacity THEN Append(data, BlankBlock) ELSE data
TurnFd == IF fd.fill = Capacity THEN NextBlock(fd, Len(data) + 1) ELSE fd
TurnBytes == Min({Count, Capacity - TurnFd.fill})

LEMMA TurnFacts ==
    ASSUME IInv, pc = "fsync"
    PROVE  /\ TurnFd \in [block : Nat, fill : Fills, off : Nat, size : Nat, offset : Nat]
           /\ TurnFd.size = fd.size /\ TurnFd.offset = fd.offset /\ TurnFd.off <= MaxBytes
           /\ TurnBlocks \in Seq([Pages -> Seq(Bytes)]) /\ Len(data) <= Len(TurnBlocks)
           /\ TurnFd.block \in 1 .. Len(TurnBlocks) /\ TurnFd.fill < Capacity
           /\ \A p \in Pages :
                 p * PageSize >= TurnFd.fill => TurnBlocks[TurnFd.block][p] = <<>>
           /\ \E k \in 0 .. DataPages : TurnFd.fill = k * PageSize
           /\ TurnBytes \in Nat \ {0} /\ TurnBytes <= Count
           /\ TurnBytes <= Capacity - TurnFd.fill /\ Count = Len(buf) - done
           /\ TurnBytes = (IF Count <= Capacity - TurnFd.fill THEN Count
                           ELSE Capacity - TurnFd.fill)
           /\ ChunkOf(TurnBytes) \in Seq(Bytes) /\ Len(ChunkOf(TurnBytes)) = TurnBytes
<1> DEFINE full == fd.fill = Capacity
           blocks == IF full THEN Append(data, BlankBlock) ELSE data
           d == IF full THEN NextBlock(fd, Len(data) + 1) ELSE fd
           n == Min({Count, Capacity - d.fill})
<1>1. /\ d \in [block : Nat, fill : Fills, off : Nat, size : Nat, offset : Nat]
      /\ d.size = fd.size /\ d.offset = fd.offset /\ d.off <= MaxBytes
      /\ blocks \in Seq([Pages -> Seq(Bytes)]) /\ Len(data) <= Len(blocks)
      /\ d.block \in 1 .. Len(blocks) /\ d.fill < Capacity
      /\ \A p \in Pages : p * PageSize >= d.fill => blocks[d.block][p] = <<>>
      /\ \E k \in 0 .. DataPages : d.fill = k * PageSize
  <2>1. Len(data) \in Nat /\ fd.size <= MaxBytes
    BY CountType, Constants DEF IInv, Shape, Bounds
  <2>2. CASE full
    <3>1. /\ blocks = Append(data, BlankBlock)
          /\ d = [block |-> Len(data) + 1, fill |-> 0, off |-> fd.size, size |-> fd.size,
                  offset |-> fd.offset]
          /\ 0 \in Fills
      <4>1. d = [fd EXCEPT !.block = Len(data) + 1, !.fill = 0, !.off = fd.size]
        BY <2>2 DEF NextBlock
      <4>2. /\ fd \in [block : Nat, fill : Fills, off : Nat, size : Nat, offset : Nat]
            /\ 0 \in Fills /\ Len(data) + 1 \in Nat /\ fd.size \in Nat
        BY <2>1, Constants DEF IInv, Shape, Fills
      <4> QED
        BY <2>2, <4>1, <4>2, Descriptor
    <3>2. /\ blocks \in Seq([Pages -> Seq(Bytes)]) /\ Len(blocks) = Len(data) + 1
          /\ blocks[Len(data) + 1] = BlankBlock
      BY <3>1, BlankBlockType, AppendProperties DEF IInv, Shape
    <3>3. /\ d \in [block : Nat, fill : Fills, off : Nat, size : Nat, offset : Nat]
          /\ d.block = Len(data) + 1 /\ d.fill = 0 /\ d.off = fd.size
          /\ d.size = fd.size /\ d.offset = fd.offset
      BY <2>1, <3>1 DEF IInv, Shape
    <3>4. 0 \in 0 .. DataPages /\ d.fill = 0 * PageSize
      BY <3>3, Constants
    <3>5. \A p \in Pages : blocks[d.block][p] = <<>>
      BY <3>2, <3>3 DEF BlankBlock
    <3> HIDE DEF d, blocks
    <3>6. \E k \in 0 .. DataPages : d.fill = k * PageSize
      BY <3>4
    <3>7. d.block \in 1 .. Len(blocks) /\ Len(data) <= Len(blocks) /\ d.fill < Capacity
      BY <2>1, <3>2, <3>3, Constants
    <3> QED
      BY <2>1, <3>2, <3>3, <3>5, <3>6, <3>7
  <2>3. CASE ~full
    <3>1. blocks = data /\ d = fd
      BY <2>3
    <3>2. fd.fill \in Fills /\ fd.fill # Capacity /\ fd.block \in 1 .. Len(data)
      BY <2>1, <2>3 DEF IInv, Shape, Bounds, InCall, NoBlock
    <3>3. fd.fill < Capacity
      BY <3>2, Constants DEF Fills
    <3>4. \E k \in 0 .. DataPages : fd.fill = k * PageSize
      BY DEF IInv, PageAligned
    <3>5. \A p \in Pages : p * PageSize >= fd.fill => data[fd.block][p] = <<>>
      BY <3>2 DEF IInv, BlankBehind, NoBlock
    <3>6. /\ fd \in [block : Nat, fill : Fills, off : Nat, size : Nat, offset : Nat]
          /\ data \in Seq([Pages -> Seq(Bytes)]) /\ fd.off <= MaxBytes
      BY DEF IInv, Shape, Bounds
    <3> HIDE DEF d, blocks, full
    <3> QED
      BY <2>1, <3>1, <3>2, <3>3, <3>4, <3>5, <3>6
  <2> QED
    BY <2>2, <2>3
<1> HIDE DEF full, blocks, d
<1>2. /\ n \in Nat \ {0} /\ n <= Count /\ n <= Capacity - d.fill
      /\ Count = Len(buf) - done /\ n = (IF Count <= Capacity - d.fill THEN Count
                                        ELSE Capacity - d.fill)
  <2>1. Count \in Nat \ {0} /\ Count = Len(buf) - done
    BY CountType DEF IInv, InCall, Count
  <2>2. Capacity - d.fill \in Nat \ {0}
    BY <1>1, Constants DEF Fills
  <2> QED
    BY <2>1, <2>2, MinOfTwo
<1> HIDE DEF n
<1>3. ChunkOf(n) \in Seq(Bytes) /\ Len(ChunkOf(n)) = n
  <2>1. buf \in Seq(Bytes) /\ done \in Nat /\ done + n <= Len(buf) /\ Len(buf) \in Nat
    BY <1>2, CountType DEF IInv, Shape
  <2>2. \A i \in done + 1 .. done + n : buf[i] \in Bytes
    BY <1>2, <2>1
  <2>3. done + 1 \in Int /\ done + n \in Int
    BY <1>2, <2>1
  <2> DEFINE from == done + 1
             to == done + n
  <2>4. from \in Int /\ to \in Int /\ (\A i \in from .. to : buf[i] \in Bytes)
        /\ from <= to /\ to - from + 1 = n
    BY <1>2, <2>1, <2>2, <2>3
  <2>5. ChunkOf(n) = SubSeq(buf, from, to)
    BY DEF ChunkOf
  <2> HIDE DEF from, to
  <2>6. SubSeq(buf, from, to) \in Seq(Bytes) /\ Len(SubSeq(buf, from, to)) = to - from + 1
    BY <2>4, SubSeqProperties
  <2> QED
    BY <2>4, <2>5, <2>6
<1> QED
  BY <1>1, <1>2, <1>3 DEF full, blocks, d, n, TurnBlocks, TurnFd, TurnBytes

LEMMA FsyncChunkKeeps ==
    ASSUME IInv, FsyncChunk
    PROVE  IInv'
<1> DEFINE blocks == TurnBlocks
           d == TurnFd
           n == TurnBytes
           fill == Filled(d.fill, n)
           w == WriteData(blocks[d.block], d.fill, ChunkOf(n))
           entry == [block |-> d.block, fill |-> fill, off |-> d.off]
<1>1. /\ data' = [blocks EXCEPT ![d.block] = w]
      /\ fd' = [d EXCEPT !.fill = fill, !.size = d.size + n]
      /\ fse' = Append(fse, entry) /\ Len(fse) < SeqEntries
      /\ IF done + n < Len(buf)
         THEN done' = done + n /\ UNCHANGED <<buf, pc>>
         ELSE done' = 0 /\ buf' = <<>> /\ pc' = "idle"
      /\ pc = "fsync"
  BY DEF FsyncChunk, TurnBlocks, TurnFd, TurnBytes
<1>2. /\ d \in [block : Nat, fill : Fills, off : Nat, size : Nat, offset : Nat]
      /\ d.size = fd.size /\ d.offset = fd.offset /\ d.off <= MaxBytes
      /\ blocks \in Seq([Pages -> Seq(Bytes)]) /\ Len(data) <= Len(blocks)
      /\ d.block \in 1 .. Len(blocks) /\ d.fill < Capacity
      /\ \A p \in Pages : p * PageSize >= d.fill => blocks[d.block][p] = <<>>
      /\ \E k \in 0 .. DataPages : d.fill = k * PageSize
  BY <1>1, TurnFacts
<1>3. PICK k \in 0 .. DataPages : d.fill = k * PageSize
  BY <1>2
<1> HIDE DEF blocks, d, fill, w, entry
<1>4. /\ n \in Nat \ {0} /\ n <= Count /\ n <= Capacity - d.fill
      /\ Count = Len(buf) - done /\ n = (IF Count <= Capacity - d.fill THEN Count
                                        ELSE Capacity - d.fill)
  BY <1>1, TurnFacts DEF blocks, d
<1> HIDE DEF n
<1>5. ChunkOf(n) \in Seq(Bytes) /\ Len(ChunkOf(n)) = n
  BY <1>1, TurnFacts DEF n
<1>6. /\ w \in [Pages -> Seq(Bytes)]
      /\ \A p \in Pages : p >= k + PagesFor(n) => w[p] = blocks[d.block][p]
  <2> DEFINE block == blocks[d.block]
             s == ChunkOf(n)
  <2>1. block \in [Pages -> Seq(Bytes)]
    BY <1>2, ElementOfSeq
  <2>2. s # <<>> /\ Len(s) <= Capacity - k * PageSize /\ s \in Seq(Bytes) /\ Len(s) = n
    BY <1>3, <1>4, <1>5
  <2>3. w = WriteData(block, k * PageSize, s)
    BY <1>3 DEF w
  <2> HIDE DEF block, s
  <2>4. /\ WriteData(block, k * PageSize, s) \in [Pages -> Seq(Bytes)]
        /\ \A p \in Pages : p >= k + PagesFor(Len(s)) =>
              WriteData(block, k * PageSize, s)[p] = block[p]
    BY <2>1, <2>2, Written
  <2>5. \A p \in Pages : p >= k + PagesFor(n) => w[p] = block[p]
    BY <2>2, <2>3, <2>4
  <2> QED
    BY <2>3, <2>4, <2>5 DEF block
<1>7. /\ k + PagesFor(n) \in 1 .. DataPages
      /\ fill = (k + PagesFor(n)) * PageSize /\ fill \in 1 .. Capacity
  BY <1>3, <1>4, FilledPages DEF fill
<1>8. /\ data' \in Seq([Pages -> Seq(Bytes)]) /\ Len(data') = Len(blocks)
      /\ data'[d.block] = w
  BY <1>1, <1>2, <1>6
<1>9. /\ fd' \in [block : Nat, fill : Fills, off : Nat, size : Nat, offset : Nat]
      /\ fd'.block = d.block /\ fd'.fill = fill /\ fd'.off = d.off
      /\ fd'.size = fd.size + n /\ fd'.offset = fd.offset
  <2>1. fill \in Fills /\ d.size + n \in Nat
    <3>1. fill \in Fills
      BY <1>7, Constants DEF Fills
    <3>2. d.size \in Nat
      BY <1>2
    <3> QED
      BY <1>4, <3>1, <3>2
  <2>2. fd' = [block |-> d.block, fill |-> fill, off |-> d.off, size |-> d.size + n,
               offset |-> d.offset]
    BY <1>1, <1>2, <2>1, Descriptor
  <2> QED
    BY <1>2, <2>1, <2>2
<1>10. /\ entry \in [block : Nat \ {0}, fill : Nat \ {0}, off : Nat]
       /\ entry.block = d.block /\ entry.fill = fill /\ entry.off = d.off
  BY <1>2, <1>7, Constants DEF entry
<1>11. /\ buf' \in Seq(Bytes) /\ Len(buf') <= Capacity
       /\ done' \in Nat /\ done' <= Len(buf') /\ Count' = Count - n
  <2>1. CASE done + n < Len(buf)
    BY <1>1, <1>4, <2>1, CountType DEF IInv, Shape, Count
  <2>2. CASE ~(done + n < Len(buf))
    <3>1. done' = 0 /\ buf' = <<>> /\ Count = n
      BY <1>1, <1>4, <2>2, CountType
    <3> QED
      BY <1>4, <3>1, Constants DEF Count
  <2> QED
    BY <2>1, <2>2
<1>12. Shape'
  <2>1. fse' \in Seq([block : Nat \ {0}, fill : Nat \ {0}, off : Nat])
    BY <1>1, <1>10, AppendProperties DEF IInv, Shape
  <2>2. pc' \in {"idle", "fsync", "aborted"}
    BY <1>1
  <2> QED
    BY <1>8, <1>9, <1>11, <2>1, <2>2 DEF Shape
<1>13. Bounds'
  <2> DEFINE E == [block : Nat \ {0}, fill : Nat \ {0}, off : Nat]
  <2>0. fse \in Seq(E) /\ entry \in E /\ fse' = Append(fse, entry)
    BY <1>1, <1>10 DEF IInv, Shape
  <2>1. /\ Len(fse) \in Nat /\ Len(fse') = Len(fse) + 1 /\ fse'[Len(fse) + 1] = entry
        /\ DOMAIN fse' = 1 .. Len(fse) + 1 /\ DOMAIN fse = 1 .. Len(fse)
        /\ \A i \in 1 .. Len(fse) : fse'[i] = fse[i] /\ fse[i] \in E
    <3> HIDE DEF E
    <3>1. Len(fse) \in Nat /\ DOMAIN fse = 1 .. Len(fse) /\ fse' \in Seq(E)
      BY <2>0
    <3>2. Len(fse') = Len(fse) + 1 /\ DOMAIN fse' = 1 .. Len(fse')
      BY <2>0, <3>1, AppendProperties, LenProperties
    <3>3. fse'[Len(fse) + 1] = entry /\ \A i \in 1 .. Len(fse) : fse'[i] = fse[i]
      BY <2>0, <3>1, AppendProperties
    <3> QED
      BY <2>0, <3>1, <3>2, <3>3, ElementOfSeq
  <2>2. ASSUME NEW i \in DOMAIN fse'
        PROVE  fse'[i].block <= Len(data') /\ fse'[i].fill <= Capacity /\ fse'[i].off <= MaxBytes
    <3>1. CASE i = Len(fse) + 1
      BY <1>2, <1>7, <1>8, <1>10, <2>1, <3>1
    <3>2. CASE i \in 1 .. Len(fse)
      <4>1. i \in DOMAIN fse /\ fse[i].block \in Nat
        BY <2>1, <3>2
      <4>2. Len(data) \in Nat /\ Len(data') \in Nat /\ Len(data) <= Len(data')
        BY <1>2, <1>8 DEF IInv, Shape
      <4> QED
        BY <2>1, <4>1, <4>2 DEF IInv, Bounds
    <3> QED
      BY <2>1, <2>2, <3>1, <3>2
  <2>3. Len(fse') <= SeqEntries
    BY <1>1, <2>1, Constants
  <2>4. fd'.block <= Len(data') /\ fd'.off <= MaxBytes
    BY <1>2, <1>8, <1>9
  <2>5. fd.size \in Nat /\ fd.offset \in Nat /\ Count \in Nat
    BY CountType DEF IInv, Shape
  <2>6. fd'.size + Count' <= MaxBytes /\ fd'.offset <= MaxBytes + fd'.size + Count'
    <3>1. fd.size + Count <= MaxBytes /\ fd.offset <= MaxBytes + fd.size + Count
      BY DEF IInv, Bounds
    <3>2. fd'.size = fd.size + n /\ fd'.offset = fd.offset /\ Count' = Count - n
          /\ n \in Nat
      BY <1>4, <1>9, <1>11
    <3> QED
      BY <2>5, <3>1, <3>2, Constants
  <2> QED
    BY <1>11, <2>2, <2>3, <2>4, <2>6 DEF Bounds
<1>14. InCall'
  <2>1. fd'.block \in Nat /\ fd'.block # NoBlock
    BY <1>2, <1>9 DEF NoBlock
  <2>2. done' < Len(buf') \/ (pc' = "idle" /\ done' = 0)
    BY <1>1
  <2>3. pc' = "fsync" \/ done' = 0
    BY <1>1
  <2>4. pc' = "fsync" => done' < Len(buf')
    BY <2>2
  <2> QED
    BY <2>1, <2>3, <2>4 DEF InCall
<1>15. PageAligned'
  BY <1>7, <1>9 DEF PageAligned
<1>16. BlankBehind'
  <2> SUFFICES ASSUME NEW p \in Pages, p * PageSize >= fd'.fill
               PROVE  data'[fd'.block][p] = <<>>
    BY DEF BlankBehind
  <2>1. p \in Nat
    BY DEF Pages
  <2>2. p >= k + PagesFor(n) /\ p >= k
    <3>1. k + PagesFor(n) \in Nat /\ PagesFor(n) \in Nat /\ k \in Nat
      BY <1>3, <1>4, PagesFit
    <3>2. PageSize * p >= PageSize * (k + PagesFor(n))
      BY <1>7, <1>9, <2>1, <3>1, Scale
    <3>3. p >= k + PagesFor(n)
      BY <2>1, <3>1, <3>2, Scale
    <3> QED
      BY <2>1, <3>1, <3>3
  <2>3. p * PageSize >= d.fill
    BY <1>3, <2>1, <2>2, Scale
  <2> QED
    BY <1>2, <1>6, <1>8, <1>9, <2>2, <2>3
<1> QED
  BY <1>12, <1>13, <1>14, <1>15, <1>16 DEF IInv

\* A step that changes no more than the offset, and the call's state from idle to
\* idle or to an assertion that failed, keeps the invariant.
LEMMA OffsetKeeps ==
    ASSUME IInv, NEW offset \in Nat, offset <= MaxBytes + fd.size + Count,
           fd' = [fd EXCEPT !.offset = offset], UNCHANGED <<data, fse, buf, done>>,
           pc = "idle", pc' \in {"idle", "aborted"}
    PROVE  IInv'
<1>1. fd \in [block : Nat, fill : Fills, off : Nat, size : Nat, offset : Nat]
  BY DEF IInv, Shape
<1>2. fd' = [block |-> fd.block, fill |-> fd.fill, off |-> fd.off, size |-> fd.size,
             offset |-> offset]
  BY <1>1, Descriptor
<1>3. /\ fd'.block = fd.block /\ fd'.fill = fd.fill /\ fd'.off = fd.off
      /\ fd'.size = fd.size /\ fd'.offset = offset
      /\ fd' \in [block : Nat, fill : Fills, off : Nat, size : Nat, offset : Nat]
  BY <1>1, <1>2
<1>4. Shape'
  BY <1>3 DEF IInv, Shape
<1>5. Count' = Count
  BY DEF Count
<1>6. Bounds'
  BY <1>3, <1>5 DEF IInv, Bounds
<1>7. InCall' /\ PageAligned' /\ BlankBehind'
  BY <1>3 DEF IInv, InCall, PageAligned, BlankBehind
<1> QED
  BY <1>4, <1>6, <1>7 DEF IInv

LEMMA LseekKeeps ==
    ASSUME IInv, NEW whence \in {"SET", "CUR", "END"}, NEW delta \in -MaxBytes .. MaxBytes,
           Lseek(whence, delta)
    PROVE  IInv'
<1> DEFINE base == CASE whence = "SET" -> 0
                     [] whence = "CUR" -> fd.offset
                     [] whence = "END" -> fd.size + Count
<1>1. /\ base + delta \in 0 .. MaxBytes /\ fd' = [fd EXCEPT !.offset = base + delta]
      /\ UNCHANGED <<data, fse, buf, done, pc>> /\ pc = "idle"
  BY DEF Lseek
<1> HIDE DEF base
<1>2. fd.size \in Nat /\ Count \in Nat
  BY CountType DEF IInv, Shape
<1>3. base + delta \in Nat /\ base + delta <= MaxBytes + fd.size + Count
  BY <1>1, <1>2, Constants
<1> DEFINE offset == base + delta
<1>4. offset \in Nat /\ offset <= MaxBytes + fd.size + Count
      /\ fd' = [fd EXCEPT !.offset = offset]
  BY <1>1, <1>3
<1> HIDE DEF offset
<1> QED
  BY <1>1, <1>4, OffsetKeeps

LEMMA ReadKeeps ==
    ASSUME IInv, NEW n \in 1 .. MaxBytes, Read(n)
    PROVE  IInv'
<1>1. fd.size \in Nat /\ Count \in Nat /\ fd.offset \in Nat /\ n \in Nat
  BY CountType DEF IInv, Shape
<1>2. pc = "idle" /\ UNCHANGED <<data, fse, buf, done>>
  BY DEF Read
<1>3. CASE /\ ReadAt(fd.offset, n).is = "bytes"
           /\ fd' = [fd EXCEPT !.offset = fd.offset + n] /\ pc' = pc
  <2>1. ~(fd.offset + n > fd.size + Count)
    BY <1>3 DEF ReadAt, ReadError
  <2> DEFINE offset == fd.offset + n
  <2>2. offset \in Nat /\ offset <= MaxBytes + fd.size + Count
        /\ fd' = [fd EXCEPT !.offset = offset] /\ pc' \in {"idle", "aborted"}
    BY <1>1, <1>2, <1>3, <2>1, Constants
  <2> HIDE DEF offset
  <2> QED
    BY <1>2, <2>2, OffsetKeeps
<1>4. CASE pc' = "aborted" /\ UNCHANGED fd
  BY <1>2, <1>4 DEF IInv, Shape, Bounds, InCall, PageAligned, BlankBehind, Count
<1> QED
  BY <1>3, <1>4 DEF Read

LEMMA Inductive == IInv /\ [Next]_vars => IInv'
<1> SUFFICES ASSUME IInv, [Next]_vars  PROVE IInv'
  OBVIOUS
<1>1. ASSUME NEW n \in 1 .. Capacity, Write(n)  PROVE IInv'
  BY <1>1, WriteKeeps
<1>2. ASSUME Fsync  PROVE IInv'
  BY <1>2, FsyncKeeps
<1>3. ASSUME FsyncChunk  PROVE IInv'
  BY <1>3, FsyncChunkKeeps
<1>4. ASSUME NEW whence \in {"SET", "CUR", "END"}, NEW delta \in -MaxBytes .. MaxBytes,
             Lseek(whence, delta)
      PROVE  IInv'
  BY <1>4, LseekKeeps
<1>5. ASSUME NEW n \in 1 .. MaxBytes, Read(n)  PROVE IInv'
  BY <1>5, ReadKeeps
<1>6. CASE UNCHANGED vars
  BY <1>6 DEF vars, IInv, Shape, Bounds, InCall, PageAligned, BlankBehind, Count
<1> QED
  BY <1>1, <1>2, <1>3, <1>4, <1>5, <1>6 DEF Next

-----------------------------------------------------------------------------
(***************************************************************************)
(* What follows from it.                                                   *)
(***************************************************************************)

\* The variables of R2F2Layout have their types, for every page and block size: no fill
\* level is beyond its block, and the block buffer never holds more than a block.
THEOREM LayoutType == Spec => []TypeOK
<1>1. IInv => TypeOK
  <2> SUFFICES ASSUME IInv  PROVE TypeOK
    OBVIOUS
  <2> DEFINE E == [block : Nat \ {0}, fill : Nat \ {0}, off : Nat]
  <2>1. ASSUME NEW i \in DOMAIN fse
        PROVE  /\ fse[i].block \in 1 .. Len(data) /\ fse[i].fill \in 1 .. Capacity
               /\ fse[i].off \in 0 .. MaxBytes
    <3>1. fse \in Seq(E) /\ Len(data) \in Nat
      BY DEF IInv, Shape
    <3> HIDE DEF E
    <3>2. fse[i] \in E
      BY <3>1, AtIndex
    <3> USE DEF E
    <3>3. fse[i].block \in Nat \ {0} /\ fse[i].fill \in Nat \ {0} /\ fse[i].off \in Nat
      BY <3>2
    <3>4. fse[i].block <= Len(data) /\ fse[i].fill <= Capacity /\ fse[i].off <= MaxBytes
      BY DEF IInv, Bounds
    <3>5. Capacity \in Nat /\ MaxBytes \in Nat
      BY Constants
    <3> QED
      BY <3>1, <3>3, <3>4, <3>5
  <2>2. fd \in [block : 0 .. Len(data), fill : 0 .. Capacity, off : 0 .. MaxBytes,
                size : 0 .. MaxBytes, offset : 0 .. 2 * MaxBytes]
    <3>1. /\ fd \in [block : Nat, fill : Fills, off : Nat, size : Nat, offset : Nat]
          /\ Len(data) \in Nat
      BY DEF IInv, Shape
    <3>2. /\ fd.block \in 0 .. Len(data) /\ fd.off \in 0 .. MaxBytes
          /\ fd.fill \in 0 .. Capacity
      BY <3>1, Constants DEF IInv, Bounds, Fills
    <3>3. fd.size \in 0 .. MaxBytes /\ fd.offset \in 0 .. 2 * MaxBytes
      <4>1. fd.size \in Nat /\ fd.offset \in Nat /\ Count \in Nat
        BY <3>1, CountType
      <4>2. fd.size + Count <= MaxBytes /\ fd.offset <= MaxBytes + fd.size + Count
        BY DEF IInv, Bounds
      <4> QED
        BY <4>1, <4>2, Constants
    <3> QED
      BY <3>1, <3>2, <3>3
  <2>3. data \in Seq([Pages -> Seq(1 .. MaxBytes)]) /\ buf \in Seq(1 .. MaxBytes)
    BY DEF IInv, Shape, Bytes
  <2>4. Len(fse) <= SeqEntries /\ Len(buf) <= Capacity /\ done \in 0 .. Len(buf)
    BY CountType DEF IInv, Bounds
  <2>5. pc \in {"idle", "fsync", "aborted"}
    BY DEF IInv, Shape
  <2> QED
    BY <2>1, <2>2, <2>3, <2>4, <2>5 DEF TypeOK
<1> QED
  BY InitHolds, Inductive, <1>1, PTL DEF Spec

\* The assertions of r2f2_fsync and r2f2_write_data never fail, and no page of flash
\* is programmed twice, for every page and block size and every mix of writes.
THEOREM LayoutAssertions == Spec => []AssertionsHold
<1>1. IInv => AssertionsHold
  <2> SUFFICES ASSUME IInv, pc = "fsync"  PROVE AssertionsHold
    BY DEF AssertionsHold
  <2>1. PICK k \in 0 .. DataPages : fd.fill = k * PageSize
    BY DEF IInv, PageAligned
  <2> DEFINE fill == fd.fill % Capacity
             n == Min({Count, Capacity - fill})
  <2>2. fd.fill \in 0 .. Capacity
    BY DEF IInv, Shape, Fills
  <2>3. fill = (IF fd.fill = Capacity THEN 0 ELSE fd.fill)
    BY <2>2, Constants
  <2>4. fill % PageSize = 0
    <3>1. fd.fill % PageSize = 0 /\ 0 % PageSize = 0
      BY <2>1, PageOfFill, Constants
    <3> QED
      BY <2>3, <3>1
  <2>5. done + n <= Capacity
    <3>1. Count \in Nat /\ Count = Len(buf) - done /\ Len(buf) \in 0 .. Capacity /\ done \in Nat
      BY CountType DEF Count
    <3>2. fill \in Nat
      BY <2>2, <2>3
    <3> HIDE DEF fill
    <3>3. n <= Count /\ n \in Int
      BY <3>1, <3>2, Constants, MinOfTwo
    <3> QED
      BY <3>1, <3>3, Constants
  <2>6. ASSUME fd.fill < Capacity  PROVE data[fd.block][fd.fill \div PageSize] = <<>>
    <3>1. fd.fill \div PageSize = k
      BY <2>1, PageOfFill
    <3>2. k \in Pages
      <4>1. PageSize * k < PageSize * DataPages
        BY <2>1, <2>6, Scale, Constants
      <4> QED
        BY <2>1, <4>1, Scale, Constants DEF Pages
    <3>3. k * PageSize >= fd.fill
      BY <2>1, <2>2, Constants
    <3> QED
      BY <3>1, <3>2, <3>3 DEF IInv, InCall, BlankBehind
  <2> QED
    BY <2>4, <2>5, <2>6 DEF AssertionsHold
<1> QED
  BY InitHolds, Inductive, <1>1, PTL DEF Spec
=============================================================================
