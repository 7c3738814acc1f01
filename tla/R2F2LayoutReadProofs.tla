------------------------ MODULE R2F2LayoutReadProofs ------------------------
(***************************************************************************)
(* Theorems about reading: what r2f2_read returns of the bytes that the    *)
(* data blocks hold, for every page size, block size and number of         *)
(* sequence entries.                                                       *)
(***************************************************************************)
EXTENDS R2F2LayoutBytesProofs

-----------------------------------------------------------------------------
(***************************************************************************)
(* Joined sequences, in two parts.                                         *)
(***************************************************************************)
\* The first t of f are its first m, and then those of g.
Continues(f, m, g, n, t) ==
    m \in Nat /\ n \in Nat /\ t = m + n /\ \A i \in 1 .. n : g[i] = f[m + i]

LEMMA JoinedSplit ==
    ASSUME NEW S, NEW m, NEW n, NEW t, NEW f, NEW g, Continues(f, m, g, n, t),
           \A i \in 1 .. t : f[i] \in Seq(S)
    PROVE  Joined(f, t) = Joined(f, m) \o Joined(g, n)
<1>0. /\ m \in Nat /\ n \in Nat /\ t = m + n /\ \A i \in 1 .. n : g[i] = f[m + i]
      /\ \A i \in 1 .. m + n : f[i] \in Seq(S)
  BY DEF Continues
<1> DEFINE first == Joined(f, m)
           T == {j \in 0 .. n : Joined(f, m + j) = first \o Joined(g, j)}
<1>1. first \in Seq(S) /\ \A i \in 1 .. n : g[i] \in Seq(S)
  <2>1. (\A i \in 1 .. m : f[i] \in Seq(S)) /\ \A i \in 1 .. n : m + i \in 1 .. m + n
    BY <1>0
  <2> QED
    BY <1>0, <2>1, JoinedType
<1> HIDE DEF first
<1>2. 0 \in T
  <2>1. Joined(g, 0) = <<>> /\ first \o <<>> = first
    BY <1>1, JoinedNone, ConcatEmptySeq
  <2>2. Joined(f, m + 0) = first /\ 0 \in 0 .. n
    BY <1>0 DEF first
  <2>3. Joined(f, m + 0) = first \o Joined(g, 0)
    BY <2>1, <2>2
  <2> QED
    BY <2>2, <2>3
<1>3. ASSUME NEW j \in 0 .. n - 1, j \in T PROVE j + 1 \in T
  <2> DEFINE k == m + j
  <2>1. /\ k \in Nat /\ j \in Nat /\ k + 1 = m + (j + 1) /\ j + 1 \in 0 .. n /\ j + 1 \in 1 .. n
        /\ \A i \in 1 .. k + 1 : f[i] \in Seq(S)
        /\ (\A i \in 1 .. j + 1 : g[i] \in Seq(S)) /\ \A i \in 1 .. j : g[i] \in Seq(S)
    BY <1>0, <1>1
  <2>2. Joined(f, k) = first \o Joined(g, j)
    BY <1>3
  <2>3. g[j + 1] = f[k + 1]
    BY <1>0, <2>1
  <2> HIDE DEF k
  <2>4. Joined(f, k + 1) = Joined(f, k) \o f[k + 1] /\ Joined(g, j + 1) = Joined(g, j) \o g[j + 1]
    BY <2>1, JoinedNext
  <2>5. Joined(g, j) \in Seq(S) /\ g[j + 1] \in Seq(S)
    BY <2>1, JoinedType
  <2> DEFINE s == Joined(g, j)
             x == g[j + 1]
  <2>6. (first \o s) \o x = first \o (s \o x)
    <3> HIDE DEF s, x
    <3>1. s \in Seq(S) /\ x \in Seq(S)
      BY <2>5 DEF s, x
    <3> QED
      BY <1>1, <3>1, ConcatAssociative
  <2>7. Joined(f, m + (j + 1)) = first \o Joined(g, j + 1)
    BY <2>1, <2>2, <2>3, <2>4, <2>6
  <2> QED
    BY <2>1, <2>7
<1> HIDE DEF T
<1>4. \A j \in 0 .. n : j \in T
  BY <1>0, <1>2, <1>3, Upwards
<1>5. n \in T
  BY <1>0, <1>4
<1> QED
  BY <1>0, <1>5 DEF T, first

\* The same, for a sequence of bytes
LEMMA SplitHere ==
    ASSUME NEW m, NEW n, NEW t, NEW f, NEW g, Continues(f, m, g, n, t),
           \A i \in 1 .. t : f[i] \in Seq(Bytes)
    PROVE  Joined(f, t) = Joined(f, m) \o Joined(g, n)
<1>1. PICK S : S = Bytes
  OBVIOUS
<1>2. \A i \in 1 .. t : f[i] \in Seq(S)
  BY <1>1
<1> QED
  BY <1>2, JoinedSplit

\* The more, the longer
LEMMA JoinedLonger ==
    ASSUME NEW S, NEW n \in Nat, NEW m \in 0 .. n, NEW f, \A i \in 1 .. n : f[i] \in Seq(S)
    PROVE  /\ Len(Joined(f, m)) \in Nat /\ Len(Joined(f, n)) \in Nat
           /\ Len(Joined(f, m)) <= Len(Joined(f, n))
<1> DEFINE k == n - m
           g == [i \in 1 .. k |-> f[m + i]]
<1>1. m \in Nat /\ k \in Nat /\ m + k = n /\ \A i \in 1 .. k : g[i] = f[m + i] /\ m + i \in 1 .. n
  OBVIOUS
<1>2. \A i \in 1 .. k : g[i] \in Seq(S)
  BY <1>1
<1> HIDE DEF k, g
<1>3. Joined(f, n) = Joined(f, m) \o Joined(g, k)
  <2>1. Continues(f, m, g, k, n)
    BY <1>1 DEF Continues
  <2> QED
    BY <2>1, JoinedSplit
<1>4. Joined(f, m) \in Seq(S) /\ Joined(g, k) \in Seq(S) /\ Joined(f, n) \in Seq(S)
  <2>1. \A i \in 1 .. m : f[i] \in Seq(S)
    OBVIOUS
  <2> QED
    BY <1>1, <1>2, <2>1, JoinedType
<1>5. Len(Joined(f, m) \o Joined(g, k)) = Len(Joined(f, m)) + Len(Joined(g, k))
  BY <1>4, ConcatProperties
<1>6. Len(Joined(f, m)) \in Nat /\ Len(Joined(g, k)) \in Nat
  BY <1>4, LenProperties
<1>7. Len(Joined(f, n)) = Len(Joined(f, m)) + Len(Joined(g, k))
  BY <1>1, <1>3, <1>5
<1> QED
  BY <1>6, <1>7

\* Sequences of one length
LEMMA JoinedEven ==
    ASSUME NEW S, NEW n \in Nat, NEW l \in Nat, NEW f,
           \A i \in 1 .. n : f[i] \in Seq(S) /\ Len(f[i]) = l
    PROVE  Len(Joined(f, n)) = n * l
<1> DEFINE T == {j \in 0 .. n : Len(Joined(f, j)) = j * l}
<1>1. 0 \in T
  <2>1. Len(Joined(f, 0)) = 0
    BY JoinedNone, EmptySeq
  <2> QED
    BY <2>1
<1>2. ASSUME NEW j \in 0 .. n - 1, j \in T PROVE j + 1 \in T
  <2>1. j \in Nat /\ j + 1 \in 1 .. n /\ j + 1 \in 0 .. n
        /\ (\A i \in 1 .. j + 1 : f[i] \in Seq(S)) /\ \A i \in 1 .. j : f[i] \in Seq(S)
    OBVIOUS
  <2>2. Joined(f, j + 1) = Joined(f, j) \o f[j + 1] /\ Joined(f, j) \in Seq(S) /\ f[j + 1] \in Seq(S)
    BY <2>1, JoinedNext, JoinedType
  <2>3. Len(Joined(f, j) \o f[j + 1]) = Len(Joined(f, j)) + Len(f[j + 1])
    BY <2>2, ConcatProperties
  <2>4. Len(Joined(f, j)) = j * l /\ Len(f[j + 1]) = l
    BY <1>2, <2>1
  <2>5. (j + 1) * l = j * l + l /\ j * l \in Nat
    BY <2>1
  <2>6. Len(Joined(f, j + 1)) = (j + 1) * l
    BY <2>2, <2>3, <2>4, <2>5
  <2> QED
    BY <2>1, <2>6
<1> HIDE DEF T
<1>3. n \in 0 .. n /\ \A j \in 0 .. n : j \in T
  BY <1>1, <1>2, Upwards
<1>4. n \in T
  BY <1>3
<1> QED
  BY <1>4 DEF T

-----------------------------------------------------------------------------
(***************************************************************************)
(* r2f2_read_data, in terms of the bytes of the block: it finds the chunk, *)
(* whatever the lengths of the chunks are.                                 *)
(***************************************************************************)
\* No page without a chunk is before one that has one.
InOrder(block) == \A p \in Pages : block[p] # <<>> => \A q \in 0 .. p : block[q] # <<>>

LEMMA FirstPages ==
    ASSUME NEW block \in Blocks, NEW p \in 0 .. DataPages
    PROVE  /\ FlattenSeq([i \in 1 .. p |-> block[i - 1]]) = Joined(Chunks(block), p)
           /\ Joined(Chunks(block), p) \in Seq(Bytes)
           /\ Len(Joined(Chunks(block), p)) \in Nat
           /\ Len(Joined(Chunks(block), p)) <= Len(BytesOf(block))
           /\ p < DataPages =>
                 Len(Joined(Chunks(block), p + 1)) = Len(Joined(Chunks(block), p)) + Len(block[p])
<1> DEFINE f == Chunks(block)
<1>1. /\ p \in Nat /\ DataPages \in Nat
      /\ \A i \in 1 .. DataPages : f[i] = block[i - 1] /\ f[i] \in Seq(Bytes)
      /\ BytesOf(block) = Joined(f, DataPages)
  BY Constants, ChunksType
<1> HIDE DEF f
<1>2. \A i \in 1 .. p : i \in 1 .. DataPages
  BY <1>1
<1>3. FlattenSeq([i \in 1 .. p |-> block[i - 1]]) = Joined(f, p)
  <2>1. [i \in 1 .. p |-> block[i - 1]] = [i \in 1 .. p |-> f[i]]
    BY <1>1, <1>2
  <2> QED
    BY <2>1 DEF Joined
<1>4. Joined(f, p) \in Seq(Bytes)
  BY <1>1, <1>2, JoinedType
<1>5. Len(Joined(f, p)) \in Nat /\ Len(Joined(f, p)) <= Len(BytesOf(block))
  BY <1>1, JoinedLonger
<1>6. ASSUME p < DataPages PROVE Len(Joined(f, p + 1)) = Len(Joined(f, p)) + Len(block[p])
  <2>1. p + 1 \in 1 .. DataPages /\ (p + 1) - 1 = p /\ \A i \in 1 .. p + 1 : i \in 1 .. DataPages
    BY <1>1, <1>6
  <2>2. Joined(f, p + 1) = Joined(f, p) \o f[p + 1]
    BY <1>1, <2>1, JoinedNext
  <2>3. f[p + 1] = block[p] /\ f[p + 1] \in Seq(Bytes)
    BY <1>1, <2>1
  <2>4. Len(Joined(f, p) \o f[p + 1]) = Len(Joined(f, p)) + Len(f[p + 1])
    BY <1>4, <2>3, ConcatProperties
  <2> QED
    BY <2>2, <2>3, <2>4
<1> QED
  BY <1>3, <1>4, <1>5, <1>6 DEF f

\* There is one page whose chunk has the offset.
LEMMA ChunkFound ==
    ASSUME NEW block \in Blocks, InOrder(block), NEW off \in Nat, off < Len(BytesOf(block))
    PROVE  \E p \in Pages :
              /\ Len(Joined(Chunks(block), p)) <= off
              /\ ChunkAt(block, off) = [page |-> p, off |-> off - Len(Joined(Chunks(block), p))]
<1> DEFINE L(p) == Len(Joined(Chunks(block), p))
           ChunkOff(p) == Len(FlattenSeq([i \in 1 .. p |-> block[i - 1]]))
           W == {p \in Pages : \A q \in 0 .. p : block[q] # <<>>}
           at == {p \in W : ChunkOff(p) <= off /\ off < ChunkOff(p) + Len(block[p])}
<1>1. /\ \A p \in 0 .. DataPages : ChunkOff(p) = L(p) /\ L(p) \in Nat
      /\ \A p \in Pages : L(p + 1) = L(p) + Len(block[p])
      /\ L(DataPages) = Len(BytesOf(block)) /\ L(0) = 0
  <2>1. \A p \in 0 .. DataPages : ChunkOff(p) = L(p) /\ L(p) \in Nat
    BY FirstPages
  <2>2. \A p \in Pages : p \in 0 .. DataPages /\ p < DataPages
    BY Constants DEF Pages
  <2>3. \A p \in Pages : L(p + 1) = L(p) + Len(block[p])
    BY <2>2, FirstPages
  <2>4. L(0) = 0
    BY JoinedNone, EmptySeq
  <2> QED
    BY <2>1, <2>3, <2>4, ChunksType
<1>2. \A p, q \in 0 .. DataPages : p <= q => L(p) <= L(q)
  <2> SUFFICES ASSUME NEW p \in 0 .. DataPages, NEW q \in 0 .. DataPages, p <= q
               PROVE  L(p) <= L(q)
    OBVIOUS
  <2>1. q \in Nat /\ p \in 0 .. q /\ \A i \in 1 .. q : i \in 1 .. DataPages
    BY Constants
  <2>2. \A i \in 1 .. q : Chunks(block)[i] \in Seq(Bytes)
    BY <2>1, ChunksType
  <2> QED
    BY <2>1, <2>2, JoinedLonger
<1>3. ChunkAt(block, off) = IF at = {} THEN [page |-> 0, off |-> 0]
                            ELSE [page |-> Max(at), off |-> off - ChunkOff(Max(at))]
  BY DEF ChunkAt
<1> HIDE DEF L, ChunkOff
<1>4. PICK p \in Pages : L(p) <= off /\ off < L(p + 1)
  <2> DEFINE after == {j \in 1 .. DataPages : off < L(j)}
  <2>1. DataPages \in after /\ after \subseteq Nat
    BY <1>1, Constants
  <2> HIDE DEF after
  <2>2. PICK m \in after : \A j \in after : m <= j
    BY <2>1, LeastElement
  <2>3. m \in 1 .. DataPages /\ off < L(m)
    BY DEF after
  <2>4. m - 1 \in Pages /\ m - 1 \in 0 .. DataPages /\ (m - 1) + 1 = m /\ m - 1 \notin after
    BY <2>2, <2>3, Constants DEF Pages
  <2>5. L(m - 1) <= off
    <3>1. CASE m = 1
      BY <1>1, <3>1
    <3>2. CASE m # 1
      <4>1. m - 1 \in 1 .. DataPages
        BY <2>3, <3>2, Constants
      <4>2. ~(off < L(m - 1)) /\ L(m - 1) \in Nat
        BY <1>1, <2>4, <4>1 DEF after
      <4> QED
        BY <4>2
    <3> QED
      BY <3>1, <3>2
  <2> QED
    BY <2>3, <2>4, <2>5
<1>5. p \in W
  <2>1. L(p) \in Nat /\ L(p + 1) = L(p) + Len(block[p])
    BY <1>1, Constants DEF Pages
  <2>2. Len(block[p]) # 0
    BY <1>4, <2>1
  <2>3. block[p] # <<>>
    BY <2>2, EmptySeq
  <2> QED
    BY <2>3 DEF InOrder
<1>6. at = {p}
  <2>1. p \in at
    <3>1. p \in 0 .. DataPages
      BY Constants DEF Pages
    <3> QED
      BY <1>1, <1>4, <1>5, <3>1
  <2>2. ASSUME NEW q \in at PROVE q = p
    <3>1. /\ p \in 0 .. DataPages /\ p + 1 \in 0 .. DataPages
          /\ q \in 0 .. DataPages /\ q + 1 \in 0 .. DataPages /\ q \in Pages
      BY Constants DEF Pages
    <3>2. L(q) <= off /\ off < L(q + 1)
      BY <1>1, <3>1
    <3>3. /\ L(p) \in Nat /\ L(q) \in Nat /\ L(p + 1) \in Nat /\ L(q + 1) \in Nat
          /\ p + 1 <= q => L(p + 1) <= L(q)
          /\ q + 1 <= p => L(q + 1) <= L(p)
      BY <1>1, <1>2, <3>1
    <3>4. ~(p + 1 <= q) /\ ~(q + 1 <= p)
      BY <1>4, <3>2, <3>3
    <3> QED
      BY <3>1, <3>4
  <2> QED
    BY <2>1, <2>2
<1>7. Max({p}) = p
  BY DEF Max, Pages
<1>8. ChunkOff(p) = L(p)
  BY <1>1, Constants DEF Pages
<1> HIDE DEF at
<1>9. ChunkAt(block, off) = [page |-> p, off |-> off - L(p)]
  BY <1>3, <1>6, <1>7, <1>8
<1> QED
  BY <1>4, <1>9 DEF L

LEMMA ReadDataIs ==
    ASSUME NEW block \in Blocks, InOrder(block), NEW off \in Nat, off < Len(BytesOf(block)),
           NEW n \in Nat \ {0}
    PROVE  ReadData(block, off, n) =
              IF off + n <= Len(BytesOf(block))
              THEN [is |-> "bytes", bytes |-> SubSeq(BytesOf(block), off + 1, off + n)]
              ELSE [is |-> "aborted", bytes |-> <<>>]
<1> DEFINE f == Chunks(block)
<1>1. PICK p \in Pages :
         /\ Len(Joined(f, p)) <= off
         /\ ChunkAt(block, off) = [page |-> p, off |-> off - Len(Joined(f, p))]
  BY ChunkFound
<1> DEFINE m == DataPages - p
           g == [i \in 1 .. m |-> block[p + i - 1]]
           after == FlattenSeq(g)
           first == Joined(f, p)
           o == off - Len(first)
<1>2. m \in Nat /\ p \in Nat /\ p + m = DataPages /\ p \in 0 .. DataPages
  BY Constants DEF Pages
<1>3. \A i \in 1 .. DataPages : f[i] = block[i - 1] /\ f[i] \in Seq(Bytes)
  BY ChunksType
<1>4. \A i \in 1 .. m : g[i] = f[p + i] /\ g[i] \in Seq(Bytes)
  <2>1. ASSUME NEW i \in 1 .. m PROVE g[i] = f[p + i] /\ g[i] \in Seq(Bytes)
    <3>1. p + i \in 1 .. DataPages /\ (p + i) - 1 = p + i - 1
      BY <1>2
    <3> QED
      BY <1>3, <3>1
  <2> QED
    BY <2>1
<1>5. after = Joined(g, m)
  <2>1. g = [i \in 1 .. m |-> g[i]]
    OBVIOUS
  <2> HIDE DEF g, m
  <2> QED
    BY <2>1 DEF Joined
<1>6. ReadData(block, off, n) =
         IF o + n <= Len(after)
         THEN [is |-> "bytes", bytes |-> SubSeq(after, o + 1, o + n)]
         ELSE [is |-> "aborted", bytes |-> <<>>]
  BY <1>1 DEF ReadData
<1>7. BytesOf(block) = Joined(f, DataPages) /\ first \in Seq(Bytes)
  BY <1>2, ChunksType, FirstPages
<1> HIDE DEF f, g, m, after, first
<1>8. BytesOf(block) = first \o after
  <2>1. Joined(f, DataPages) = Joined(f, p) \o Joined(g, m)
    <3>1. Continues(f, p, g, m, DataPages)
      BY <1>2, <1>4 DEF Continues
    <3>2. \A i \in 1 .. DataPages : f[i] \in Seq(Bytes)
      BY <1>3
    <3> QED
      BY <3>1, <3>2, SplitHere
  <2> QED
    BY <1>5, <1>7, <2>1 DEF first
<1>9. after \in Seq(Bytes)
  BY <1>2, <1>4, <1>5, JoinedType
<1>10. Len(BytesOf(block)) = Len(first) + Len(after) /\ Len(first) \in Nat /\ Len(after) \in Nat
  <2>1. Len(first \o after) = Len(first) + Len(after)
    BY <1>7, <1>9, ConcatProperties
  <2> QED
    BY <1>7, <1>8, <1>9, <2>1, LenProperties
<1>11. Len(first) <= off
  BY <1>1 DEF first
<1>12. ASSUME off + n <= Len(BytesOf(block))
       PROVE  SubSeq(BytesOf(block), off + 1, off + n) = SubSeq(after, o + 1, o + n)
  <2> DEFINE a == off + 1
             b == off + n
  <2>1. a \in Len(first) + 1 .. Len(first) + Len(after)
        /\ b \in Len(first) + 1 .. Len(first) + Len(after)
        /\ a - Len(first) = o + 1 /\ b - Len(first) = o + n
    BY <1>10, <1>11, <1>12
  <2> HIDE DEF a, b
  <2>2. SubSeq(first \o after, a, b) = SubSeq(after, a - Len(first), b - Len(first))
    BY <1>7, <1>9, <2>1, SubSeqOfConcat2
  <2>3. SubSeq(first \o after, a, b) = SubSeq(after, o + 1, o + n)
    BY <2>1, <2>2
  <2> QED
    BY <1>8, <2>3 DEF a, b
<1>13. off + n <= Len(BytesOf(block)) <=> o + n <= Len(after)
  BY <1>10
<1> HIDE DEF o
<1> QED
  BY <1>6, <1>12, <1>13

-----------------------------------------------------------------------------
(***************************************************************************)
(* The inductive invariant: every page of a data block up to its end has a *)
(* chunk, and every byte of the file is found through an entry that is at  *)
(* or behind the one that the search begins at.                            *)
(***************************************************************************)
PagesWritten ==
    /\ fd.block = NoBlock => fd.fill = 0
    /\ \A b \in 1 .. Len(data), p \in Pages :
          b # fd.block \/ p * PageSize < fd.fill => data[b][p] # <<>>

Findable ==
    /\ fd.size <= Len(fse) * Capacity
    /\ fd.size - fd.off <= fd.fill
    /\ \A off \in 0 .. fd.size - 1 :
          \E j \in DOMAIN fse : off < j * Capacity /\ Covers(fse[j], off)

ReadInv == ContentInv /\ PagesWritten /\ Findable

LEMMA InitRead == Init => ReadInv
<1> SUFFICES ASSUME Init PROVE ReadInv
  OBVIOUS
<1>1. /\ ContentInv /\ data = <<>> /\ fse = <<>>
      /\ fd.block = NoBlock /\ fd.off = 0 /\ fd.size = 0 /\ fd.fill = 0
  BY InitContent DEF Init
<1>2. Len(data) = 0 /\ Len(fse) = 0
  BY <1>1
<1>3. PagesWritten
  BY <1>1, <1>2 DEF PagesWritten
<1>4. Findable
  BY <1>1, <1>2, Constants DEF Findable
<1> QED
  BY <1>1, <1>3, <1>4 DEF ReadInv

\* A step that stores nothing
LEMMA ReadUnchanged ==
    ASSUME ReadInv, ContentInv', UNCHANGED <<data, fse>>,
           fd'.block = fd.block, fd'.fill = fd.fill, fd'.off = fd.off, fd'.size = fd.size
    PROVE  ReadInv'
<1>1. PagesWritten'
  BY DEF ReadInv, PagesWritten
<1>2. Findable'
  BY DEF ReadInv, Findable, Covers
<1> QED
  BY <1>1, <1>2 DEF ReadInv

\* The first data block of a file
LEMMA FsyncRead == ASSUME ReadInv, Fsync, ContentInv' PROVE ReadInv'
<1>1. CASE fd.block # NoBlock
  <2>1. UNCHANGED <<data, fse, fd>>
    BY <1>1 DEF Fsync
  <2> QED
    BY <2>1, ReadUnchanged
<1>2. CASE fd.block = NoBlock
  <2>1. /\ fd'.block = Len(data) + 1 /\ fd'.fill = fd.fill /\ fd'.off = fd.off
        /\ fd'.size = fd.size /\ fse' = fse
    BY <1>2 DEF Fsync, ReadInv, ContentInv, IInv, Shape
  <2>2. Len(data) = 0 /\ fd.fill = 0
    BY <1>2 DEF ReadInv, ContentInv, Placed, PagesWritten, NoBlock
  <2>3. Len(data') = 1
    <3>1. data' = Append(data, BlankBlock) /\ data \in Seq(Blocks)
      BY <1>2, ContentIs DEF Fsync, ReadInv, ContentInv
    <3> QED
      BY <2>2, <3>1, BytesOfBlank, AppendProperties
  <2>4. PagesWritten'
    <3>1. \A p \in Pages : ~(p * PageSize < 0)
      BY Constants DEF Pages
    <3> QED
      BY <2>1, <2>2, <2>3, <3>1 DEF PagesWritten, NoBlock
  <2>5. Findable'
    BY <2>1 DEF ReadInv, Findable, Covers
  <2> QED
    BY <2>4, <2>5 DEF ReadInv
<1> QED
  BY <1>1, <1>2

\* The data block that a turn of the loop of r2f2_fsync writes to: the pages before its
\* fill level have chunks, and hold the end of the file.
LEMMA TurnPages ==
    ASSUME ReadInv, pc = "fsync"
    PROVE  /\ \A b \in 1 .. Len(TurnBlocks), p \in Pages :
                 b # TurnFd.block \/ p * PageSize < TurnFd.fill => TurnBlocks[b][p] # <<>>
           /\ TurnFd.off <= fd.size /\ fd.size - TurnFd.off <= TurnFd.fill
<1>1. /\ IInv /\ Len(data) \in Nat /\ fd.size \in Nat /\ fd.off \in Nat /\ fd.fill \in Nat
      /\ fd.block = Len(data)
  BY ContentIs, Constants DEF ReadInv, ContentInv, Placed, IInv, Shape, Fills
<1>2. /\ TurnFd.block = Len(TurnBlocks) /\ Len(TurnBlocks) \in Nat \ {0}
      /\ \A b \in 1 .. Len(data) : TurnBlocks[b] = data[b]
      /\ TurnFd.off <= Len(StoredBytes)
  <2>1. /\ TurnBlocks \in Seq(Blocks) /\ TurnFd.block = Len(TurnBlocks)
        /\ Len(TurnBlocks) \in Nat \ {0}
        /\ \A b \in 1 .. Len(data) : TurnBlocks[b] = data[b]
        /\ FirstBlocks(TurnBlocks, Len(TurnBlocks)) = StoredBytes
        /\ TurnFd.off = Len(FirstBlocks(TurnBlocks, Len(TurnBlocks) - 1))
    BY TurnPlaced DEF ReadInv
  <2> DEFINE m == Len(TurnBlocks) - 1
  <2>2. m \in 0 .. Len(TurnBlocks) /\ m < Len(TurnBlocks) /\ m + 1 = Len(TurnBlocks)
        /\ m + 1 \in 1 .. Len(TurnBlocks)
    BY <2>1
  <2> HIDE DEF m
  <2>3. /\ FirstBlocks(TurnBlocks, m) \in Seq(Bytes)
        /\ FirstBlocks(TurnBlocks, m + 1) = FirstBlocks(TurnBlocks, m) \o BytesOf(TurnBlocks[m + 1])
    BY <2>1, <2>2, FirstBlocksIs
  <2>4. BytesOf(TurnBlocks[m + 1]) \in Seq(Bytes)
    <3>1. TurnBlocks[m + 1] \in Blocks
      BY <2>1, <2>2, ElementOfSeq
    <3> QED
      BY <3>1, ChunksType
  <2> DEFINE s == FirstBlocks(TurnBlocks, m)
             t == BytesOf(TurnBlocks[m + 1])
  <2>5. s \in Seq(Bytes) /\ t \in Seq(Bytes) /\ StoredBytes = s \o t /\ TurnFd.off = Len(s)
    BY <2>1, <2>2, <2>3, <2>4 DEF m
  <2> HIDE DEF s, t
  <2>6. Len(s \o t) = Len(s) + Len(t) /\ Len(s) \in Nat /\ Len(t) \in Nat
    BY <2>5, ConcatProperties, LenProperties
  <2> QED
    BY <2>1, <2>5, <2>6
<1>3. Len(StoredBytes) = fd.size
  BY DEF ReadInv, ContentInv, NothingLostOrRepeated
<1>4. CASE fd.fill = Capacity
  <2>1. /\ TurnBlocks = Append(data, BlankBlock) /\ TurnFd = NextBlock(fd, Len(data) + 1)
    BY <1>4 DEF TurnBlocks, TurnFd
  <2>2. Len(TurnBlocks) = Len(data) + 1 /\ TurnFd.off = fd.size /\ TurnFd.fill = 0
    BY <1>1, <2>1, ContentIs, BytesOfBlank, AppendProperties DEF IInv, Shape, NextBlock
  <2>3. ASSUME NEW b \in 1 .. Len(TurnBlocks), NEW p \in Pages, b # TurnFd.block
        PROVE  TurnBlocks[b][p] # <<>>
    <3>1. b \in 1 .. Len(data)
      BY <1>1, <1>2, <2>2, <2>3
    <3>2. p * PageSize < fd.fill
      BY <1>4, Scale, Constants DEF Pages
    <3> QED
      BY <1>2, <3>1, <3>2 DEF ReadInv, PagesWritten
  <2>4. \A p \in Pages : ~(p * PageSize < 0)
    BY Constants DEF Pages
  <2> QED
    BY <1>1, <2>2, <2>3, <2>4
<1>5. CASE fd.fill # Capacity
  <2>1. TurnBlocks = data /\ TurnFd = fd
    BY <1>5 DEF TurnBlocks, TurnFd
  <2> QED
    BY <1>2, <1>3, <2>1 DEF ReadInv, PagesWritten, Findable
<1> QED
  BY <1>4, <1>5

\* The pages of a chunk have bytes.
LEMMA PageHasBytes ==
    ASSUME NEW s \in Seq(Bytes), s # <<>>, NEW j \in 0 .. PagesFor(Len(s)) - 1
    PROVE  PageOf(s, j) # <<>>
<1> DEFINE n == Len(s)
           from == j * PageSize + 1
           end == (j + 1) * PageSize
           to == Min({end, n})
<1>1. n \in Nat \ {0} /\ j \in Nat /\ j < PagesFor(n)
  <2>1. n \in Nat \ {0}
    BY EmptySeq, LenProperties
  <2>2. PagesFor(n) \in Int
    BY <2>1, Constants DEF PagesFor
  <2> HIDE DEF n
  <2>3. j \in 0 .. PagesFor(n) - 1
    BY DEF n
  <2> QED
    BY <2>1, <2>2, <2>3
<1>2. j * PageSize < n
  BY <1>1, PagesTight
<1>3. /\ j * PageSize \in Nat /\ end = j * PageSize + PageSize
  BY <1>1, Constants
<1>4. from \in Int /\ end \in Int /\ from <= end /\ from <= n
  BY <1>1, <1>2, <1>3, Constants
<1>5. to \in Int /\ from <= to /\ to <= n
  <2> HIDE DEF from, end, n
  <2>1. n \in Int
    BY <1>1
  <2>2. Min({end, n}) = IF end <= n THEN end ELSE n
    BY <1>4, <2>1, MinOfTwo
  <2> QED
    BY <1>4, <2>1, <2>2
<1>6. \A i \in from .. to : s[i] \in Bytes
  <2>1. \A i \in from .. to : i \in 1 .. Len(s)
    BY <1>1, <1>3, <1>5
  <2> HIDE DEF from, to
  <2> QED
    BY <2>1, ElementOfSeq
<1> HIDE DEF from, to
<1>7. Len(SubSeq(s, from, to)) = to - from + 1
  BY <1>4, <1>5, <1>6, SubSeqProperties
<1>8. SubSeq(s, from, to) # <<>>
  <2>1. Len(SubSeq(s, from, to)) # 0
    BY <1>4, <1>5, <1>7
  <2> QED
    BY <2>1, EmptySeq
<1> QED
  BY <1>8 DEF PageOf, from, to, end, n

\* A turn of the loop of r2f2_fsync: its chunk is found through its entry.
LEMMA FsyncChunkRead == ASSUME ReadInv, FsyncChunk, ContentInv' PROVE ReadInv'
<1> DEFINE blocks == TurnBlocks
           L == Len(TurnBlocks)
           n == TurnBytes
           chunk == ChunkOf(TurnBytes)
           fill == Filled(TurnFd.fill, n)
           w == WriteData(TurnBlocks[L], TurnFd.fill, chunk)
           entry == [block |-> L, fill |-> fill, off |-> TurnFd.off]
<1>1. ContentInv /\ IInv /\ pc = "fsync"
  BY DEF ReadInv, ContentInv, FsyncChunk
<1>2. /\ blocks \in Seq(Blocks) /\ TurnFd.block = L /\ L \in Nat \ {0}
      /\ \A b \in 1 .. L, p \in Pages :
            b # L \/ p * PageSize < TurnFd.fill => blocks[b][p] # <<>>
      /\ TurnFd.off <= fd.size /\ fd.size - TurnFd.off <= TurnFd.fill
  BY <1>1, TurnPlaced, TurnPages
<1>3. /\ TurnFd \in [block : Nat, fill : Fills, off : Nat, size : Nat, offset : Nat]
      /\ TurnFd.size = fd.size
      /\ \E k \in 0 .. DataPages : TurnFd.fill = k * PageSize
      /\ n \in Nat \ {0} /\ n <= Capacity - TurnFd.fill
      /\ chunk \in Seq(Bytes) /\ Len(chunk) = n
  BY <1>1, TurnFacts
<1>4. /\ data' = [blocks EXCEPT ![L] = w]
      /\ fd' = [TurnFd EXCEPT !.fill = fill, !.size = TurnFd.size + n]
      /\ fse' = Append(fse, entry)
  BY <1>2 DEF FsyncChunk, TurnBlocks, TurnFd, TurnBytes
<1>5. PICK k \in 0 .. DataPages : TurnFd.fill = k * PageSize
  BY <1>3
<1> DEFINE m == PagesFor(n)
<1>6. /\ m \in 1 .. DataPages - k /\ n <= m * PageSize
      /\ fill = (k + m) * PageSize /\ fill = k * PageSize + m * PageSize
      /\ fill \in 1 .. Capacity
  <2> HIDE DEF n, fill
  <2>1. m \in 1 .. DataPages - k /\ n <= m * PageSize
    BY <1>3, <1>5, PagesFit
  <2>2. Filled(k * PageSize, n) = (k + m) * PageSize /\ Filled(k * PageSize, n) \in 1 .. Capacity
    BY <1>3, <1>5, FilledPages
  <2>3. (k + m) * PageSize = k * PageSize + m * PageSize
    BY <2>1, Constants
  <2> QED
    BY <1>5, <2>1, <2>2, <2>3 DEF fill
<1> HIDE DEF blocks, L, n, chunk, fill, w, entry, m
<1>7. /\ fd'.block = L /\ fd'.off = TurnFd.off /\ fd'.size = fd.size + n /\ fd'.fill = fill
      /\ entry.block = L /\ entry.off = TurnFd.off /\ entry.fill = fill
  BY <1>2, <1>3, <1>4 DEF entry
<1>8. w = WriteData(blocks[L], k * PageSize, chunk) /\ blocks[L] \in Blocks /\ chunk # <<>>
  <2>1. L \in 1 .. Len(blocks) /\ Len(blocks) = L
    BY <1>2 DEF L, blocks
  <2>2. blocks[L] \in Blocks
    BY <1>2, <2>1, ElementOfSeq
  <2> QED
    BY <1>3, <1>5, <2>2 DEF w, blocks
<1>9. /\ Len(data') = L /\ data'[L] = w /\ \A b \in 1 .. L - 1 : data'[b] = blocks[b]
  <2>1. L \in 1 .. Len(blocks) /\ Len(blocks) = L
    BY <1>2 DEF L, blocks
  <2>2. w \in Blocks
    BY <1>3, <1>5, <1>8, Written DEF Blocks
  <2>3. /\ [blocks EXCEPT ![L] = w] \in Seq(Blocks)
        /\ Len([blocks EXCEPT ![L] = w]) = Len(blocks)
        /\ \A j \in 1 .. Len(blocks) :
              [blocks EXCEPT ![L] = w][j] = IF j = L THEN w ELSE blocks[j]
    BY <1>2, <2>1, <2>2, ExceptSeq
  <2> QED
    BY <1>2, <1>4, <2>1, <2>3
<1>10. PagesWritten'
  <2>1. ASSUME NEW p \in Pages, p * PageSize < fill PROVE w[p] # <<>>
    <3>0. p \in Nat /\ k \in Nat
      BY Constants DEF Pages
    <3>1. p < k + m
      BY <1>6, <2>1, <3>0, Scale, Constants
    <3>2. CASE p < k
      <4>1. p * PageSize < TurnFd.fill
        BY <1>5, <3>0, <3>2, Scale
      <4>2. blocks[L][p] # <<>>
        BY <1>2, <4>1
      <4>3. p - k \notin 0 .. PagesFor(Len(chunk)) - 1
        BY <3>0, <3>2
      <4> QED
        BY <1>8, <4>2, <4>3, WrittenElsewhere
    <3>3. CASE ~(p < k)
      <4> DEFINE j == p - k
      <4>1. j \in 0 .. PagesFor(Len(chunk)) - 1 /\ p = k + j
        <5>1. PagesFor(Len(chunk)) = m
          BY <1>3 DEF m
        <5> QED
          BY <1>6, <3>0, <3>1, <3>3, <5>1, Constants
      <4> HIDE DEF j
      <4>2. w[p] = PageOf(chunk, j)
        BY <1>3, <1>8, <4>1, WrittenThere
      <4> QED
        BY <1>3, <1>8, <4>1, <4>2, PageHasBytes
    <3> QED
      BY <3>2, <3>3
  <2>2. ASSUME NEW b \in 1 .. Len(data'), NEW p \in Pages,
               b # fd'.block \/ p * PageSize < fd'.fill
        PROVE  data'[b][p] # <<>>
    <3>1. CASE b = L
      BY <1>7, <1>9, <2>1, <2>2, <3>1
    <3>2. CASE b # L
      <4>1. b \in 1 .. L - 1 /\ b \in 1 .. L
        BY <1>2, <1>9, <3>2
      <4> QED
        BY <1>2, <1>9, <3>2, <4>1
    <3> QED
      BY <3>1, <3>2
  <2>3. fd'.block # NoBlock
    BY <1>2, <1>7 DEF NoBlock
  <2> QED
    BY <2>2, <2>3 DEF PagesWritten
<1>11. Findable'
  <2> DEFINE l == Len(fse)
             from == TurnFd.off
             before == TurnFd.fill
             size == fd.size
  <2>0. /\ size \in Nat /\ from \in Nat /\ before \in Nat /\ n \in Nat /\ fill \in Nat
        /\ n <= Capacity /\ before + n <= fill /\ from <= size /\ size - from <= before
    <3>1. size \in Nat
      BY <1>1 DEF IInv, Shape
    <3>2. from \in Nat /\ before \in Nat
      BY <1>3, Constants DEF Fills
    <3>3. m * PageSize \in Nat
      BY <1>6, Constants
    <3> QED
      BY <1>2, <1>3, <1>5, <1>6, <3>1, <3>2, <3>3, Constants
  <2>1. /\ l \in Nat /\ Len(fse') = l + 1 /\ fse'[l + 1] = entry
        /\ DOMAIN fse' = 1 .. l + 1 /\ DOMAIN fse = 1 .. l
        /\ \A i \in 1 .. l : fse'[i] = fse[i]
    <3> DEFINE E == [block : Nat \ {0}, fill : Nat \ {0}, off : Nat]
    <3>1. fse \in Seq(E) /\ entry \in E
      BY <1>1, <1>2, <1>6, <2>0 DEF IInv, Shape, entry
    <3> HIDE DEF E
    <3>2. Len(fse) \in Nat /\ DOMAIN fse = 1 .. Len(fse)
      BY <3>1, LenProperties
    <3>3. /\ Append(fse, entry) \in Seq(E) /\ Len(Append(fse, entry)) = Len(fse) + 1
          /\ Append(fse, entry)[Len(fse) + 1] = entry
          /\ \A i \in 1 .. Len(fse) : Append(fse, entry)[i] = fse[i]
      BY <3>1, AppendProperties
    <3>4. DOMAIN Append(fse, entry) = 1 .. Len(fse) + 1
      BY <3>3, LenProperties
    <3> QED
      BY <1>4, <3>2, <3>3, <3>4
  <2>2. /\ size <= l * Capacity /\ (l + 1) * Capacity = l * Capacity + Capacity
        /\ l * Capacity \in Nat
    <3>1. size <= l * Capacity
      BY DEF ReadInv, Findable
    <3> HIDE DEF l
    <3> QED
      BY <2>1, <3>1, Constants
  <2> HIDE DEF l, from, before, size
  <2>3. size + n <= (l + 1) * Capacity /\ (size + n) - from <= fill
    <3> DEFINE c == l * Capacity
    <3>1. c \in Nat /\ size <= c /\ (l + 1) * Capacity = c + Capacity
      BY <2>2
    <3> HIDE DEF c
    <3> QED
      BY <2>0, <3>1, Constants
  <2>4. ASSUME NEW off \in 0 .. (size + n) - 1
        PROVE  \E j \in DOMAIN fse' : off < j * Capacity /\ Covers(fse'[j], off)
    <3>1. CASE off < size
      <4>1. off \in 0 .. fd.size - 1
        BY <2>0, <3>1 DEF size
      <4>2. PICK j \in DOMAIN fse : off < j * Capacity /\ Covers(fse[j], off)
        BY <4>1 DEF ReadInv, Findable
      <4> QED
        BY <2>1, <4>2
    <3>2. CASE ~(off < size)
      <4>1. l + 1 \in DOMAIN fse'
        BY <2>1
      <4>2. off < (l + 1) * Capacity
        <5> DEFINE c == (l + 1) * Capacity
        <5>1. c \in Nat /\ size + n <= c
          BY <2>1, <2>3, Constants
        <5> HIDE DEF c
        <5>2. off < c
          BY <2>0, <5>1
        <5> QED
          BY <5>2 DEF c
      <4>3. entry.off <= off /\ off < entry.off + entry.fill
        BY <1>7, <2>0, <2>3, <3>2 DEF from
      <4> QED
        BY <2>1, <4>1, <4>2, <4>3 DEF Covers
    <3> QED
      BY <3>1, <3>2
  <2>5. fd'.size = size + n /\ fd'.off = from /\ fd'.fill = fill
    BY <1>7 DEF size, from
  <2> QED
    BY <2>1, <2>3, <2>4, <2>5 DEF Findable
<1> QED
  BY <1>10, <1>11 DEF ReadInv

LEMMA ReadInductive == ReadInv /\ [Next]_vars => ReadInv'
<1> SUFFICES ASSUME ReadInv, [Next]_vars PROVE ReadInv'
  OBVIOUS
<1>1. ContentInv'
  BY ContentInductive DEF ReadInv
<1>2. fd \in [block : Nat, fill : Fills, off : Nat, size : Nat, offset : Nat]
  BY DEF ReadInv, ContentInv, IInv, Shape
<1>3. ASSUME UNCHANGED <<data, fse>>, NEW offset, fd' = [fd EXCEPT !.offset = offset]
      PROVE  ReadInv'
  <2>1. fd'.block = fd.block /\ fd'.fill = fd.fill /\ fd'.off = fd.off /\ fd'.size = fd.size
    BY <1>2, <1>3
  <2> QED
    BY <1>1, <1>3, <2>1, ReadUnchanged
<1>4. ASSUME UNCHANGED <<data, fse, fd>> PROVE ReadInv'
  BY <1>1, <1>4, ReadUnchanged
<1>5. ASSUME NEW n \in 1 .. Capacity, Write(n) PROVE ReadInv'
  BY <1>3, <1>5 DEF Write
<1>6. CASE Fsync
  BY <1>1, <1>6, FsyncRead
<1>7. CASE FsyncChunk
  BY <1>1, <1>7, FsyncChunkRead
<1>8. ASSUME NEW whence \in {"SET", "CUR", "END"}, NEW delta \in -MaxBytes .. MaxBytes,
             Lseek(whence, delta)
      PROVE  ReadInv'
  BY <1>3, <1>8 DEF Lseek
<1>9. ASSUME NEW n \in 1 .. MaxBytes, Read(n) PROVE ReadInv'
  <2>1. UNCHANGED <<data, fse>> /\ (fd' = [fd EXCEPT !.offset = @ + n] \/ UNCHANGED fd)
    BY <1>9 DEF Read
  <2> QED
    BY <1>3, <1>4, <2>1
<1>10. CASE UNCHANGED vars
  BY <1>4, <1>10 DEF vars
<1> QED
  BY <1>5, <1>6, <1>7, <1>8, <1>9, <1>10 DEF Next

-----------------------------------------------------------------------------
(***************************************************************************)
(* What a read of stored bytes returns.                                    *)
(***************************************************************************)
\* The i-th byte of a data block is that far behind the bytes of the blocks before it.
LEMMA BytesInPlace ==
    ASSUME ContentInv, NEW b \in 1 .. Len(data)
    PROVE  /\ data[b] \in Blocks /\ BytesOf(data[b]) \in Seq(Bytes)
           /\ Len(BytesOf(data[b])) \in Nat /\ Len(FirstBlocks(data, b - 1)) \in Nat
           /\ Len(FirstBlocks(data, b - 1)) + Len(BytesOf(data[b])) <= fd.size
           /\ b = Len(data) =>
                 Len(FirstBlocks(data, b - 1)) + Len(BytesOf(data[b])) = fd.size
           /\ b < Len(data) =>
                 Len(FirstBlocks(data, b - 1)) + Len(BytesOf(data[b])) = Len(FirstBlocks(data, b))
           /\ \A i \in 1 .. Len(BytesOf(data[b])) :
                 BytesOf(data[b])[i] = Len(FirstBlocks(data, b - 1)) + i
<1> DEFINE last == Len(data)
           f == [c \in 1 .. last |-> BytesOf(data[c])]
           before == FirstBlocks(data, b - 1)
           here == BytesOf(data[b])
           k == last - b
           g == [i \in 1 .. k |-> f[b + i]]
           after == Joined(g, k)
<1>1. /\ data \in Seq(Blocks) /\ last \in Nat /\ b \in Nat /\ fd.size \in Nat
      /\ StoredBytes = FirstBlocks(data, last) /\ StoredBytes \in Seq(Bytes)
      /\ Rest \in Seq(Bytes) /\ Count \in Nat /\ k \in Nat
      /\ Len(StoredBytes) = fd.size /\ StoredBytes \o Rest = Upto(fd.size + Count)
  <2>1. IInv /\ NothingLostOrRepeated
    BY DEF ContentInv
  <2> QED
    BY <2>1, ContentIs, ContentInTerms
<1>2. \A c \in 1 .. last : f[c] = BytesOf(data[c]) /\ f[c] \in Seq(Bytes)
  <2> SUFFICES ASSUME NEW c \in 1 .. last PROVE f[c] = BytesOf(data[c]) /\ f[c] \in Seq(Bytes)
    OBVIOUS
  <2>1. data[c] \in Blocks
    BY <1>1, ElementOfSeq
  <2> QED
    BY <2>1, ChunksType
<1>3. data[b] \in Blocks /\ here \in Seq(Bytes) /\ f[b] = here
  BY <1>1, <1>2, ElementOfSeq
<1>4. ASSUME NEW c \in 0 .. last
      PROVE  FirstBlocks(data, c) = Joined(f, c) /\ Joined(f, c) \in Seq(Bytes)
  <2>1. c \in Nat /\ \A i \in 1 .. c : i \in 1 .. last
    BY <1>1
  <2> HIDE DEF last, f
  <2>2. \A i \in 1 .. c : f[i] = BytesOf(data[i]) /\ f[i] \in Seq(Bytes)
    BY <1>2, <2>1
  <2>3. [i \in 1 .. c |-> f[i]] = [i \in 1 .. c |-> BytesOf(data[i])]
    BY <2>2
  <2>4. Joined(f, c) \in Seq(Bytes)
    BY <2>1, <2>2, JoinedType
  <2> QED
    BY <2>3, <2>4 DEF FirstBlocks, Joined
<1>5. /\ b - 1 \in 0 .. last /\ b \in 0 .. last /\ last \in 0 .. last /\ (b - 1) + 1 = b
      /\ b - 1 \in Nat
  BY <1>1
<1>6. before \in Seq(Bytes) /\ FirstBlocks(data, b) = before \o here
  <2>1. \A i \in 1 .. (b - 1) + 1 : f[i] \in Seq(Bytes)
    BY <1>1, <1>2
  <2>2. FirstBlocks(data, b - 1) = Joined(f, b - 1) /\ FirstBlocks(data, b) = Joined(f, b)
        /\ Joined(f, b - 1) \in Seq(Bytes)
    BY <1>4, <1>5
  <2> HIDE DEF f, here
  <2>3. Joined(f, (b - 1) + 1) = Joined(f, b - 1) \o f[(b - 1) + 1]
    BY <1>5, <2>1, JoinedNext
  <2> QED
    BY <1>3, <1>5, <2>2, <2>3
<1>7. after \in Seq(Bytes) /\ StoredBytes = (before \o here) \o after
  <2>1. \A i \in 1 .. k : g[i] = f[b + i] /\ g[i] \in Seq(Bytes)
    <3>1. \A i \in 1 .. k : b + i \in 1 .. last
      BY <1>1
    <3> HIDE DEF f, last, k
    <3> QED
      BY <1>2, <3>1
  <2>2. b \in Nat /\ k \in Nat /\ last = b + k
    BY <1>1
  <2>3. FirstBlocks(data, last) = Joined(f, last) /\ FirstBlocks(data, b) = Joined(f, b)
    BY <1>4, <1>5
  <2> HIDE DEF last, f, before, here, k, g
  <2>4. Continues(f, b, g, k, last)
    BY <2>1, <2>2 DEF Continues
  <2>5. \A i \in 1 .. last : f[i] \in Seq(Bytes)
    BY <1>2
  <2>6. Joined(f, last) = Joined(f, b) \o Joined(g, k)
    BY <2>4, <2>5, SplitHere
  <2>7. Joined(g, k) \in Seq(Bytes)
    BY <2>1, <2>2, JoinedType
  <2> QED
    BY <1>1, <1>6, <2>3, <2>6, <2>7
<1> HIDE DEF last, f, before, here, k, g
<1>8. b = last => after = <<>>
  <2>1. b = last => k = 0
    BY <1>1 DEF k
  <2> QED
    BY <2>1, JoinedNone
<1> HIDE DEF after
<1> DEFINE u == before \o here
<1>9. /\ u \in Seq(Bytes) /\ Len(u) = Len(before) + Len(here)
      /\ \A i \in 1 .. Len(u) : u[i] = IF i <= Len(before) THEN before[i]
                                      ELSE here[i - Len(before)]
      /\ Len(before) \in Nat /\ Len(here) \in Nat /\ Len(after) \in Nat
  BY <1>3, <1>6, <1>7, ConcatProperties, LenProperties
<1> HIDE DEF u
<1>10. /\ Len(StoredBytes) = Len(u) + Len(after)
       /\ \A i \in 1 .. Len(u) : StoredBytes[i] = u[i]
  <2>1. StoredBytes = u \o after
    BY <1>7 DEF u
  <2>2. /\ Len(u \o after) = Len(u) + Len(after)
        /\ \A i \in 1 .. Len(u) + Len(after) :
              (u \o after)[i] = IF i <= Len(u) THEN u[i] ELSE after[i - Len(u)]
    <3>1. u \in Seq(Bytes) /\ after \in Seq(Bytes)
      BY <1>7, <1>9
    <3> QED
      BY <3>1, ConcatProperties
  <2>3. \A i \in 1 .. Len(u) : i \in 1 .. Len(u) + Len(after) /\ i <= Len(u)
    BY <1>9
  <2> QED
    BY <2>1, <2>2, <2>3
<1>11. \A i \in 1 .. fd.size : StoredBytes[i] = i
  <2> DEFINE t == StoredBytes \o Rest
  <2>1. \A i \in 1 .. Len(StoredBytes) + Len(Rest) :
           t[i] = IF i <= Len(StoredBytes) THEN StoredBytes[i] ELSE Rest[i - Len(StoredBytes)]
    BY <1>1, ConcatProperties
  <2>2. Len(Rest) \in Nat
    BY <1>1, LenProperties
  <2>3. \A i \in 1 .. fd.size + Count : t[i] = i
    BY <1>1 DEF Upto
  <2> HIDE DEF t
  <2>4. ASSUME NEW i \in 1 .. fd.size PROVE StoredBytes[i] = i
    <3>1. i \in 1 .. Len(StoredBytes) + Len(Rest) /\ i <= Len(StoredBytes)
          /\ i \in 1 .. fd.size + Count
      BY <1>1, <2>2
    <3> QED
      BY <2>1, <2>3, <3>1
  <2> QED
    BY <2>4
<1>12. Len(before) + Len(here) <= fd.size
  BY <1>1, <1>9, <1>10
<1>13. b = last => Len(before) + Len(here) = fd.size
  <2>1. Len(<<>>) = 0
    OBVIOUS
  <2> QED
    BY <1>1, <1>8, <1>9, <1>10, <2>1
<1>14. Len(before) + Len(here) = Len(FirstBlocks(data, b))
  BY <1>6, <1>9 DEF u
<1>15. ASSUME NEW i \in 1 .. Len(here) PROVE here[i] = Len(before) + i
  <2> DEFINE j == Len(before) + i
  <2>0. i \in Nat /\ i > 0 /\ i <= Len(here) /\ Len(before) \in Nat
    BY <1>1, <1>9
  <2>1. /\ j \in 1 .. Len(u) /\ j \in 1 .. fd.size /\ ~(j <= Len(before))
        /\ j - Len(before) = i
    <3>1. Len(u) = Len(before) + Len(here) /\ Len(u) <= fd.size /\ fd.size \in Nat
          /\ Len(here) \in Nat
      BY <1>1, <1>9, <1>12
    <3> HIDE DEF u, before, here
    <3> QED
      BY <2>0, <3>1
  <2> HIDE DEF j
  <2>2. StoredBytes[j] = j /\ StoredBytes[j] = here[i]
    BY <1>9, <1>10, <1>11, <2>1
  <2> QED
    BY <2>2 DEF j
<1> QED
  BY <1>3, <1>9, <1>12, <1>13, <1>14, <1>15 DEF before, here, last

\* A data block has no page without a chunk before one that has one.
LEMMA ChunksInOrder == ASSUME ReadInv, NEW b \in 1 .. Len(data) PROVE InOrder(data[b])
<1> SUFFICES ASSUME NEW p \in Pages, data[b][p] # <<>>, NEW q \in 0 .. p
             PROVE  data[b][q] # <<>>
  BY DEF InOrder
<1>1. q \in Pages /\ p \in Nat /\ q \in Nat /\ q <= p
  BY Constants DEF Pages
<1>2. b # fd.block => data[b][q] # <<>>
  BY <1>1 DEF ReadInv, PagesWritten
<1>3. CASE b = fd.block
  <2>1. fd.fill \in Nat /\ p * PageSize \in Nat /\ q * PageSize \in Nat
    BY <1>1, Constants DEF ReadInv, ContentInv, IInv, Shape, Fills
  <2>2. ~(p * PageSize >= fd.fill)
    <3>1. fd.block # NoBlock
      BY <1>3 DEF NoBlock
    <3> QED
      BY <1>3, <3>1 DEF ReadInv, ContentInv, IInv, BlankBehind
  <2>3. q * PageSize <= p * PageSize
    BY <1>1, Scale
  <2>4. q * PageSize < fd.fill
    BY <2>1, <2>2, <2>3
  <2> QED
    BY <1>1, <1>3, <2>4 DEF ReadInv, PagesWritten
<1> QED
  BY <1>2, <1>3

\* The search of find_data_block_for_off_direct begins at or before an entry that has the
\* offset.
LEMMA SearchFinds ==
    ASSUME ReadInv, NEW off \in 0 .. fd.size - 1
    PROVE  /\ Covering(off) # {}
           /\ \E j \in DOMAIN fse : Found(off) = fse[j] /\ Covers(fse[j], off)
<1>1. /\ IInv /\ fd.size \in Nat /\ Len(fse) \in Nat /\ DOMAIN fse = 1 .. Len(fse)
      /\ Len(fse) <= SeqEntries
  <2>1. fse \in Seq([block : Nat \ {0}, fill : Nat \ {0}, off : Nat]) /\ fd.size \in Nat
    BY DEF ReadInv, ContentInv, IInv, Shape
  <2> QED
    BY <2>1, LenProperties DEF ReadInv, ContentInv, IInv, Bounds
<1>2. PICK j \in DOMAIN fse : off < j * Capacity /\ Covers(fse[j], off)
  BY DEF ReadInv, Findable
<1>3. off % (Capacity * SeqEntries) = off
  <2> DEFINE whole == Capacity * SeqEntries
             c == Len(fse) * Capacity
  <2>1. whole \in Nat \ {0} /\ c \in Nat /\ c <= whole
    <3>1. \A m, n, d \in Nat : m <= n => m * d <= d * n
      OBVIOUS
    <3>2. Capacity \in Nat \ {0} /\ SeqEntries \in Nat \ {0}
      BY Constants
    <3>3. whole \in Nat \ {0} /\ c \in Nat
      BY <1>1, <3>2
    <3> QED
      BY <1>1, <3>1, <3>2, <3>3
  <2>2. fd.size <= c
    BY DEF ReadInv, Findable
  <2> HIDE DEF whole, c
  <2>3. off \in 0 .. whole - 1
    BY <1>1, <2>1, <2>2
  <2>4. off % whole = off
    BY <2>1, <2>3
  <2> QED
    BY <2>4 DEF whole
<1>4. ExpectedEntry(off) <= j - 1
  <2> DEFINE q == off \div Capacity
             r == off % Capacity
  <2>1. off \in Nat /\ j \in Nat \ {0} /\ Capacity \in Nat \ {0}
    BY <1>1, Constants
  <2>2. q \in Nat /\ r \in 0 .. Capacity - 1 /\ off = Capacity * q + r
    BY <2>1
  <2> HIDE DEF q, r
  <2>3. Capacity * q < j * Capacity
    <3> DEFINE a == Capacity * q
               b == j * Capacity
    <3>1. a \in Nat /\ b \in Nat /\ off < b /\ off = a + r
      BY <1>2, <2>1, <2>2
    <3> HIDE DEF a, b
    <3>2. a < b
      BY <2>1, <2>2, <3>1
    <3> QED
      BY <3>2 DEF a, b
  <2>4. q < j
    <3>1. \A m, n, d \in Nat : m <= n => m * d <= d * n
      OBVIOUS
    <3>2. ~(j <= q)
      <4>1. j * Capacity \in Nat /\ Capacity * q \in Nat
        BY <2>1, <2>2
      <4>2. j <= q => j * Capacity <= Capacity * q
        BY <2>1, <2>2, <3>1
      <4> QED
        BY <2>3, <4>1, <4>2
    <3> QED
      BY <2>1, <2>2, <3>2
  <2>5. ExpectedEntry(off) = q
    BY <1>3 DEF ExpectedEntry, q
  <2> QED
    BY <2>1, <2>2, <2>4, <2>5
<1>5. j \in Covering(off) /\ Covering(off) \subseteq Nat
  <2>1. ExpectedEntry(off) \in Int
    BY <1>1, <1>3, Constants DEF ExpectedEntry
  <2> QED
    BY <1>1, <1>2, <1>4, <2>1 DEF Covering
<1>6. Min(Covering(off)) \in Covering(off)
  <2> DEFINE T == Covering(off)
  <2>1. T \subseteq Nat /\ T # {}
    BY <1>5
  <2> HIDE DEF T
  <2>2. \E m \in T : \A t \in T : m <= t
    BY <2>1, LeastElement
  <2>3. Min(T) \in T
    BY <2>2 DEF Min
  <2> QED
    BY <2>3 DEF T
<1> QED
  BY <1>5, <1>6 DEF Found, Covering

\* r2f2_read of stored bytes is r2f2_read_data in the block found, at the distance of the
\* offset from the block's place.
LEMMA ReadAtIs ==
    ASSUME ReadInv, NEW off \in 0 .. fd.size - 1, NEW n \in 1 .. fd.size - off
    PROVE  /\ Covering(off) # {}
           /\ \E j \in DOMAIN fse :
                 /\ Found(off) = fse[j] /\ Covers(fse[j], off)
                 /\ fse[j].block \in 1 .. Len(data)
                 /\ fse[j].off = Len(FirstBlocks(data, fse[j].block - 1))
                 /\ ReadAt(off, n) = ReadData(data[fse[j].block], off - fse[j].off, n)
<1>1. IInv /\ EntriesPlaceBlocks /\ fd.size \in Nat /\ Count \in Nat
  <2>1. IInv /\ EntriesPlaceBlocks
    BY DEF ReadInv, ContentInv
  <2> QED
    BY <2>1, ContentIs
<1>2. Covering(off) # {}
  BY SearchFinds
<1>3. PICK j \in DOMAIN fse : Found(off) = fse[j] /\ Covers(fse[j], off)
  BY SearchFinds
<1>4. /\ fse[j].block \in 1 .. Len(data)
      /\ fse[j].off = Len(FirstBlocks(data, fse[j].block - 1))
  BY <1>1, ContentIs, ContentInTerms
<1>5. ~(off + n > fd.size + Count) /\ CanReadFromStorage(off, n)
  BY <1>1 DEF CanReadFromStorage
<1>6. ReadAt(off, n) = ReadData(data[Found(off).block], off - Found(off).off, n)
  BY <1>2, <1>5 DEF ReadAt
<1> QED
  BY <1>2, <1>3, <1>4, <1>6

\* In a data block that has the bytes to be read
LEMMA BlockReads ==
    ASSUME ReadInv, NEW b \in 1 .. Len(data), NEW o \in Nat, NEW n \in Nat \ {0},
           o + n <= Len(BytesOf(data[b]))
    PROVE  ReadData(data[b], o, n) =
              [is |-> "bytes",
               bytes |-> [i \in 1 .. n |-> Len(FirstBlocks(data, b - 1)) + o + i]]
<1> DEFINE s == BytesOf(data[b])
           before == Len(FirstBlocks(data, b - 1))
           got == SubSeq(s, o + 1, o + n)
           want == [i \in 1 .. n |-> before + o + i]
<1>1. /\ data[b] \in Blocks /\ s \in Seq(Bytes) /\ Len(s) \in Nat /\ before \in Nat
      /\ \A i \in 1 .. Len(s) : s[i] = before + i
  BY BytesInPlace DEF ReadInv
<1>2. ReadData(data[b], o, n) = [is |-> "bytes", bytes |-> got]
  <2>1. InOrder(data[b]) /\ o < Len(BytesOf(data[b]))
    BY <1>1, ChunksInOrder
  <2>2. data[b] \in Blocks
    BY <1>1
  <2> DEFINE block == data[b]
  <2>3. block \in Blocks /\ InOrder(block) /\ o < Len(BytesOf(block))
        /\ o + n <= Len(BytesOf(block))
    BY <2>1, <2>2
  <2> HIDE DEF block
  <2>4. ReadData(block, o, n) =
           [is |-> "bytes", bytes |-> SubSeq(BytesOf(block), o + 1, o + n)]
    BY <2>3, ReadDataIs
  <2> QED
    BY <2>4 DEF block
<1>3. got = want
  <2>1. o + 1 \in Int /\ o + n \in Int /\ o + 1 <= o + n
        /\ (\A i \in o + 1 .. o + n : i \in 1 .. Len(s)) /\ (o + n) - (o + 1) + 1 = n
    BY <1>1
  <2> HIDE DEF s, before
  <2>2. \A i \in o + 1 .. o + n : s[i] \in Bytes
    BY <1>1, <2>1, ElementOfSeq
  <2> DEFINE from == o + 1
             to == o + n
  <2>3. from \in Int /\ to \in Int /\ from <= to /\ \A i \in from .. to : s[i] \in Bytes
    BY <2>1, <2>2
  <2> HIDE DEF from, to
  <2>4. /\ SubSeq(s, from, to) \in Seq(Bytes) /\ Len(SubSeq(s, from, to)) = to - from + 1
        /\ \A i \in 1 .. to - from + 1 : SubSeq(s, from, to)[i] = s[from + i - 1]
    BY <2>3, SubSeqProperties
  <2>5. \A i \in 1 .. n : got[i] = before + o + i
    <3> SUFFICES ASSUME NEW i \in 1 .. n PROVE got[i] = before + o + i
      OBVIOUS
    <3>1. i \in 1 .. to - from + 1 /\ from + i - 1 = o + i
      BY DEF from, to
    <3>2. got[i] = s[o + i]
      BY <2>4, <3>1 DEF from, to
    <3>3. o + i \in 1 .. Len(s)
      BY <2>1
    <3>4. s[o + i] = before + (o + i)
      BY <1>1, <3>3
    <3>5. before \in Nat /\ o \in Nat /\ i \in Nat
      BY <1>1
    <3> QED
      BY <3>2, <3>4, <3>5
  <2>6. got \in Seq(Bytes) /\ Len(got) = n
    BY <2>4 DEF from, to
  <2> HIDE DEF got
  <2>7. got = [i \in 1 .. n |-> got[i]]
    BY <2>6
  <2> QED
    BY <2>5, <2>7
<1> QED
  BY <1>2, <1>3

-----------------------------------------------------------------------------
(***************************************************************************)
(* Blocks of whole pages.                                                  *)
(***************************************************************************)
WholePages == \A b \in DOMAIN data, p \in Pages : Len(data[b][p]) \in {0, PageSize}

\* hold as many bytes as their fill level says
LEMMA WholeBlock ==
    ASSUME ReadInv, WholePages, NEW b \in 1 .. Len(data)
    PROVE  Len(BytesOf(data[b])) = IF b = fd.block THEN fd.fill ELSE Capacity
<1>1. data \in Seq(Blocks) /\ b \in DOMAIN data /\ data[b] \in Blocks
  <2>1. data \in Seq(Blocks)
    BY ContentIs DEF ReadInv, ContentInv
  <2> QED
    BY <2>1, LenProperties, ElementOfSeq
<1> DEFINE block == data[b]
           f == Chunks(block)
<1>2. /\ \A i \in 1 .. DataPages : f[i] = block[i - 1] /\ f[i] \in Seq(Bytes)
      /\ BytesOf(block) = Joined(f, DataPages)
  BY <1>1, ChunksType
<1>3. ASSUME NEW k \in 0 .. DataPages, \A p \in Pages : p < k => block[p] # <<>>
      PROVE  Len(Joined(f, k)) = k * PageSize
  <2>1. ASSUME NEW i \in 1 .. k PROVE f[i] \in Seq(Bytes) /\ Len(f[i]) = PageSize
    <3>1. i \in 1 .. DataPages /\ i - 1 \in Pages /\ i - 1 < k
      BY Constants DEF Pages
    <3>2. f[i] \in Seq(Bytes) /\ f[i] # <<>>
      BY <1>2, <1>3, <3>1
    <3>3. Len(f[i]) \in {0, PageSize}
      BY <1>1, <1>2, <3>1 DEF WholePages
    <3> HIDE DEF f
    <3>4. Len(f[i]) # 0
      BY <3>2, EmptySeq
    <3> QED
      BY <3>2, <3>3, <3>4
  <2>2. k \in Nat /\ PageSize \in Nat
    BY Constants
  <2> HIDE DEF f
  <2> QED
    BY <2>1, <2>2, JoinedEven
<1>4. CASE b = fd.block
  <2>1. PICK k \in 0 .. DataPages : fd.fill = k * PageSize
    BY DEF ReadInv, ContentInv, IInv, PageAligned
  <2>2. \A p \in Pages : p < k <=> p * PageSize < fd.fill
    <3> SUFFICES ASSUME NEW p \in Pages PROVE p < k <=> p * PageSize < fd.fill
      OBVIOUS
    <3>1. p \in Int /\ k \in Int
      BY Constants DEF Pages
    <3>2. /\ p < k <=> PageSize * p < PageSize * k
          /\ PageSize * p = p * PageSize /\ PageSize * k = k * PageSize
      BY <3>1, Scale
    <3> QED
      BY <2>1, <3>2, Zenon
  <2>3. \A p \in Pages : p < k => block[p] # <<>>
    BY <1>4, <2>2 DEF ReadInv, PagesWritten
  <2>4. \A p \in Pages : p >= k => block[p] = <<>>
    <3> SUFFICES ASSUME NEW p \in Pages, p >= k PROVE block[p] = <<>>
      OBVIOUS
    <3>1. p * PageSize >= fd.fill
      BY <2>1, Scale, Constants DEF Pages
    <3>2. fd.block # NoBlock
      BY <1>4 DEF NoBlock
    <3> QED
      BY <1>4, <3>1, <3>2 DEF ReadInv, ContentInv, IInv, BlankBehind
  <2>5. BytesOf(block) = Joined(f, k)
    <3> HIDE DEF block
    <3> QED
      BY <1>1, <2>4, BytesInFirst DEF f, block
  <2>6. Len(Joined(f, k)) = k * PageSize
    BY <1>3, <2>3
  <2> QED
    BY <1>4, <2>1, <2>5, <2>6
<1>5. CASE b # fd.block
  <2>1. DataPages \in 0 .. DataPages
    BY Constants
  <2>2. \A p \in Pages : p < DataPages => block[p] # <<>>
    BY <1>5 DEF ReadInv, PagesWritten
  <2>3. Len(Joined(f, DataPages)) = DataPages * PageSize
    BY <1>3, <2>1, <2>2
  <2> QED
    BY <1>2, <1>5, <2>3, Constants
<1> QED
  BY <1>4, <1>5

\* and are each behind full ones.
LEMMA WholePlace ==
    ASSUME ReadInv, WholePages, NEW b \in 1 .. Len(data)
    PROVE  Len(FirstBlocks(data, b - 1)) = (b - 1) * Capacity
<1> DEFINE n == b - 1
           f == [c \in 1 .. n |-> BytesOf(data[c])]
<1>1. n \in Nat /\ fd.block = Len(data) /\ data \in Seq(Blocks)
      /\ \A c \in 1 .. n : c \in 1 .. Len(data) /\ c # fd.block
  <2>1. data \in Seq(Blocks) /\ Len(data) \in Nat /\ fd.block = Len(data)
    BY ContentIs DEF ReadInv, ContentInv, Placed
  <2> QED
    BY <2>1
<1>2. ASSUME NEW c \in 1 .. n PROVE f[c] \in Seq(Bytes) /\ Len(f[c]) = Capacity
  <2>1. c \in 1 .. Len(data) /\ c # fd.block
    BY <1>1
  <2>2. Len(BytesOf(data[c])) = Capacity /\ BytesOf(data[c]) \in Seq(Bytes)
    BY <2>1, WholeBlock, BytesInPlace DEF ReadInv
  <2> QED
    BY <2>2
<1>3. FirstBlocks(data, n) = Joined(f, n)
  <2>1. f = [c \in 1 .. n |-> f[c]]
    OBVIOUS
  <2> QED
    BY <2>1 DEF FirstBlocks, Joined
<1> HIDE DEF f, n
<1>4. Len(Joined(f, n)) = n * Capacity
  <2>1. Capacity \in Nat
    BY Constants
  <2>2. n \in Nat
    BY <1>1
  <2>3. PICK S, h : S = Bytes /\ h = f
    OBVIOUS
  <2>4. \A i \in 1 .. n : h[i] \in Seq(S) /\ Len(h[i]) = Capacity
    BY <1>2, <2>3
  <2>5. Len(Joined(h, n)) = n * Capacity
    BY <2>1, <2>2, <2>4, JoinedEven
  <2> QED
    BY <2>3, <2>5
<1> QED
  BY <1>3, <1>4 DEF n

\* Which block of c bytes an offset is in
LEMMA InBlock ==
    ASSUME NEW c \in Nat \ {0}, NEW q \in Nat, NEW o \in Nat
    PROVE  (q * c + o) \div c = q <=> o < c
<1> DEFINE a == q * c + o
           d == a \div c
           r == a % c
<1>1. a \in Nat /\ q * c \in Nat
  OBVIOUS
<1>2. d \in Nat /\ r \in 0 .. c - 1 /\ a = c * d + r
  BY <1>1
<1>3. \A m, n \in Nat : m < n => c * m + c <= c * n
  <2>1. \A m, n \in Nat : m < n => c * (m + 1) <= c * n /\ c * (m + 1) = c * m + c
    OBVIOUS
  <2> QED
    BY <2>1
<1>4. c * q = q * c /\ c * d \in Nat
  BY <1>2
<1> HIDE DEF d, r
<1>5. ASSUME o < c PROVE d = q
  <2> DEFINE x == c * q
             y == c * d
  <2>1. x \in Nat /\ y \in Nat /\ x + o = y + r /\ (q < d => x + c <= y) /\ (d < q => y + c <= x)
    BY <1>1, <1>2, <1>3, <1>4
  <2> HIDE DEF x, y
  <2>2. ~(q < d) /\ ~(d < q)
    BY <1>2, <1>5, <2>1
  <2> QED
    BY <1>2, <2>2
<1>6. ASSUME d = q PROVE o < c
  <2> DEFINE x == c * q
  <2>1. x \in Nat /\ x + o = x + r
    BY <1>1, <1>2, <1>4, <1>6
  <2> HIDE DEF x
  <2> QED
    BY <1>2, <2>1
<1> QED
  BY <1>5, <1>6 DEF d

-----------------------------------------------------------------------------
(***************************************************************************)
(* What follows.                                                           *)
(***************************************************************************)
\* What the file's pages and entries are like, always: the inductive invariant of both
\* theorems below.
THEOREM ReadInvariance == Spec => []ReadInv
  BY InitRead, ReadInductive, PTL DEF Spec

LEMMA BlockReadsHold == ReadInv => BlockReadsRight
<1> SUFFICES ASSUME ReadInv, NEW off \in 0 .. fd.size - 1, NEW n \in 1 .. fd.size - off
             PROVE  /\ Covering(off) # {}
                    /\ off - Found(off).off + n <= Len(BytesOf(data[Found(off).block])) =>
                          ReadAt(off, n) = [is |-> "bytes", bytes |-> [i \in 1 .. n |-> off + i]]
  BY DEF BlockReadsRight
<1>1. Covering(off) # {}
  BY ReadAtIs
<1>2. PICK j \in DOMAIN fse :
         /\ Found(off) = fse[j] /\ Covers(fse[j], off)
         /\ fse[j].block \in 1 .. Len(data)
         /\ fse[j].off = Len(FirstBlocks(data, fse[j].block - 1))
         /\ ReadAt(off, n) = ReadData(data[fse[j].block], off - fse[j].off, n)
  BY ReadAtIs
<1> DEFINE b == fse[j].block
           o == off - fse[j].off
<1>3. ASSUME o + n <= Len(BytesOf(data[b]))
      PROVE  ReadAt(off, n) = [is |-> "bytes", bytes |-> [i \in 1 .. n |-> off + i]]
  <2>1. /\ b \in 1 .. Len(data) /\ fse[j].off \in Nat /\ fd.size \in Nat
    BY <1>2, BytesInPlace, ContentIs DEF ReadInv, ContentInv
  <2>2. o \in Nat /\ n \in Nat \ {0} /\ fse[j].off + o = off
    <3> DEFINE x == fse[j].off
    <3>1. x <= off
      BY <1>2 DEF Covers
    <3>2. x \in Nat /\ fd.size \in Nat /\ off \in Nat /\ n \in Nat \ {0}
      BY <2>1
    <3> HIDE DEF x
    <3>3. off - x \in Nat /\ x + (off - x) = off
      BY <3>1, <3>2
    <3> QED
      BY <3>2, <3>3 DEF x
  <2> DEFINE before == Len(FirstBlocks(data, b - 1))
  <2>3. before + o = off
    BY <1>2, <2>2
  <2> HIDE DEF b, o
  <2>4. ReadData(data[b], o, n) = [is |-> "bytes", bytes |-> [i \in 1 .. n |-> before + o + i]]
    BY <1>3, <2>1, <2>2, BlockReads
  <2> HIDE DEF before
  <2>5. [i \in 1 .. n |-> before + o + i] = [i \in 1 .. n |-> off + i]
    BY <2>3
  <2> QED
    BY <1>2, <2>4, <2>5 DEF b, o
<1> QED
  BY <1>1, <1>2, <1>3

\* However the application cuts its writes with r2f2_fsync, a read of stored bytes that are
\* in the data block that the search finds returns what was written there.
THEOREM BlockReadsAlwaysRight == Spec => []BlockReadsRight
  BY ReadInvariance, BlockReadsHold, PTL

LEMMA WholePagesHold == ReadInv => WholePagesReadRight
<1> SUFFICES ASSUME ReadInv, WholePages,
                    NEW off \in 0 .. fd.size - 1, NEW n \in 1 .. fd.size - off
             PROVE  ReadAt(off, n) = IF off \div Capacity = (off + n - 1) \div Capacity
                                     THEN [is |-> "bytes", bytes |-> [i \in 1 .. n |-> off + i]]
                                     ELSE [is |-> "aborted", bytes |-> <<>>]
  BY DEF WholePagesReadRight, WholePages
<1>1. PICK j \in DOMAIN fse :
         /\ Found(off) = fse[j] /\ Covers(fse[j], off)
         /\ fse[j].block \in 1 .. Len(data)
         /\ fse[j].off = Len(FirstBlocks(data, fse[j].block - 1))
         /\ ReadAt(off, n) = ReadData(data[fse[j].block], off - fse[j].off, n)
  BY ReadAtIs
<1> DEFINE e == fse[j]
           b == e.block
           o == off - e.off
           len == Len(BytesOf(data[b]))
<1>2. /\ e.off \in Nat /\ e.fill \in Nat \ {0} /\ e.fill <= Capacity
      /\ fd.size \in Nat /\ fd.fill \in Nat /\ fd.fill <= Capacity /\ Len(data) \in Nat
      /\ fd.block = Len(data)
  <2> DEFINE E == [block : Nat \ {0}, fill : Nat \ {0}, off : Nat]
  <2>1. /\ fse \in Seq(E) /\ fse[j].fill <= Capacity /\ fd.size \in Nat
        /\ fd.fill \in Nat /\ fd.fill <= Capacity /\ Len(data) \in Nat
        /\ fd.block = Len(data)
    BY Constants, ContentIs DEF ReadInv, ContentInv, IInv, Shape, Bounds, Fills, Placed
  <2> HIDE DEF E
  <2>2. fse[j] \in E
    BY <2>1, AtIndex
  <2> QED
    BY <2>1, <2>2 DEF E
<1>3. /\ b \in 1 .. Len(data) /\ e.off = (b - 1) * Capacity /\ b - 1 \in Nat
      /\ len \in Nat /\ len <= Capacity /\ (b # fd.block => len = Capacity)
      /\ (b = fd.block => e.off + len = fd.size)
  <2>1. b \in 1 .. Len(data) /\ e.off = Len(FirstBlocks(data, b - 1))
    BY <1>1
  <2> HIDE DEF e, b
  <2>2. /\ Len(FirstBlocks(data, b - 1)) = (b - 1) * Capacity
        /\ len = IF b = fd.block THEN fd.fill ELSE Capacity
    BY <2>1, WholePlace, WholeBlock
  <2>3. len \in Nat /\ (b = Len(data) => Len(FirstBlocks(data, b - 1)) + len = fd.size)
    BY <2>1, BytesInPlace DEF ReadInv
  <2> QED
    BY <1>2, <2>1, <2>2, <2>3, Constants
<1>4. o \in Nat /\ o < Capacity /\ off = e.off + o /\ n \in Nat \ {0}
  <2> DEFINE x == e.off
             y == e.fill
  <2>1. x <= off /\ (x = off \/ off < x + y)
    BY <1>1 DEF Covers
  <2>2. /\ x \in Nat /\ y \in Nat \ {0} /\ y <= Capacity /\ off \in Nat /\ n \in Nat \ {0}
        /\ Capacity \in Nat
    BY <1>2, Constants
  <2> HIDE DEF x, y
  <2>3. off - x \in Nat /\ off - x < Capacity /\ off = x + (off - x)
    BY <2>1, <2>2
  <2>4. n \in Nat \ {0}
    OBVIOUS
  <2>5. o = off - x /\ e.off = x
    BY DEF x
  <2> HIDE DEF o, e
  <2> QED
    BY <2>3, <2>4, <2>5, Zenon
<1>5. o < len
  BY <1>2, <1>3, <1>4
<1> HIDE DEF e, b, o, len
<1>6. off \div Capacity = b - 1
  BY <1>3, <1>4, InBlock, Constants
<1>7. (off + n - 1) \div Capacity = b - 1 <=> o + n <= Capacity
  <2> DEFINE l == o + n - 1
             q == b - 1
  <2>1. /\ l \in Nat /\ q \in Nat /\ Capacity \in Nat \ {0} /\ off + n - 1 = q * Capacity + l
        /\ l < Capacity <=> o + n <= Capacity
    BY <1>2, <1>3, <1>4, Constants
  <2> HIDE DEF l, q
  <2>2. (q * Capacity + l) \div Capacity = q <=> l < Capacity
    BY <2>1, InBlock
  <2> QED
    BY <2>1, <2>2 DEF q
<1>8. o + n <= Capacity <=> o + n <= len
  <2>1. o + n \in Nat /\ Capacity \in Nat /\ len \in Nat /\ len <= Capacity
    BY <1>3, <1>4, Constants
  <2>2. CASE b # fd.block
    BY <1>3, <2>2
  <2>3. CASE b = fd.block
    <3>1. off + n <= fd.size /\ e.off + len = fd.size
      BY <1>2, <1>3, <2>3
    <3>2. o + n <= len
      BY <1>2, <1>3, <1>4, <3>1
    <3> QED
      BY <2>1, <3>2
  <2> QED
    BY <2>2, <2>3
<1>9. ReadAt(off, n) = ReadData(data[b], o, n)
  BY <1>1 DEF b, o, e
<1>10. CASE o + n <= len
  <2> DEFINE before == Len(FirstBlocks(data, b - 1))
  <2>1. before + o = off
    BY <1>1, <1>4 DEF b, e
  <2>2. ReadData(data[b], o, n) = [is |-> "bytes", bytes |-> [i \in 1 .. n |-> before + o + i]]
    BY <1>3, <1>4, <1>10, BlockReads DEF len
  <2> HIDE DEF before
  <2>3. [i \in 1 .. n |-> before + o + i] = [i \in 1 .. n |-> off + i]
    BY <2>1
  <2> QED
    BY <1>6, <1>7, <1>8, <1>9, <1>10, <2>2, <2>3
<1>11. CASE ~(o + n <= len)
  <2> DEFINE block == data[b]
  <2>1. block \in Blocks /\ InOrder(block) /\ o < Len(BytesOf(block))
        /\ ~(o + n <= Len(BytesOf(block)))
    BY <1>3, <1>5, <1>11, BytesInPlace, ChunksInOrder DEF len, ReadInv
  <2> HIDE DEF block
  <2>2. ReadData(block, o, n) = [is |-> "aborted", bytes |-> <<>>]
    BY <1>4, <2>1, ReadDataIs
  <2> QED
    BY <1>6, <1>7, <1>8, <1>9, <1>11, <2>2 DEF block
<1> QED
  BY <1>10, <1>11

\* While every fsync comes at the end of a page, a read of stored bytes returns what was
\* written there, or stops at an assertion where it leaves its data block.
THEOREM WholePagesAlwaysRight == Spec => []WholePagesReadRight
  BY ReadInvariance, WholePagesHold, PTL
=============================================================================
