------------------------ MODULE R2F2LayoutBytesProofs ------------------------
(***************************************************************************)
(* Theorems about the content of a file, for every page size, block size   *)
(* and number of sequence entries: the bytes in its data blocks are those  *)
(* that were written, in order.                                            *)
(***************************************************************************)
EXTENDS R2F2LayoutProofs, WellFoundedInduction

-----------------------------------------------------------------------------
(***************************************************************************)
(* Induction: a property of numbers that does not hold for all of them has *)
(* a least one that it does not hold for.                                  *)
(***************************************************************************)
LEMMA LeastElement ==
    ASSUME NEW T, T \subseteq Nat, T # {}
    PROVE  \E m \in T : \A t \in T : m <= t
<1> DEFINE less == OpToRel(<, Nat)
<1>1. \A y, x \in Nat : y < x => <<y, x>> \in less
  BY DEF OpToRel
<1>2. IsWellFoundedOn(less, Nat)
  BY NatLessThanWellFounded
<1> HIDE DEF less
<1>3. PICK m \in T : \A t \in T : ~(<<t, m>> \in less)
  BY <1>2, WFMin
<1>4. ASSUME NEW t \in T PROVE m <= t
  <2>1. t \in Nat /\ m \in Nat
    OBVIOUS
  <2>2. ~(t < m)
    BY <1>1, <1>3, <2>1
  <2> QED
    BY <2>1, <2>2
<1> QED
  BY <1>4

\* A set that has 0, and with every number below n the next, has all up to n.
LEMMA Upwards ==
    ASSUME NEW n \in Nat, NEW T, 0 \in T, \A j \in 0 .. n - 1 : j \in T => j + 1 \in T
    PROVE  \A j \in 0 .. n : j \in T
<1> DEFINE Rest == {j \in 0 .. n : j \notin T}
<1>1. ASSUME Rest # {} PROVE FALSE
  <2>0. Rest \subseteq Nat
    OBVIOUS
  <2> HIDE DEF Rest
  <2>1. PICK m \in Rest : \A t \in Rest : m <= t
    BY <1>1, <2>0, LeastElement
  <2> USE DEF Rest
  <2>2. m \in 1 .. n /\ m \notin T
    OBVIOUS
  <2>3. m - 1 \in 0 .. n - 1 /\ (m - 1) + 1 = m
    BY <2>2
  <2>4. m - 1 \in T
    BY <2>1, <2>3
  <2> QED
    BY <2>2, <2>3, <2>4
<1> QED
  BY <1>1

-----------------------------------------------------------------------------
(***************************************************************************)
(* FlattenSeq.  What it is defined by has one solution.                    *)
(***************************************************************************)
Flattens(s, n, g) == g = [i \in 1 .. n |-> IF i = 1 THEN s[i] ELSE g[i - 1] \o s[i]]

LEMMA FlattensExists ==
    ASSUME NEW s, NEW n \in Nat
    PROVE  \E g : Flattens(s, n, g)
<1> DEFINE T == {j \in 0 .. n : \E g : Flattens(s, j, g)}
<1>1. 0 \in T
  <2>1. Flattens(s, 0, <<>>)
    BY DEF Flattens
  <2> QED
    BY <2>1
<1>2. ASSUME NEW j \in 0 .. n - 1, j \in T PROVE j + 1 \in T
  <2>1. PICK g : Flattens(s, j, g)
    BY <1>2
  <2> DEFINE h == [i \in 1 .. j + 1 |->
                      IF i = j + 1 THEN (IF i = 1 THEN s[i] ELSE g[i - 1] \o s[i]) ELSE g[i]]
  <2>2. ASSUME NEW i \in 1 .. j + 1
        PROVE  h[i] = IF i = 1 THEN s[i] ELSE h[i - 1] \o s[i]
    <3>1. i # 1 => i - 1 \in 1 .. j + 1 /\ i - 1 # j + 1 /\ h[i - 1] = g[i - 1]
      OBVIOUS
    <3>2. CASE i = j + 1
      <4>1. h[i] = IF i = 1 THEN s[i] ELSE g[i - 1] \o s[i]
        BY <3>2
      <4> QED
        BY <3>1, <4>1
    <3>3. CASE i # j + 1
      <4>1. i \in 1 .. j /\ h[i] = g[i]
        BY <3>3
      <4>2. g[i] = IF i = 1 THEN s[i] ELSE g[i - 1] \o s[i]
        BY <2>1, <4>1 DEF Flattens
      <4> QED
        BY <3>1, <4>1, <4>2
    <3> QED
      BY <3>2, <3>3
  <2>3. h = [i \in 1 .. j + 1 |-> h[i]]
    OBVIOUS
  <2> HIDE DEF h
  <2>4. Flattens(s, j + 1, h)
    BY <2>2, <2>3 DEF Flattens
  <2> QED
    BY <2>4
<1> HIDE DEF T
<1>3. n \in T
  BY <1>1, <1>2, Upwards
<1> QED
  BY <1>3 DEF T

LEMMA FlattensUnique ==
    ASSUME NEW s, NEW t, NEW n \in Nat, NEW m \in Nat, n <= m, NEW g, NEW h,
           \A i \in 1 .. n : s[i] = t[i],
           Flattens(s, n, g), Flattens(t, m, h)
    PROVE  \A i \in 1 .. n : g[i] = h[i]
<1> DEFINE T == {j \in 0 .. n : j = 0 \/ g[j] = h[j]}
<1>1. 0 \in T
  OBVIOUS
<1>2. ASSUME NEW j \in 0 .. n - 1, j \in T PROVE j + 1 \in T
  <2>1. j + 1 \in 1 .. n /\ j + 1 \in 1 .. m /\ s[j + 1] = t[j + 1] /\ (j + 1) - 1 = j
    OBVIOUS
  <2>2. /\ g[j + 1] = IF j + 1 = 1 THEN s[j + 1] ELSE g[j] \o s[j + 1]
        /\ h[j + 1] = IF j + 1 = 1 THEN t[j + 1] ELSE h[j] \o t[j + 1]
    BY <2>1 DEF Flattens
  <2>3. j + 1 = 1 \/ g[j] = h[j]
    BY <1>2
  <2> QED
    BY <2>1, <2>2, <2>3
<1> HIDE DEF T
<1>3. \A j \in 0 .. n : j \in T
  BY <1>1, <1>2, Upwards
<1> QED
  BY <1>3 DEF T

\* The first n of the sequences f, joined
Joined(f, n) == FlattenSeq([i \in 1 .. n |-> f[i]])

LEMMA JoinedIs ==
    ASSUME NEW S, NEW n \in Nat, NEW f, \A i \in 1 .. n : f[i] \in Seq(S)
    PROVE  /\ n = 0 => Joined(f, n) = <<>>
           /\ n > 0 => \E g : Flattens(f, n, g) /\ Joined(f, n) = g[n]
<1> DEFINE s == [i \in 1 .. n |-> f[i]]
<1>1. s \in Seq(Seq(S)) /\ Len(s) = n
  <2>1. s \in [1 .. n -> Seq(S)]
    OBVIOUS
  <2> QED
    BY <2>1, FunctionIsSeq
<1>2. CASE n = 0
  BY <1>1, <1>2 DEF Joined, FlattenSeq
<1>3. CASE n > 0
  <2> DEFINE g == CHOOSE h : h = [i \in 1 .. n |-> IF i = 1 THEN s[i] ELSE h[i - 1] \o s[i]]
  <2>1. Joined(f, n) = g[n]
    BY <1>1, <1>3 DEF Joined, FlattenSeq
  <2>2. PICK h : Flattens(s, n, h)
    BY FlattensExists
  <2>3. Flattens(s, n, g)
    BY <2>2 DEF Flattens
  <2> HIDE DEF g
  <2>4. Flattens(f, n, g)
    BY <2>3 DEF Flattens
  <2> QED
    BY <1>3, <2>1, <2>4
<1> QED
  BY <1>2, <1>3

\* Which is all that need be known of it:
LEMMA JoinedNext ==
    ASSUME NEW S, NEW n \in Nat, NEW f, \A i \in 1 .. n + 1 : f[i] \in Seq(S)
    PROVE  Joined(f, n + 1) = Joined(f, n) \o f[n + 1]
<1>1. \A i \in 1 .. n : f[i] \in Seq(S)
  OBVIOUS
<1>2. PICK h : Flattens(f, n + 1, h) /\ Joined(f, n + 1) = h[n + 1]
  BY JoinedIs
<1>3. h[n + 1] = IF n + 1 = 1 THEN f[n + 1] ELSE h[n] \o f[n + 1]
  <2>1. n + 1 \in 1 .. n + 1 /\ (n + 1) - 1 = n
    OBVIOUS
  <2> QED
    BY <1>2, <2>1 DEF Flattens
<1>4. CASE n = 0
  <2>1. Joined(f, n) = <<>> /\ f[n + 1] \in Seq(S)
    BY <1>1, <1>4, JoinedIs
  <2> QED
    BY <1>2, <1>3, <1>4, <2>1
<1>5. CASE n > 0
  <2>1. PICK g : Flattens(f, n, g) /\ Joined(f, n) = g[n]
    BY <1>1, <1>5, JoinedIs
  <2> DEFINE m == n + 1
  <2>2. n \in 1 .. n /\ n <= m /\ m \in Nat
    BY <1>5
  <2>3. Flattens(f, m, h)
    BY <1>2
  <2> HIDE DEF m
  <2>4. \A i \in 1 .. n : g[i] = h[i]
    BY <2>1, <2>2, <2>3, FlattensUnique
  <2>5. g[n] = h[n] /\ n + 1 # 1
    BY <1>5, <2>2, <2>4
  <2>6. h[n + 1] = h[n] \o f[n + 1]
    BY <1>3, <2>5
  <2>7. Joined(f, n) = h[n]
    BY <2>1, <2>5
  <2> QED
    BY <1>2, <2>6, <2>7
<1> QED
  BY <1>4, <1>5

LEMMA JoinedNone == ASSUME NEW f PROVE Joined(f, 0) = <<>>
<1>1. \A i \in 1 .. 0 : f[i] \in Seq({})
  OBVIOUS
<1> QED
  BY <1>1, JoinedIs

LEMMA JoinedSame ==
    ASSUME NEW n \in Nat, NEW f, NEW g, \A i \in 1 .. n : f[i] = g[i]
    PROVE  Joined(f, n) = Joined(g, n)
<1>1. [i \in 1 .. n |-> f[i]] = [i \in 1 .. n |-> g[i]]
  OBVIOUS
<1> QED
  BY <1>1 DEF Joined

LEMMA JoinedType ==
    ASSUME NEW S, NEW n \in Nat, NEW f, \A i \in 1 .. n : f[i] \in Seq(S)
    PROVE  Joined(f, n) \in Seq(S)
<1> DEFINE T == {j \in 0 .. n : Joined(f, j) \in Seq(S)}
<1>1. 0 \in T
  <2>1. Joined(f, 0) = <<>> /\ <<>> \in Seq(S)
    BY JoinedNone, EmptySeq
  <2>2. Joined(f, 0) \in Seq(S)
    BY <2>1, Zenon
  <2> QED
    BY <2>2
<1>2. ASSUME NEW j \in 0 .. n - 1, j \in T PROVE j + 1 \in T
  <2>1. j \in Nat /\ j + 1 \in 1 .. n /\ \A i \in 1 .. j + 1 : f[i] \in Seq(S)
    OBVIOUS
  <2>2. Joined(f, j + 1) = Joined(f, j) \o f[j + 1]
    BY <2>1, JoinedNext
  <2>3. Joined(f, j) \in Seq(S) /\ f[j + 1] \in Seq(S)
    BY <1>2, <2>1
  <2>4. Joined(f, j) \o f[j + 1] \in Seq(S)
    BY <2>3, ConcatProperties
  <2>5. Joined(f, j + 1) \in Seq(S)
    BY <2>2, <2>4, Zenon
  <2> QED
    BY <2>1, <2>5
<1>3. n \in 0 .. n
  OBVIOUS
<1> HIDE DEF T
<1>4. \A j \in 0 .. n : j \in T
  BY <1>1, <1>2, Upwards
<1>5. n \in T
  BY <1>3, <1>4
<1> USE DEF T
<1> QED
  BY <1>5

\* Empty sequences at the end add nothing.
LEMMA JoinedBlank ==
    ASSUME NEW S, NEW n \in Nat, NEW k \in 0 .. n, NEW f,
           \A i \in 1 .. k : f[i] \in Seq(S), \A i \in k + 1 .. n : f[i] = <<>>
    PROVE  Joined(f, n) = Joined(f, k)
<1> DEFINE T == {j \in 0 .. n - k : Joined(f, k + j) = Joined(f, k)}
<1>0. n - k \in Nat /\ \A i \in 1 .. n : f[i] \in Seq(S)
  <2>1. ASSUME NEW i \in 1 .. n PROVE f[i] \in Seq(S)
    <3>1. i \in 1 .. k \/ i \in k + 1 .. n
      OBVIOUS
    <3> QED
      BY <3>1, EmptySeq
  <2> QED
    BY <2>1
<1>1. 0 \in T
  BY <1>0
<1>2. ASSUME NEW j \in 0 .. (n - k) - 1, j \in T PROVE j + 1 \in T
  <2> DEFINE m == k + j
  <2>1. /\ m \in Nat /\ \A i \in 1 .. m + 1 : f[i] \in Seq(S)
        /\ \A i \in 1 .. m : f[i] \in Seq(S)
        /\ m + 1 = k + (j + 1) /\ m + 1 \in k + 1 .. n /\ j + 1 \in 0 .. n - k
    BY <1>0
  <2>2. Joined(f, m) = Joined(f, k)
    BY <1>2
  <2> HIDE DEF m
  <2>3. Joined(f, m + 1) = Joined(f, m) \o f[m + 1] /\ Joined(f, m) \in Seq(S)
    BY <2>1, JoinedNext, JoinedType
  <2>4. f[m + 1] = <<>>
    BY <2>1
  <2>5. Joined(f, m) \o <<>> = Joined(f, m)
    BY <2>3, ConcatEmptySeq
  <2> QED
    BY <2>1, <2>2, <2>3, <2>4, <2>5
<1> DEFINE m == n - k
<1>3. m \in 0 .. m /\ m \in Nat /\ \A j \in 0 .. m - 1 : j \in T => j + 1 \in T
  BY <1>0, <1>2
<1> HIDE DEF T, m
<1>4. \A j \in 0 .. m : j \in T
  BY <1>1, <1>3, Upwards
<1>5. m \in T
  BY <1>3, <1>4
<1> QED
  BY <1>5 DEF T, m

-----------------------------------------------------------------------------
(***************************************************************************)
(* The bytes of a data block.                                              *)
(***************************************************************************)
Chunks(block) == [i \in 1 .. DataPages |-> block[i - 1]]
Blocks == [Pages -> Seq(Bytes)]

LEMMA ChunksType ==
    ASSUME NEW block \in Blocks
    PROVE  /\ \A i \in 1 .. DataPages : Chunks(block)[i] = block[i - 1]
                                        /\ Chunks(block)[i] \in Seq(Bytes)
           /\ BytesOf(block) = Joined(Chunks(block), DataPages)
           /\ BytesOf(block) \in Seq(Bytes)
<1>1. ASSUME NEW i \in 1 .. DataPages
      PROVE  Chunks(block)[i] = block[i - 1] /\ Chunks(block)[i] \in Seq(Bytes)
  <2>1. i - 1 \in Pages
    BY Constants DEF Pages
  <2> QED
    BY <2>1 DEF Chunks, Blocks
<1>2. BytesOf(block) = Joined(Chunks(block), DataPages)
  <2>1. Chunks(block) = [i \in 1 .. DataPages |-> Chunks(block)[i]]
    BY DEF Chunks
  <2> QED
    BY <2>1 DEF Joined, BytesOf, Chunks
<1>3. Joined(Chunks(block), DataPages) \in Seq(Bytes)
  <2>1. DataPages \in Nat /\ \A i \in 1 .. DataPages : Chunks(block)[i] \in Seq(Bytes)
    BY <1>1, Constants
  <2> QED
    BY <2>1, JoinedType
<1> QED
  BY <1>1, <1>2, <1>3

\* Those in its first k pages, when the others are blank
LEMMA BytesInFirst ==
    ASSUME NEW block \in Blocks, NEW k \in 0 .. DataPages,
           \A p \in Pages : p >= k => block[p] = <<>>
    PROVE  BytesOf(block) = Joined(Chunks(block), k)
<1>1. \A i \in 1 .. DataPages : Chunks(block)[i] \in Seq(Bytes)
  BY ChunksType
<1>2. ASSUME NEW i \in k + 1 .. DataPages PROVE Chunks(block)[i] = <<>>
  <2>1. i \in 1 .. DataPages /\ i - 1 \in Pages /\ i - 1 >= k
    BY Constants DEF Pages
  <2> QED
    BY <2>1, ChunksType
<1>3. DataPages \in Nat /\ \A i \in 1 .. k : Chunks(block)[i] \in Seq(Bytes)
  BY <1>1, Constants
<1>4. Joined(Chunks(block), DataPages) = Joined(Chunks(block), k)
  BY <1>2, <1>3, JoinedBlank
<1> QED
  BY <1>4, ChunksType

LEMMA BytesOfBlank == BytesOf(BlankBlock) = <<>> /\ BlankBlock \in Blocks
<1>1. BlankBlock \in Blocks /\ \A p \in Pages : BlankBlock[p] = <<>>
  BY BlankBlockType DEF Blocks, BlankBlock
<1>2. 0 \in 0 .. DataPages
  BY Constants
<1>3. BytesOf(BlankBlock) = Joined(Chunks(BlankBlock), 0)
  BY <1>1, <1>2, BytesInFirst
<1> QED
  BY <1>1, <1>3, JoinedNone

\* Every page but the last is full.
LEMMA PagesTight ==
    ASSUME NEW n \in Nat \ {0}, NEW j \in Nat, j < PagesFor(n)
    PROVE  j * PageSize < n
<1> DEFINE m == n + PageSize - 1
           q == m \div PageSize
           r == m % PageSize
<1>1. m \in Nat /\ PagesFor(n) = q
  BY Constants DEF PagesFor
<1>2. q \in Nat /\ r \in 0 .. PageSize - 1 /\ m = PageSize * q + r
  BY <1>1, Division
<1> HIDE DEF q, r
<1>3. PageSize * (j + 1) <= PageSize * q
  BY <1>1, <1>2, Scale
<1>4. PageSize * (j + 1) = PageSize * j + PageSize /\ PageSize * j \in Nat
      /\ PageSize * j = j * PageSize
  BY Constants
<1> DEFINE a == PageSize * j
           b == PageSize * q
<1>5. a \in Nat /\ b \in Int /\ a + PageSize <= b /\ m = b + r
  BY <1>2, <1>3, <1>4, Constants
<1> HIDE DEF a, b
<1>6. a < n
  BY <1>2, <1>5, Constants
<1> QED
  BY <1>4, <1>6 DEF a

\* What goes into the j-th page of a chunk
PageOf(s, j) == SubSeq(s, j * PageSize + 1, Min({(j + 1) * PageSize, Len(s)}))

\* The pages of the chunk, and those that are not.
LEMMA WrittenThere ==
    ASSUME NEW block \in Blocks, NEW k \in 0 .. DataPages, NEW s \in Seq(Bytes),
           NEW p \in Pages, NEW j \in 0 .. PagesFor(Len(s)) - 1, p = k + j
    PROVE  WriteData(block, k * PageSize, s)[p] = PageOf(s, j)
<1>1. (k * PageSize) \div PageSize = k
  BY PageOfFill
<1>2. p - k = j
  BY DEF Pages
<1> DEFINE m == PagesFor(Len(s))
<1>3. WriteData(block, k * PageSize, s)[p] =
         IF p - k \in 0 .. m - 1 THEN PageOf(s, p - k) ELSE block[p]
  BY <1>1 DEF WriteData, PageOf
<1> HIDE DEF m
<1> QED
  BY <1>2, <1>3 DEF m

LEMMA WrittenElsewhere ==
    ASSUME NEW block \in Blocks, NEW k \in 0 .. DataPages, NEW s, NEW p \in Pages,
           p - k \notin 0 .. PagesFor(Len(s)) - 1
    PROVE  WriteData(block, k * PageSize, s)[p] = block[p]
<1>1. (k * PageSize) \div PageSize = k
  BY PageOfFill
<1> QED
  BY <1>1 DEF WriteData

\* A chunk written behind the last page goes behind the bytes that are there.
LEMMA BytesWritten ==
    ASSUME NEW block \in Blocks, NEW k \in 0 .. DataPages,
           \A p \in Pages : p >= k => block[p] = <<>>,
           NEW s \in Seq(Bytes), s # <<>>, Len(s) <= Capacity - k * PageSize
    PROVE  BytesOf(WriteData(block, k * PageSize, s)) = BytesOf(block) \o s
<1> DEFINE w == WriteData(block, k * PageSize, s)
           n == Len(s)
           m == PagesFor(n)
           End(j) == Min({j * PageSize, n})
           f == Chunks(w)
           before == BytesOf(block)
<1>1. n \in Nat \ {0} /\ m \in 1 .. DataPages - k /\ n <= m * PageSize
  BY EmptySeq, PagesFit
<1>2. w \in Blocks
  BY Written DEF Blocks
<1>3. before \in Seq(Bytes) /\ before = Joined(Chunks(block), k)
  BY ChunksType, BytesInFirst
<1>4. \A i \in 1 .. DataPages : f[i] = w[i - 1] /\ f[i] \in Seq(Bytes)
  BY <1>2, ChunksType
<1>5. ASSUME NEW j \in 0 .. m - 1
      PROVE  f[(k + j) + 1] = SubSeq(s, j * PageSize + 1, End(j + 1))
  <2>1. k + j \in Pages /\ (k + j) + 1 \in 1 .. DataPages /\ (k + j) - k = j
        /\ ((k + j) + 1) - 1 = k + j
    BY <1>1, Constants DEF Pages
  <2>2. w[k + j] = PageOf(s, j)
    BY <2>1, WrittenThere
  <2>3. f[(k + j) + 1] = w[k + j]
    BY <1>4, <2>1
  <2> QED
    BY <2>2, <2>3 DEF PageOf
<1>6. ASSUME NEW j \in 0 .. m
      PROVE  /\ End(j) \in 0 .. n
             /\ j < m => End(j) = j * PageSize /\ End(j) <= End(j + 1)
  <2>1. j * PageSize \in Nat /\ (j + 1) * PageSize \in Nat
        /\ j * PageSize <= (j + 1) * PageSize
    BY Constants
  <2>2. End(j) = (IF j * PageSize <= n THEN j * PageSize ELSE n)
        /\ End(j + 1) = (IF (j + 1) * PageSize <= n THEN (j + 1) * PageSize ELSE n)
    BY <1>1, <2>1, MinOfTwo
  <2>3. j < m => j * PageSize < n
    BY <1>1, PagesTight
  <2> DEFINE a == j * PageSize
             b == (j + 1) * PageSize
  <2> HIDE DEF a, b, m
  <2> QED
    BY <1>1, <2>1, <2>2, <2>3 DEF a, b
<1>7. End(0) = 0 /\ End(m) = n
  <2>0. 0 \in 0 .. m /\ m \in 0 .. m
    BY <1>1
  <2>1. End(0) \in 0 .. n /\ End(m) \in 0 .. n
    BY <1>6, <2>0
  <2>2. 0 * PageSize = 0 /\ m * PageSize \in Nat
    BY <1>1, Constants
  <2> QED
    BY <1>1, <2>1, <2>2, MinOfTwo
<1> HIDE DEF w, n, m, End, f, before
<1> DEFINE T == {j \in 0 .. m : Joined(f, k + j) = before \o SubSeq(s, 1, End(j))}
<1>8. 0 \in T
  <2>1. Joined(f, k) = before
    <3>1. ASSUME NEW i \in 1 .. k PROVE f[i] = Chunks(block)[i]
      <4>1. i \in 1 .. DataPages /\ i - 1 \in Pages /\ (i - 1) - k \notin 0 .. m - 1
        BY Constants DEF Pages
      <4>2. w[i - 1] = block[i - 1]
        BY <4>1, WrittenElsewhere DEF w, m, n
      <4> QED
        BY <1>4, <4>1, <4>2, ChunksType
    <3> QED
      BY <1>3, <3>1, JoinedSame
  <2>2. SubSeq(s, 1, 0) = <<>>
    BY SubSeqEmpty
  <2>3. before \o <<>> = before
    BY <1>3, ConcatEmptySeq
  <2> QED
    <3>1. k + 0 = k /\ 0 \in 0 .. m
      BY <1>1
    <3> QED
      BY <1>7, <2>1, <2>2, <2>3, <3>1
<1>9. ASSUME NEW j \in 0 .. m - 1, j \in T PROVE j + 1 \in T
  <2> DEFINE a == End(j)
             b == End(j + 1)
             i == k + j
  <2>1. a \in 0 .. n /\ b \in 0 .. n /\ a <= b /\ j * PageSize = a
    BY <1>1, <1>6
  <2>2. i \in Nat /\ i + 1 = k + (j + 1) /\ \A l \in 1 .. i + 1 : f[l] \in Seq(Bytes)
    <3>1. i \in Nat /\ i + 1 = k + (j + 1) /\ i + 1 <= DataPages
      BY <1>1, Constants
    <3>2. \A l \in 1 .. i + 1 : l \in 1 .. DataPages
      BY <3>1, Constants
    <3> QED
      BY <1>4, <3>1, <3>2
  <2>3. f[i + 1] = SubSeq(s, a + 1, b)
    BY <1>5, <2>1
  <2>4. Joined(f, i) = before \o SubSeq(s, 1, a)
    BY <1>9
  <2> HIDE DEF a, b, i
  <2>5. Joined(f, i + 1) = (before \o SubSeq(s, 1, a)) \o SubSeq(s, a + 1, b)
    BY <2>2, <2>3, <2>4, JoinedNext
  <2>6. SubSeq(s, 1, a) \in Seq(Bytes) /\ SubSeq(s, a + 1, b) \in Seq(Bytes)
    <3>1. \A l \in 1 .. n : s[l] \in Bytes
      BY ElementOfSeq DEF n
    <3>2. (\A l \in 1 .. a : s[l] \in Bytes) /\ (\A l \in a + 1 .. b : s[l] \in Bytes)
          /\ a \in Int /\ b \in Int /\ a + 1 \in Int /\ 1 \in Int
      BY <1>1, <2>1, <3>1
    <3> QED
      BY <3>2, SubSeqProperties
  <2>7. SubSeq(s, 1, a) \o SubSeq(s, a + 1, b) = SubSeq(s, 1, b)
    <3>1. Len(s) = n /\ 1 \in 1 .. Len(s) + 1 /\ a \in 1 - 1 .. Len(s) /\ b \in a .. Len(s)
      BY <1>1, <2>1 DEF n
    <3> QED
      BY <3>1, ConcatAdjacentSubSeq
  <2>8. (before \o SubSeq(s, 1, a)) \o SubSeq(s, a + 1, b) = before \o SubSeq(s, 1, b)
    <3>1. (before \o SubSeq(s, 1, a)) \o SubSeq(s, a + 1, b)
             = before \o (SubSeq(s, 1, a) \o SubSeq(s, a + 1, b))
      <4> DEFINE u == SubSeq(s, 1, a)
                 v == SubSeq(s, a + 1, b)
      <4>1. before \in Seq(Bytes) /\ u \in Seq(Bytes) /\ v \in Seq(Bytes)
        BY <1>3, <2>6
      <4> HIDE DEF u, v
      <4>2. (before \o u) \o v = before \o (u \o v)
        BY <4>1, ConcatAssociative
      <4> QED
        BY <4>2 DEF u, v
    <3> QED
      BY <2>7, <3>1
  <2>9. Joined(f, k + (j + 1)) = before \o SubSeq(s, 1, End(j + 1))
    BY <2>2, <2>5, <2>8 DEF b
  <2>10. j + 1 \in 0 .. m
    BY <1>1
  <2> QED
    BY <2>9, <2>10
<1>10. Joined(f, k + m) = before \o s
  <2>1. m \in Nat /\ m \in 0 .. m
    BY <1>1
  <2> HIDE DEF T
  <2>2. \A j \in 0 .. m : j \in T
    BY <1>8, <1>9, <2>1, Upwards
  <2>3. m \in T
    BY <2>1, <2>2
  <2>4. SubSeq(s, 1, n) = s
    BY SubSeqFull DEF n
  <2> QED
    BY <1>7, <2>3, <2>4 DEF T
<1>11. BytesOf(w) = Joined(f, k + m)
  <2>1. k + m \in 0 .. DataPages
    BY <1>1, Constants
  <2>2. ASSUME NEW p \in Pages, p >= k + m PROVE w[p] = <<>>
    <3>1. p - k \notin 0 .. m - 1 /\ p >= k
      BY <1>1, <2>2, Constants DEF Pages
    <3>2. w[p] = block[p]
      BY <3>1, WrittenElsewhere DEF w, m, n
    <3> QED
      BY <3>1, <3>2
  <2> QED
    BY <1>2, <2>1, <2>2, BytesInFirst DEF f
<1> QED
  BY <1>10, <1>11 DEF w, before

-----------------------------------------------------------------------------
(***************************************************************************)
(* The bytes of the data blocks in turn.                                   *)
(***************************************************************************)
FirstBlocks(d, n) == FlattenSeq([b \in 1 .. n |-> BytesOf(d[b])])

LEMMA FirstBlocksSame ==
    ASSUME NEW n \in Nat, NEW d, NEW e, \A b \in 1 .. n : d[b] = e[b]
    PROVE  FirstBlocks(d, n) = FirstBlocks(e, n)
<1>1. [b \in 1 .. n |-> BytesOf(d[b])] = [b \in 1 .. n |-> BytesOf(e[b])]
  OBVIOUS
<1> QED
  BY <1>1 DEF FirstBlocks

LEMMA FirstBlocksIs ==
    ASSUME NEW d \in Seq(Blocks), NEW n \in 0 .. Len(d)
    PROVE  /\ FirstBlocks(d, n) \in Seq(Bytes) /\ FirstBlocks(d, 0) = <<>>
           /\ n < Len(d) => FirstBlocks(d, n + 1) = FirstBlocks(d, n) \o BytesOf(d[n + 1])
<1> DEFINE f == [b \in 1 .. Len(d) |-> BytesOf(d[b])]
<1>1. Len(d) \in Nat /\ n \in Nat
  BY LenProperties
<1>2. ASSUME NEW b \in 1 .. Len(d) PROVE f[b] = BytesOf(d[b]) /\ f[b] \in Seq(Bytes)
  <2>1. d[b] \in Blocks
    BY ElementOfSeq
  <2> QED
    BY <2>1, ChunksType
<1> HIDE DEF f
<1>3. ASSUME NEW m \in 0 .. Len(d) PROVE FirstBlocks(d, m) = Joined(f, m)
  <2>1. \A b \in 1 .. m : f[b] = BytesOf(d[b])
    BY <1>1, <1>2
  <2>2. [b \in 1 .. m |-> f[b]] = [b \in 1 .. m |-> BytesOf(d[b])]
    BY <2>1
  <2> QED
    BY <2>2 DEF FirstBlocks, Joined
<1>4. FirstBlocks(d, n) \in Seq(Bytes)
  <2>1. \A b \in 1 .. n : f[b] \in Seq(Bytes)
    BY <1>1, <1>2
  <2>2. Joined(f, n) \in Seq(Bytes)
    BY <1>1, <2>1, JoinedType
  <2> QED
    BY <1>3, <2>2
<1>5. FirstBlocks(d, 0) = <<>>
  BY <1>1, <1>3, JoinedNone
<1>6. ASSUME n < Len(d)
      PROVE  FirstBlocks(d, n + 1) = FirstBlocks(d, n) \o BytesOf(d[n + 1])
  <2>1. n + 1 \in 1 .. Len(d) /\ n + 1 \in 0 .. Len(d)
    BY <1>1, <1>6
  <2>2. \A b \in 1 .. n + 1 : f[b] \in Seq(Bytes)
    BY <1>1, <1>2, <2>1
  <2>3. Joined(f, n + 1) = Joined(f, n) \o f[n + 1]
    BY <1>1, <2>2, JoinedNext
  <2>4. f[n + 1] = BytesOf(d[n + 1])
    BY <1>2, <2>1
  <2>5. FirstBlocks(d, n + 1) = Joined(f, n + 1) /\ FirstBlocks(d, n) = Joined(f, n)
    BY <1>3, <2>1
  <2> QED
    BY <2>3, <2>4, <2>5
<1> QED
  BY <1>4, <1>5, <1>6

\* A blank block adds none.
LEMMA BlankBlockAdded ==
    ASSUME NEW d \in Seq(Blocks), NEW e, e = Append(d, BlankBlock)
    PROVE  /\ e \in Seq(Blocks) /\ Len(e) = Len(d) + 1 /\ e[Len(d) + 1] = BlankBlock
           /\ \A n \in 0 .. Len(d) : FirstBlocks(e, n) = FirstBlocks(d, n)
           /\ FirstBlocks(e, Len(d) + 1) = FirstBlocks(d, Len(d))
           /\ \A b \in 1 .. Len(d) : e[b] = d[b]
<1>1. Len(d) \in Nat
  BY LenProperties
<1>2. /\ e \in Seq(Blocks) /\ Len(e) = Len(d) + 1 /\ e[Len(d) + 1] = BlankBlock
      /\ \A b \in 1 .. Len(d) : e[b] = d[b]
  BY BytesOfBlank, AppendProperties
<1>3. ASSUME NEW n \in 0 .. Len(d) PROVE FirstBlocks(e, n) = FirstBlocks(d, n)
  <2>1. n \in Nat /\ \A b \in 1 .. n : e[b] = d[b]
    BY <1>1, <1>2
  <2> QED
    BY <2>1, FirstBlocksSame
<1>4. FirstBlocks(e, Len(d) + 1) = FirstBlocks(d, Len(d))
  <2> DEFINE m == Len(d)
  <2>1. m \in 0 .. Len(e) /\ m < Len(e) /\ m \in 0 .. Len(d)
    BY <1>1, <1>2
  <2>2. e[m + 1] = BlankBlock /\ FirstBlocks(e, m) = FirstBlocks(d, m)
    BY <1>2, <1>3, <2>1
  <2> HIDE DEF m
  <2>3. FirstBlocks(e, m + 1) = FirstBlocks(e, m) \o BytesOf(e[m + 1])
    BY <1>2, <2>1, FirstBlocksIs
  <2>4. FirstBlocks(d, m) \in Seq(Bytes)
    BY <2>1, FirstBlocksIs
  <2>5. FirstBlocks(d, m) \o <<>> = FirstBlocks(d, m)
    BY <2>4, ConcatEmptySeq
  <2>6. FirstBlocks(e, m + 1) = FirstBlocks(d, m)
    BY <2>2, <2>3, <2>5, BytesOfBlank
  <2> QED
    BY <2>6 DEF m
<1> QED
  BY <1>2, <1>3, <1>4

LEMMA UptoGrows ==
    ASSUME NEW m \in Nat, NEW n \in Nat
    PROVE  Upto(m) \o [i \in 1 .. n |-> m + i] = Upto(m + n)
<1> DEFINE s == Upto(m)
           t == [i \in 1 .. n |-> m + i]
           u == Upto(m + n)
<1>1. /\ s \in Seq(Nat) /\ Len(s) = m /\ \A i \in 1 .. m : s[i] = i
      /\ t \in Seq(Nat) /\ Len(t) = n /\ \A i \in 1 .. n : t[i] = m + i
      /\ u \in Seq(Nat) /\ Len(u) = m + n /\ \A i \in 1 .. m + n : u[i] = i
  <2>1. s \in [1 .. m -> Nat] /\ t \in [1 .. n -> Nat] /\ u \in [1 .. m + n -> Nat]
    BY DEF Upto
  <2>2. m + n \in Nat
    OBVIOUS
  <2> HIDE DEF s, t, u
  <2>3. s \in Seq(Nat) /\ Len(s) = m /\ t \in Seq(Nat) /\ Len(t) = n
    BY <2>1, FunctionIsSeq
  <2>4. u \in Seq(Nat) /\ Len(u) = m + n
    BY <2>1, <2>2, FunctionIsSeq
  <2> QED
    BY <2>3, <2>4 DEF s, t, u, Upto
<1> HIDE DEF s, t, u
<1>2. /\ s \o t \in Seq(Nat) /\ Len(s \o t) = m + n
      /\ \A i \in 1 .. m + n : (s \o t)[i] = IF i <= m THEN s[i] ELSE t[i - m]
  BY <1>1, ConcatProperties
<1>3. ASSUME NEW i \in 1 .. m + n PROVE (s \o t)[i] = u[i]
  <2>1. CASE i <= m
    BY <1>1, <1>2, <2>1
  <2>2. CASE ~(i <= m)
    <3>1. i - m \in 1 .. n /\ m + (i - m) = i
      BY <2>2
    <3>2. (s \o t)[i] = t[i - m] /\ t[i - m] = m + (i - m)
      BY <1>1, <1>2, <2>2, <3>1
    <3> QED
      BY <1>1, <3>1, <3>2
  <2> QED
    BY <2>1, <2>2
<1>4. s \o t = u
  BY <1>1, <1>2, <1>3, SeqEqual
<1> QED
  BY <1>4 DEF s, t, u

-----------------------------------------------------------------------------
(***************************************************************************)
(* The inductive invariant.                                                *)
(***************************************************************************)
\* The descriptor's data block is the last, and its offset that of the block.
Placed ==
    /\ fd.block = Len(data)
    /\ fd.block = NoBlock => fd.off = 0
    /\ fd.block # NoBlock => fd.off = Len(FirstBlocks(data, fd.block - 1))

ContentInv == IInv /\ Placed /\ NothingLostOrRepeated /\ EntriesPlaceBlocks

Rest == SubSeq(buf, done + 1, Len(buf))

LEMMA ContentIs ==
    ASSUME IInv
    PROVE  /\ data \in Seq(Blocks) /\ Len(data) \in Nat /\ fd.size \in Nat
           /\ StoredBytes = FirstBlocks(data, Len(data)) /\ StoredBytes \in Seq(Bytes)
           /\ Rest \in Seq(Bytes) /\ Len(Rest) = Count /\ Count \in Nat
           /\ \A i \in DOMAIN fse : fse[i].block \in 1 .. Len(data)
<1>1. data \in Seq(Blocks) /\ Len(data) \in Nat /\ fd.size \in Nat
  BY LenProperties DEF IInv, Shape, Blocks
<1>2. StoredBytes = FirstBlocks(data, Len(data)) /\ StoredBytes \in Seq(Bytes)
  <2>1. StoredBytes = FirstBlocks(data, Len(data))
    BY DEF StoredBytes, FirstBlocks
  <2>2. Len(data) \in 0 .. Len(data)
    BY <1>1
  <2> QED
    BY <1>1, <2>1, <2>2, FirstBlocksIs
<1>3. Rest \in Seq(Bytes) /\ Len(Rest) = Count /\ Count \in Nat
  <2>1. /\ buf \in Seq(Bytes) /\ Len(buf) \in Nat /\ done \in Nat /\ done <= Len(buf)
        /\ Count \in Nat
    BY CountType DEF IInv, Shape
  <2>2. done + 1 \in Int /\ Len(buf) \in Int /\ \A i \in done + 1 .. Len(buf) : buf[i] \in Bytes
    BY <2>1, ElementOfSeq
  <2>3. /\ Rest \in Seq(Bytes)
        /\ Len(Rest) = IF done + 1 <= Len(buf) THEN Len(buf) - (done + 1) + 1 ELSE 0
    BY <2>2, SubSeqProperties DEF Rest
  <2> QED
    BY <2>1, <2>3 DEF Count
<1>4. ASSUME NEW i \in DOMAIN fse PROVE fse[i].block \in 1 .. Len(data)
  <2> DEFINE E == [block : Nat \ {0}, fill : Nat \ {0}, off : Nat]
  <2>1. fse \in Seq(E)
    BY DEF IInv, Shape
  <2> HIDE DEF E
  <2>2. fse[i] \in E
    BY <2>1, AtIndex
  <2> USE DEF E
  <2>3. fse[i].block \in Nat \ {0} /\ fse[i].block <= Len(data)
    BY <2>2 DEF IInv, Bounds
  <2> QED
    BY <1>1, <2>3
<1> QED
  BY <1>1, <1>2, <1>3, <1>4

\* The two properties in these terms
LEMMA ContentInTerms ==
    /\ NothingLostOrRepeated <=> /\ Len(StoredBytes) = fd.size
                                 /\ StoredBytes \o Rest = Upto(fd.size + Count)
    /\ EntriesPlaceBlocks <=>
          \A i \in DOMAIN fse : fse[i].off = Len(FirstBlocks(data, fse[i].block - 1))
  BY DEF NothingLostOrRepeated, EntriesPlaceBlocks, Rest, FirstBlocks

LEMMA InitContent == Init => ContentInv
<1> SUFFICES ASSUME Init PROVE ContentInv
  OBVIOUS
<1>1. IInv /\ data = <<>> /\ fse = <<>> /\ buf = <<>> /\ done = 0
      /\ fd.block = NoBlock /\ fd.off = 0 /\ fd.size = 0
  BY InitHolds DEF Init
<1>2. Placed
  BY <1>1 DEF Placed, NoBlock
<1>3. Len(data) = 0 /\ Len(buf) = 0 /\ DOMAIN fse = {} /\ Count = 0
  BY <1>1 DEF Count
<1>4. StoredBytes = <<>>
  <2>1. data \in Seq(Blocks) /\ 0 \in 0 .. Len(data)
        /\ StoredBytes = FirstBlocks(data, 0)
    BY <1>1, <1>3, ContentIs
  <2> QED
    BY <2>1, FirstBlocksIs
<1>5. Rest = <<>> /\ Upto(0) = <<>>
  <2>1. Rest = <<>>
    BY <1>1, <1>3, SubSeqEmpty DEF Rest
  <2> QED
    BY <2>1 DEF Upto
<1>6. NothingLostOrRepeated /\ EntriesPlaceBlocks
  BY <1>1, <1>3, <1>4, <1>5, ContentInTerms
<1> QED
  BY <1>1, <1>2, <1>6 DEF ContentInv

\* A step that changes no data
LEMMA ContentUnchanged ==
    ASSUME ContentInv, IInv', UNCHANGED <<data, fse, buf, done>>,
           fd'.block = fd.block, fd'.off = fd.off, fd'.size = fd.size
    PROVE  ContentInv'
<1>1. Count' = Count /\ StoredBytes' = StoredBytes
  BY DEF Count, StoredBytes
<1>2. Placed'
  BY DEF ContentInv, Placed
<1>3. NothingLostOrRepeated' /\ EntriesPlaceBlocks'
  BY <1>1 DEF ContentInv, NothingLostOrRepeated, EntriesPlaceBlocks
<1> QED
  BY <1>2, <1>3 DEF ContentInv

LEMMA WriteContent ==
    ASSUME ContentInv, NEW n \in 1 .. Capacity, Write(n)
    PROVE  ContentInv'
<1> DEFINE new == [i \in 1 .. n |-> fd.size + Count + i]
<1>1. IInv /\ IInv'
  BY WriteKeeps DEF ContentInv
<1>2. /\ buf' = buf \o new /\ UNCHANGED <<data, fse, done>> /\ done = 0
      /\ fd' = [fd EXCEPT !.offset = @ + n]
  BY <1>1 DEF Write, IInv, InCall
<1>3. fd'.block = fd.block /\ fd'.off = fd.off /\ fd'.size = fd.size
  BY <1>1, <1>2 DEF IInv, Shape
<1>4. Placed'
  BY <1>2, <1>3 DEF ContentInv, Placed
<1>5. EntriesPlaceBlocks'
  BY <1>2 DEF ContentInv, EntriesPlaceBlocks
<1>6. Count \in Nat /\ fd.size \in Nat /\ StoredBytes \in Seq(Bytes) /\ StoredBytes' = StoredBytes
  BY <1>1, <1>2, ContentIs DEF StoredBytes
<1>7. new \in Seq(Nat) /\ Len(new) = n /\ n \in Nat
  <2>1. new \in [1 .. n -> Nat] /\ n \in Nat
    BY <1>6, Constants
  <2> HIDE DEF new
  <2> QED
    BY <2>1, FunctionIsSeq
<1>8. Rest = buf /\ Rest' = buf' /\ buf \in Seq(Bytes) /\ buf' \in Seq(Bytes)
  <2>1. buf \in Seq(Bytes) /\ buf' \in Seq(Bytes)
    BY <1>1 DEF IInv, Shape
  <2>2. SubSeq(buf, 1, Len(buf)) = buf /\ SubSeq(buf', 1, Len(buf')) = buf'
    BY <2>1, SubSeqFull
  <2>3. done + 1 = 1 /\ done' + 1 = 1
    BY <1>2
  <2> QED
    BY <2>1, <2>2, <2>3 DEF Rest
<1> HIDE DEF new
<1>9. Count' = Count + n
  <2>1. Bytes \subseteq Nat
    BY DEF Bytes
  <2>2. buf \in Seq(Nat) /\ Len(buf) \in Nat
    BY <1>8, <2>1, SeqMonotonic, LenProperties
  <2>3. Len(buf') = Len(buf) + n
    BY <1>2, <1>7, <2>2, ConcatProperties
  <2> QED
    BY <1>2, <1>7, <2>2, <2>3 DEF Count
<1>10. StoredBytes' \o Rest' = Upto(fd'.size + Count')
  <2>1. StoredBytes \o buf = Upto(fd.size + Count)
    BY <1>8, ContentInTerms DEF ContentInv
  <2>2. StoredBytes \in Seq(Nat) /\ buf \in Seq(Nat)
    <3>1. Bytes \subseteq Nat
      BY DEF Bytes
    <3> QED
      BY <1>6, <1>8, <3>1, SeqMonotonic
  <2>3. StoredBytes \o (buf \o new) = (StoredBytes \o buf) \o new
    BY <1>7, <2>2, ConcatAssociative
  <2> DEFINE m == fd.size + Count
  <2>4. m \in Nat /\ fd'.size + Count' = m + n
    BY <1>3, <1>6, <1>7, <1>9
  <2>5. new = [i \in 1 .. n |-> m + i]
    BY DEF new
  <2> HIDE DEF m
  <2>6. Upto(m) \o new = Upto(m + n)
    BY <1>7, <2>4, <2>5, UptoGrows
  <2> QED
    BY <1>2, <1>6, <1>8, <2>1, <2>3, <2>4, <2>6 DEF m
<1>11. NothingLostOrRepeated'
  <2>1. Len(StoredBytes') = fd'.size
    BY <1>3, <1>6 DEF ContentInv, NothingLostOrRepeated
  <2> QED
    BY <1>10, <2>1 DEF NothingLostOrRepeated, Rest
<1> QED
  BY <1>1, <1>4, <1>5, <1>11 DEF ContentInv

\* The file's first data block is blank.
LEMMA FsyncContent ==
    ASSUME ContentInv, Fsync
    PROVE  ContentInv'
<1>1. IInv /\ IInv' /\ UNCHANGED <<fse, buf, done>>
  BY FsyncKeeps DEF ContentInv, Fsync
<1>2. CASE fd.block # NoBlock
  <2>1. UNCHANGED <<data, fd>>
    BY <1>2 DEF Fsync
  <2> QED
    BY <1>1, <2>1, ContentUnchanged
<1>3. CASE fd.block = NoBlock
  <2>1. data' = Append(data, BlankBlock) /\ fd' = [fd EXCEPT !.block = Len(data) + 1]
    BY <1>3 DEF Fsync
  <2>2. fd'.block = Len(data) + 1 /\ fd'.off = fd.off /\ fd'.size = fd.size
    BY <1>1, <2>1 DEF IInv, Shape
  <2>3. data \in Seq(Blocks) /\ Len(data) = 0 /\ fd.off = 0
    BY <1>1, <1>3, ContentIs DEF ContentInv, Placed, NoBlock
  <2>4. /\ data' \in Seq(Blocks) /\ Len(data') = Len(data) + 1
        /\ FirstBlocks(data', Len(data) + 1) = FirstBlocks(data, Len(data))
        /\ FirstBlocks(data', 0) = <<>>
    <3>1. \A e : e = Append(data, BlankBlock) =>
                    /\ e \in Seq(Blocks) /\ Len(e) = Len(data) + 1
                    /\ FirstBlocks(e, Len(data) + 1) = FirstBlocks(data, Len(data))
      BY <2>3, BlankBlockAdded
    <3>2. 0 \in 0 .. Len(data')
      BY <2>1, <2>3, <3>1
    <3>3. \A e \in Seq(Blocks) : 0 \in 0 .. Len(e) => FirstBlocks(e, 0) = <<>>
      BY FirstBlocksIs
    <3> QED
      BY <2>1, <3>1, <3>2, <3>3
  <2>5. Placed'
    <3>1. fd'.block = 1 /\ fd'.block - 1 = 0 /\ fd'.off = Len(<<>>)
      BY <2>2, <2>3
    <3> QED
      BY <2>2, <2>4, <3>1 DEF Placed, NoBlock
  <2>6. StoredBytes' = StoredBytes
    <3>1. StoredBytes' = FirstBlocks(data', Len(data'))
      BY DEF StoredBytes, FirstBlocks
    <3> QED
      BY <1>1, <2>4, <3>1, ContentIs
  <2>7. NothingLostOrRepeated'
    BY <1>1, <2>2, <2>6 DEF ContentInv, NothingLostOrRepeated, Count
  <2>8. EntriesPlaceBlocks'
    <3>1. DOMAIN fse = {}
      BY <1>1, <2>3, ContentIs
    <3> QED
      BY <1>1, <3>1 DEF EntriesPlaceBlocks
  <2> QED
    BY <1>1, <2>5, <2>7, <2>8 DEF ContentInv
<1> QED
  BY <1>2, <1>3

\* The block that a turn of the loop of r2f2_fsync writes to is the last one, and has
\* its place: a new one the end of the file.
LEMMA TurnPlaced ==
    ASSUME ContentInv, pc = "fsync"
    PROVE  /\ TurnBlocks \in Seq(Blocks) /\ TurnFd.block = Len(TurnBlocks)
           /\ Len(TurnBlocks) \in Nat \ {0}
           /\ \A b \in 1 .. Len(data) : TurnBlocks[b] = data[b]
           /\ FirstBlocks(TurnBlocks, Len(TurnBlocks)) = StoredBytes
           /\ TurnFd.off = Len(FirstBlocks(TurnBlocks, Len(TurnBlocks) - 1))
<1>1. /\ IInv /\ data \in Seq(Blocks) /\ Len(data) \in Nat
      /\ StoredBytes = FirstBlocks(data, Len(data))
      /\ fd.block = Len(data) /\ fd.block # NoBlock /\ Len(StoredBytes) = fd.size
      /\ fd.off = Len(FirstBlocks(data, fd.block - 1))
  BY ContentIs DEF ContentInv, Placed, IInv, InCall, NothingLostOrRepeated
<1>2. CASE fd.fill = Capacity
  <2>1. TurnBlocks = Append(data, BlankBlock) /\ TurnFd = NextBlock(fd, Len(data) + 1)
    BY <1>2 DEF TurnBlocks, TurnFd
  <2>2. /\ TurnBlocks \in Seq(Blocks) /\ Len(TurnBlocks) = Len(data) + 1
        /\ \A n \in 0 .. Len(data) : FirstBlocks(TurnBlocks, n) = FirstBlocks(data, n)
        /\ FirstBlocks(TurnBlocks, Len(data) + 1) = FirstBlocks(data, Len(data))
        /\ \A b \in 1 .. Len(data) : TurnBlocks[b] = data[b]
    <3>1. \A e : e = Append(data, BlankBlock) =>
             /\ e \in Seq(Blocks) /\ Len(e) = Len(data) + 1
             /\ \A n \in 0 .. Len(data) : FirstBlocks(e, n) = FirstBlocks(data, n)
             /\ FirstBlocks(e, Len(data) + 1) = FirstBlocks(data, Len(data))
             /\ \A b \in 1 .. Len(data) : e[b] = data[b]
      BY <1>1, BlankBlockAdded
    <3> QED
      BY <2>1, <3>1
  <2>3. TurnFd.block = Len(data) + 1 /\ TurnFd.off = fd.size
    BY <1>1, <2>1 DEF IInv, Shape, NextBlock
  <2>4. Len(data) \in 0 .. Len(data) /\ Len(TurnBlocks) - 1 = Len(data)
    BY <1>1, <2>2
  <2> QED
    BY <1>1, <2>2, <2>3, <2>4
<1>3. CASE fd.fill # Capacity
  <2>1. TurnBlocks = data /\ TurnFd = fd
    BY <1>3 DEF TurnBlocks, TurnFd
  <2> QED
    BY <1>1, <2>1 DEF NoBlock
<1> QED
  BY <1>2, <1>3

LEMMA FsyncChunkContent ==
    ASSUME ContentInv, FsyncChunk
    PROVE  ContentInv'
<1> DEFINE blocks == TurnBlocks
           L == Len(TurnBlocks)
           n == TurnBytes
           chunk == ChunkOf(TurnBytes)
           w == WriteData(TurnBlocks[L], TurnFd.fill, chunk)
           entry == [block |-> L, fill |-> Filled(TurnFd.fill, n), off |-> TurnFd.off]
<1>1. IInv /\ IInv' /\ pc = "fsync"
  BY FsyncChunkKeeps DEF ContentInv, FsyncChunk
<1>2. /\ blocks \in Seq(Blocks) /\ TurnFd.block = L /\ L \in Nat \ {0}
      /\ \A b \in 1 .. Len(data) : blocks[b] = data[b]
      /\ FirstBlocks(blocks, L) = StoredBytes
      /\ TurnFd.off = Len(FirstBlocks(blocks, L - 1))
  BY <1>1, TurnPlaced
<1>3. /\ TurnFd \in [block : Nat, fill : Fills, off : Nat, size : Nat, offset : Nat]
      /\ TurnFd.size = fd.size /\ Len(data) <= L /\ TurnFd.fill < Capacity
      /\ \A p \in Pages : p * PageSize >= TurnFd.fill => blocks[L][p] = <<>>
      /\ \E k \in 0 .. DataPages : TurnFd.fill = k * PageSize
      /\ n \in Nat \ {0} /\ n <= Count /\ n <= Capacity - TurnFd.fill
      /\ Count = Len(buf) - done /\ chunk \in Seq(Bytes) /\ Len(chunk) = n
  BY <1>1, <1>2, TurnFacts
<1>4. /\ data' = [blocks EXCEPT ![L] = w]
      /\ fd' = [TurnFd EXCEPT !.fill = Filled(TurnFd.fill, n), !.size = TurnFd.size + n]
      /\ fse' = Append(fse, entry)
      /\ IF done + n < Len(buf)
         THEN done' = done + n /\ UNCHANGED <<buf, pc>>
         ELSE done' = 0 /\ buf' = <<>> /\ pc' = "idle"
  BY <1>2 DEF FsyncChunk, TurnBlocks, TurnFd, TurnBytes
<1>5. fd'.block = L /\ fd'.off = TurnFd.off /\ fd'.size = fd.size + n
  BY <1>2, <1>3, <1>4
<1>6. w \in Blocks /\ BytesOf(w) = BytesOf(blocks[L]) \o chunk
  <2>1. PICK k \in 0 .. DataPages : TurnFd.fill = k * PageSize
    BY <1>3
  <2> DEFINE block == blocks[L]
  <2>2. block \in Blocks /\ L \in 1 .. L
    BY <1>2, ElementOfSeq
  <2>3. \A p \in Pages : p >= k => block[p] = <<>>
    <3>1. \A p \in Pages : p >= k => p * PageSize >= k * PageSize
      BY Scale, Constants DEF Pages
    <3> QED
      BY <1>3, <2>1, <3>1
  <2>4. chunk # <<>> /\ Len(chunk) <= Capacity - k * PageSize /\ chunk \in Seq(Bytes)
    BY <1>3, <2>1
  <2>5. w = WriteData(block, k * PageSize, chunk)
    BY <2>1
  <2> HIDE DEF block, w, chunk
  <2>6. BytesOf(WriteData(block, k * PageSize, chunk)) = BytesOf(block) \o chunk
    BY <2>2, <2>3, <2>4, BytesWritten
  <2>7. WriteData(block, k * PageSize, chunk) \in Blocks
    BY <2>2, <2>4, Written DEF Blocks
  <2> QED
    BY <2>5, <2>6, <2>7 DEF block
<1> HIDE DEF blocks, L, n, chunk, w, entry
<1>7. /\ data' \in Seq(Blocks) /\ Len(data') = L /\ data'[L] = w
      /\ \A b \in 1 .. L - 1 : data'[b] = blocks[b]
  <2>1. L \in 1 .. Len(blocks) /\ Len(blocks) = L
    BY <1>2 DEF L, blocks
  <2>2. /\ [blocks EXCEPT ![L] = w] \in Seq(Blocks)
        /\ Len([blocks EXCEPT ![L] = w]) = Len(blocks)
        /\ \A j \in 1 .. Len(blocks) :
              [blocks EXCEPT ![L] = w][j] = IF j = L THEN w ELSE blocks[j]
    BY <1>2, <1>6, <2>1, ExceptSeq
  <2> QED
    BY <1>2, <1>4, <2>1, <2>2
<1>8. \A m \in 0 .. L - 1 : FirstBlocks(data', m) = FirstBlocks(blocks, m)
  <2> SUFFICES ASSUME NEW m \in 0 .. L - 1
               PROVE  FirstBlocks(data', m) = FirstBlocks(blocks, m)
    OBVIOUS
  <2>1. m \in Nat /\ \A b \in 1 .. m : data'[b] = blocks[b]
    BY <1>2, <1>7
  <2>2. \A e : (\A b \in 1 .. m : e[b] = blocks[b]) => FirstBlocks(e, m) = FirstBlocks(blocks, m)
    BY <2>1, FirstBlocksSame
  <2> QED
    BY <2>1, <2>2
<1>9. StoredBytes' = StoredBytes \o chunk
  <2> DEFINE m == L - 1
             before == FirstBlocks(blocks, m)
  <2>1. m \in Nat /\ m + 1 = L /\ m \in 0 .. L - 1 /\ Len(blocks) = L
    BY <1>2 DEF L, blocks
  <2>2. before \in Seq(Bytes) /\ StoredBytes = before \o BytesOf(blocks[L])
    <3>1. m \in 0 .. Len(blocks) /\ m < Len(blocks)
      BY <1>2, <2>1
    <3> HIDE DEF m
    <3>2. /\ FirstBlocks(blocks, m) \in Seq(Bytes)
          /\ FirstBlocks(blocks, m + 1) = FirstBlocks(blocks, m) \o BytesOf(blocks[m + 1])
      BY <1>2, <3>1, FirstBlocksIs
    <3> QED
      BY <1>2, <2>1, <3>2
  <2>3. StoredBytes' = before \o BytesOf(w)
    <3>1. StoredBytes' = FirstBlocks(data', L)
      BY <1>7 DEF StoredBytes, FirstBlocks
    <3>2. m \in 0 .. Len(data') /\ m < Len(data')
      BY <1>2, <1>7, <2>1
    <3>3. FirstBlocks(data', m) = before
      BY <1>8, <2>1
    <3> HIDE DEF m, before
    <3>4. \A e \in Seq(Blocks) : m \in 0 .. Len(e) /\ m < Len(e) =>
             FirstBlocks(e, m + 1) = FirstBlocks(e, m) \o BytesOf(e[m + 1])
      BY FirstBlocksIs
    <3>5. FirstBlocks(data', m + 1) = FirstBlocks(data', m) \o BytesOf(data'[m + 1])
      BY <1>7, <3>2, <3>4
    <3> QED
      BY <1>7, <2>1, <3>1, <3>3, <3>5
  <2>4. BytesOf(blocks[L]) \in Seq(Bytes)
    <3>1. blocks[L] \in Blocks
      BY <1>2, <2>1, ElementOfSeq
    <3> QED
      BY <3>1, ChunksType
  <2> HIDE DEF before
  <2> DEFINE last == BytesOf(blocks[L])
  <2>5. last \in Seq(Bytes) /\ chunk \in Seq(Bytes)
    BY <1>3, <2>4
  <2> HIDE DEF last
  <2>6. (before \o last) \o chunk = before \o (last \o chunk)
    BY <2>2, <2>5, ConcatAssociative
  <2> QED
    BY <1>6, <2>2, <2>3, <2>6 DEF last
<1>10. Rest = chunk \o Rest' /\ Count' = Count - n
  <2>1. /\ buf \in Seq(Bytes) /\ Len(buf) \in Nat /\ done \in Nat /\ done <= Len(buf)
        /\ done + n <= Len(buf) /\ Count = Len(buf) - done
    BY <1>1, <1>3, CountType DEF IInv, Shape
  <2>2. chunk = SubSeq(buf, done + 1, done + n)
    BY DEF chunk, n, ChunkOf
  <2> DEFINE a == done + n
             later == SubSeq(buf, a + 1, Len(buf))
  <2>3. SubSeq(buf, done + 1, a) \o SubSeq(buf, a + 1, Len(buf)) = SubSeq(buf, done + 1, Len(buf))
    <3>1. done + 1 \in 1 .. Len(buf) + 1 /\ a \in (done + 1) - 1 .. Len(buf)
          /\ Len(buf) \in a .. Len(buf)
      BY <1>3, <2>1
    <3> HIDE DEF a
    <3> QED
      BY <2>1, <3>1, ConcatAdjacentSubSeq
  <2>4. Rest' = later /\ Count' = Count - n
    <3>1. CASE a < Len(buf)
      <4>1. done' = a /\ buf' = buf
        BY <1>4, <3>1
      <4> QED
        BY <1>3, <2>1, <4>1 DEF Rest, Count
    <3>2. CASE ~(a < Len(buf))
      <4>1. done' = 0 /\ buf' = <<>> /\ a = Len(buf)
        BY <1>3, <1>4, <2>1, <3>2
      <4>2. Len(buf') = 0 /\ done' + 1 = 1
        BY <4>1
      <4>3. SubSeq(buf', 1, 0) = <<>>
        BY SubSeqEmpty
      <4>4. later = <<>>
        BY <2>1, <4>1, SubSeqEmpty
      <4> QED
        BY <1>3, <2>1, <4>1, <4>2, <4>3, <4>4 DEF Rest, Count
    <3> QED
      BY <3>1, <3>2
  <2> QED
    BY <2>2, <2>3, <2>4 DEF Rest
<1>11. NothingLostOrRepeated'
  <2>1. /\ StoredBytes \in Seq(Bytes) /\ chunk \in Seq(Bytes)
        /\ fd.size \in Nat /\ Count \in Nat
    BY <1>1, <1>3, ContentIs
  <2>2. Rest' \in Seq(Bytes)
    <3>1. buf' \in Seq(Bytes) /\ Len(buf') \in Nat /\ done' \in Nat
      BY <1>1 DEF IInv, Shape
    <3>2. \A b, d : b \in Seq(Bytes) /\ d \in Nat => SubSeq(b, d + 1, Len(b)) \in Seq(Bytes)
      <4> SUFFICES ASSUME NEW b \in Seq(Bytes), NEW d \in Nat
                   PROVE  SubSeq(b, d + 1, Len(b)) \in Seq(Bytes)
        OBVIOUS
      <4>1. d + 1 \in Int /\ Len(b) \in Int /\ \A i \in d + 1 .. Len(b) : b[i] \in Bytes
        BY ElementOfSeq
      <4> QED
        BY <4>1, SubSeqProperties
    <3> QED
      BY <3>1, <3>2 DEF Rest
  <2>3. Len(StoredBytes) = fd.size /\ StoredBytes \o Rest = Upto(fd.size + Count)
    BY ContentInTerms DEF ContentInv
  <2>4. Len(StoredBytes') = fd'.size
    <3>1. Len(StoredBytes \o chunk) = Len(StoredBytes) + Len(chunk)
      BY <2>1, ConcatProperties
    <3> QED
      BY <1>3, <1>5, <1>9, <2>3, <3>1
  <2>5. fd'.size + Count' = fd.size + Count
    BY <1>3, <1>5, <1>10, <2>1
  <2>6. StoredBytes' \o Rest' = StoredBytes \o Rest
    <3>1. \A r \in Seq(Bytes) : (StoredBytes \o chunk) \o r = StoredBytes \o (chunk \o r)
      BY <2>1, ConcatAssociative
    <3> QED
      BY <1>9, <1>10, <2>2, <3>1
  <2>7. StoredBytes' \o Rest' = Upto(fd'.size + Count')
    BY <2>3, <2>5, <2>6
  <2> QED
    BY <2>4, <2>7 DEF NothingLostOrRepeated, Rest
<1>12. Placed'
  <2>1. L - 1 \in 0 .. L - 1
    BY <1>2
  <2> QED
    BY <1>2, <1>5, <1>7, <1>8, <2>1 DEF Placed, NoBlock
<1>13. EntriesPlaceBlocks'
  <2> DEFINE E == [block : Nat \ {0}, fill : Nat \ {0}, off : Nat]
  <2>1. fse \in Seq(E) /\ fse' = Append(fse, entry) /\ fse' \in Seq(E) /\ Len(fse) \in Nat
    BY <1>1, <1>4 DEF IInv, Shape
  <2>2. entry.block = L /\ entry.off = TurnFd.off
    BY DEF entry
  <2> SUFFICES ASSUME NEW i \in DOMAIN fse'
               PROVE  fse'[i].off = Len(FirstBlocks(data', fse'[i].block - 1))
    BY DEF EntriesPlaceBlocks, FirstBlocks
  <2> HIDE DEF E
  <2>3. i \in 1 .. Len(fse) + 1 /\ DOMAIN fse = 1 .. Len(fse)
    <3>1. Len(fse') = Len(fse) + 1 /\ DOMAIN fse' = 1 .. Len(fse')
      BY <2>1
    <3> QED
      BY <2>1, <3>1
  <2>4. CASE i = Len(fse) + 1
    <3>1. fse'[i] = entry
      BY <2>1, <2>4
    <3>2. L - 1 \in 0 .. L - 1
      BY <1>2
    <3> QED
      BY <1>2, <1>8, <2>2, <3>1, <3>2
  <2>5. CASE i # Len(fse) + 1
    <3>1. i \in DOMAIN fse /\ i \in 1 .. Len(fse)
      BY <2>1, <2>3, <2>5
    <3>2. fse'[i] = fse[i]
      BY <2>1, <3>1
    <3> DEFINE m == fse[i].block - 1
    <3>3. m \in 0 .. L - 1 /\ m \in Nat /\ \A b \in 1 .. m : b \in 1 .. Len(data)
      <4>1. fse[i].block \in 1 .. Len(data) /\ Len(data) \in Nat
        BY <1>1, <3>1, ContentIs
      <4>2. L \in Nat /\ Len(data) <= L
        BY <1>2, <1>3 DEF L
      <4> QED
        BY <4>1, <4>2
    <3>4. fse[i].off = Len(FirstBlocks(data, m))
      BY <3>1, ContentInTerms DEF ContentInv
    <3>5. \A b \in 1 .. m : blocks[b] = data[b]
      BY <1>2, <3>3
    <3> HIDE DEF m
    <3>6. FirstBlocks(blocks, m) = FirstBlocks(data, m)
      BY <3>3, <3>5, FirstBlocksSame
    <3> QED
      BY <1>8, <3>2, <3>3, <3>4, <3>6 DEF m
  <2> QED
    BY <2>4, <2>5
<1> QED
  BY <1>1, <1>11, <1>12, <1>13 DEF ContentInv

\* r2f2_lseek and r2f2_read move the offset alone.
LEMMA OffsetContent ==
    ASSUME ContentInv, IInv', NEW offset, fd' = [fd EXCEPT !.offset = offset],
           UNCHANGED <<data, fse, buf, done>>
    PROVE  ContentInv'
<1>1. fd'.block = fd.block /\ fd'.off = fd.off /\ fd'.size = fd.size
  BY DEF ContentInv, IInv, Shape
<1> QED
  BY <1>1, ContentUnchanged

LEMMA ContentInductive == ContentInv /\ [Next]_vars => ContentInv'
<1> SUFFICES ASSUME ContentInv, [Next]_vars PROVE ContentInv'
  OBVIOUS
<1>1. IInv'
  BY Inductive DEF ContentInv
<1>2. ASSUME NEW n \in 1 .. Capacity, Write(n) PROVE ContentInv'
  BY <1>2, WriteContent
<1>3. ASSUME Fsync PROVE ContentInv'
  BY <1>3, FsyncContent
<1>4. ASSUME FsyncChunk PROVE ContentInv'
  BY <1>4, FsyncChunkContent
<1>5. ASSUME NEW whence \in {"SET", "CUR", "END"}, NEW delta \in -MaxBytes .. MaxBytes,
             Lseek(whence, delta)
      PROVE  ContentInv'
  <2>1. UNCHANGED <<data, fse, buf, done>> /\ \E o : fd' = [fd EXCEPT !.offset = o]
    BY <1>5 DEF Lseek
  <2> QED
    BY <1>1, <2>1, OffsetContent
<1>6. ASSUME NEW n \in 1 .. MaxBytes, Read(n) PROVE ContentInv'
  <2>1. UNCHANGED <<data, fse, buf, done>>
    BY <1>6 DEF Read
  <2>2. CASE fd' = [fd EXCEPT !.offset = @ + n]
    BY <1>1, <2>1, <2>2, OffsetContent
  <2>3. CASE UNCHANGED fd
    BY <1>1, <2>1, <2>3, ContentUnchanged
  <2> QED
    BY <1>6, <2>2, <2>3 DEF Read
<1>7. CASE UNCHANGED vars
  BY <1>1, <1>7, ContentUnchanged DEF vars
<1> QED
  BY <1>2, <1>3, <1>4, <1>5, <1>6, <1>7 DEF Next

-----------------------------------------------------------------------------
(***************************************************************************)
(* What follows from it.                                                   *)
(***************************************************************************)
\* The bytes on flash, the descriptor and the sequence entries agree, always: the
\* inductive invariant of both theorems below.
THEOREM ContentInvariance == Spec => []ContentInv
  BY InitContent, ContentInductive, PTL DEF Spec

\* Whatever the page and block size and however the application cuts its writes with
\* r2f2_fsync, the data blocks hold the bytes of the file in order, each once, and the
\* block buffer those that follow.
THEOREM BytesInOrder == Spec => []NothingLostOrRepeated
<1>1. ContentInv => NothingLostOrRepeated
  BY DEF ContentInv
<1> QED
  BY <1>1, ContentInvariance, PTL

\* Whatever the page and block size and the mix of short pages, the offset in every
\* sequence entry that r2f2_fsync writes is the place in the file of its block's first byte.
THEOREM EntriesPlaced == Spec => []EntriesPlaceBlocks
<1>1. ContentInv => EntriesPlaceBlocks
  BY DEF ContentInv
<1> QED
  BY <1>1, ContentInvariance, PTL
=============================================================================
