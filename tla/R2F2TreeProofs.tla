--------------------------- MODULE R2F2TreeProofs ---------------------------
(***************************************************************************)
(* Theorems about the directories and the garbage collector, for every set *)
(* of blocks and paths, as long as an fsync ends with a data block: the    *)
(* tree of blocks stays a tree (TreeInv), what is freed is free, lookup    *)
(* finds what it found, and no block is lost on the way.                   *)
(***************************************************************************)
EXTENDS R2F2Gc, FiniteSetTheorems, SequenceTheorems, WellFoundedInduction, TLAPS

LEMMA Given ==
    /\ DirEntries \in Nat \ {0} /\ SeqEntries \in Nat \ {0} /\ IndirEntries \in Nat \ {0}
    /\ Idx \subseteq Nat /\ 1 \in Idx /\ \A i \in Idx : i > 0 /\ i <= DirEntries
    /\ None \notin Blocks /\ FirstRoot \in Blocks
    /\ Files \subseteq Paths /\ Dirs \subseteq Paths /\ Files \cap Dirs = {}
    /\ Paths = Files \cup Dirs
    /\ Root \notin Paths /\ Blank \notin Paths /\ Zeroed \notin Paths /\ Blank # Zeroed
    /\ Home \in [Paths -> Dirs \cup {Root}]
    /\ \A D \in SUBSET Dirs : D # {} => \E d \in D : Home[d] \notin D
    /\ MaxCrashes \in Nat
BY TreeAssumption DEF TreeAssumption, Idx, None, Paths, Blank, Zeroed

-----------------------------------------------------------------------------
(***************************************************************************)
(* Least elements, and sequences.                                          *)
(***************************************************************************)
LEMMA LeastElement ==
    ASSUME NEW T, T \subseteq Nat, T # {}
    PROVE  Min(T) \in T /\ \A t \in T : Min(T) <= t
<1> DEFINE less == OpToRel(<, Nat)
<1>1. \A y, x \in Nat : y < x => <<y, x>> \in less
  BY DEF OpToRel
<1>2. IsWellFoundedOn(less, Nat)
  BY NatLessThanWellFounded
<1> HIDE DEF less
<1>3. PICK x \in T : \A y \in T : ~(<<y, x>> \in less)
  BY <1>2, WFMin
<1>4. ASSUME NEW y \in T PROVE x <= y
  <2>1. y \in Nat /\ x \in Nat
    OBVIOUS
  <2>2. ~(y < x)
    BY <1>1, <1>3, <2>1
  <2> QED
    BY <2>1, <2>2
<1> QED
  BY <1>4 DEF Min

\* What a sequence is
LEMMA SeqIs ==
    ASSUME NEW S, NEW s \in Seq(S)
    PROVE  /\ Len(s) \in Nat /\ DOMAIN s = 1 .. Len(s) /\ \A i \in DOMAIN s : s[i] \in S
           /\ s # <<>> <=> Len(s) > 0
           /\ s # <<>> => Last(s) \in S /\ Last(s) = s[Len(s)] /\ Len(s) \in DOMAIN s
           /\ s = <<>> => DOMAIN s = {}
<1>1. Len(s) \in Nat /\ DOMAIN s = 1 .. Len(s)
  BY LenProperties
<1>2. \A i \in DOMAIN s : s[i] \in S
  BY <1>1, ElementOfSeq
<1>3. s # <<>> <=> Len(s) > 0
  BY <1>1, EmptySeq
<1>4. s # <<>> => Len(s) \in DOMAIN s
  BY <1>1, <1>3
<1>5. s = <<>> => DOMAIN s = {}
  BY <1>1, <1>3
<1> QED
  BY <1>1, <1>2, <1>3, <1>4, <1>5 DEF Last

\* A sequence with one more element
LEMMA Appended ==
    ASSUME NEW S, NEW s \in Seq(S), NEW x \in S, NEW t, t = Append(s, x)
    PROVE  /\ t \in Seq(S) /\ t # <<>> /\ Len(t) = Len(s) + 1 /\ Last(t) = x
           /\ DOMAIN t = DOMAIN s \cup {Len(s) + 1} /\ Len(s) + 1 \notin DOMAIN s
           /\ t[Len(s) + 1] = x /\ \A i \in DOMAIN s : t[i] = s[i]
<1>1. Len(s) \in Nat /\ DOMAIN s = 1 .. Len(s)
  BY SeqIs
<1>2. Append(s, x) \in Seq(S)
  BY AppendProperties
<1>3. Len(Append(s, x)) = Len(s) + 1
  BY AppendProperties
<1>4. \A i \in 1 .. Len(s) : Append(s, x)[i] = s[i]
  BY AppendProperties
<1>5. Append(s, x)[Len(s) + 1] = x
  BY AppendProperties
<1>6. /\ t \in Seq(S) /\ Len(t) = Len(s) + 1 /\ t[Len(s) + 1] = x
      /\ \A i \in 1 .. Len(s) : t[i] = s[i]
  BY <1>2, <1>3, <1>4, <1>5, Zenon
<1>7. Len(t) \in Nat /\ DOMAIN t = 1 .. Len(t) /\ (t # <<>> <=> Len(t) > 0)
  BY <1>6, SeqIs
<1>8. t # <<>> /\ DOMAIN t = DOMAIN s \cup {Len(s) + 1} /\ Len(s) + 1 \notin DOMAIN s
  BY <1>1, <1>6, <1>7
<1>9. Last(t) = x
  BY <1>6 DEF Last
<1> QED
  BY <1>1, <1>6, <1>8, <1>9

LEMMA Pushed ==
    \A S : \A s \in Seq(S), x \in S : \A t : t = Append(s, x) =>
        t \in Seq(S) /\ t # <<>> /\ Len(t) = Len(s) + 1 /\ Last(t) = x
<1> SUFFICES ASSUME NEW S, NEW s \in Seq(S), NEW x \in S, NEW t, t = Append(s, x)
             PROVE  t \in Seq(S) /\ t # <<>> /\ Len(t) = Len(s) + 1 /\ Last(t) = x
  OBVIOUS
<1>1. t \in Seq(S) /\ t # <<>> /\ Len(t) = Len(s) + 1 /\ t[Len(s) + 1] = x
  BY Appended
<1> QED
  BY <1>1 DEF Last

\* The first elements of a sequence
LEMMA Started ==
    ASSUME NEW S, NEW s \in Seq(S), NEW n \in Nat, n <= Len(s)
    PROVE  SubSeq(s, 1, n) = [i \in 1 .. n |-> s[i]]
<1>1. SubSeq(s, 1, n) = [i \in 1 .. (1 + n - 1) |-> s[1 + i - 1]]
  BY DEF SubSeq
<1>2. 1 + n - 1 = n /\ \A i \in 1 .. n : 1 + i - 1 = i
  OBVIOUS
<1>3. [i \in 1 .. (1 + n - 1) |-> s[1 + i - 1]] = [i \in 1 .. n |-> s[i]]
  BY <1>2
<1> QED
  BY <1>1, <1>3

\* A sequence without its last element
LEMMA Fronted ==
    ASSUME NEW S, NEW s \in Seq(S), s # <<>>, NEW t, t = Front(s)
    PROVE  /\ t \in Seq(S) /\ Len(t) = Len(s) - 1 /\ \A i \in DOMAIN t : t[i] = s[i]
           /\ DOMAIN t = 1 .. Len(s) - 1
<1>1. Len(s) \in Nat /\ Len(s) > 0 /\ DOMAIN s = 1 .. Len(s) /\ \A i \in DOMAIN s : s[i] \in S
  BY SeqIs
<1> DEFINE n == Len(s) - 1
<1>2. n \in Nat /\ 1 \in Int /\ n \in Int /\ \A i \in 1 .. n : s[i] \in S
  BY <1>1
<1>3. t = SubSeq(s, 1, n)
  BY DEF Front
<1>4. t = [i \in 1 .. n |-> s[i]]
  <2>1. SubSeq(s, 1, n) = [i \in 1 .. (1 + n - 1) |-> s[1 + i - 1]]
    BY DEF SubSeq
  <2>2. 1 + n - 1 = n /\ \A i \in 1 .. n : 1 + i - 1 = i
    BY <1>2
  <2> HIDE DEF n
  <2>3. [i \in 1 .. (1 + n - 1) |-> s[1 + i - 1]] = [i \in 1 .. n |-> s[i]]
    BY <2>2
  <2> QED
    BY <1>3, <2>1, <2>3
<1> HIDE DEF n
<1>5. t \in [1 .. n -> S]
  BY <1>2, <1>4
<1>6. t \in Seq(S)
  BY <1>2, <1>5, SeqDef
<1>7. Len(t) \in Nat /\ DOMAIN t = 1 .. Len(t)
  BY <1>6, SeqIs
<1>8. DOMAIN t = 1 .. n
  BY <1>4
<1>9. Len(t) = n
  <2>1. 1 .. Len(t) = 1 .. n
    BY <1>7, <1>8
  <2>2. ASSUME Len(t) > n PROVE FALSE
    <3>1. Len(t) \in 1 .. Len(t) /\ Len(t) \notin 1 .. n
      BY <1>2, <1>7, <2>2
    <3> QED
      BY <2>1, <3>1
  <2>3. ASSUME n > Len(t) PROVE FALSE
    <3>1. n \in 1 .. n /\ n \notin 1 .. Len(t)
      BY <1>2, <1>7, <2>3
    <3> QED
      BY <2>1, <3>1
  <2>4. Len(t) \in Nat /\ n \in Nat
    BY <1>2, <1>7
  <2> QED
    BY <2>2, <2>3, <2>4
<1> QED
  BY <1>4, <1>6, <1>8, <1>9 DEF n

-----------------------------------------------------------------------------
(***************************************************************************)
(* Chains.  The recursive Chain is the least set that has its first block  *)
(* and with every block the one it is linked to.                           *)
(***************************************************************************)
Optional == Blocks \cup {None}
Links == [Blocks -> Optional]
\* Following f from a block of T leaves T in the end.
Founded(f) == \A T \in SUBSET Blocks : T # {} => \E b \in T : f[b] \notin T
Closed(f, S) == \A x \in S : f[x] # None => f[x] \in S
From(f, b) == {x \in Blocks : \A S \in SUBSET Blocks : b \in S /\ Closed(f, S) => x \in S}

\* C has the chains along f.
AreChains(f, C) ==
    /\ C[None] = {}
    /\ \A b \in Blocks : /\ C[b] = {b} \cup C[f[b]]
                         /\ C[b] \subseteq Blocks /\ Closed(f, C[b])
                         /\ \A S \in SUBSET Blocks : b \in S /\ Closed(f, S) => C[b] \subseteq S

LEMMA FromContains ==
    ASSUME NEW f \in Links, NEW b \in Blocks
    PROVE  /\ b \in From(f, b) /\ From(f, b) \subseteq Blocks /\ Closed(f, From(f, b))
           /\ \A S \in SUBSET Blocks : b \in S /\ Closed(f, S) => From(f, b) \subseteq S
<1>1. ASSUME NEW x \in From(f, b), f[x] # None PROVE f[x] \in From(f, b)
  <2>1. f[x] \in Blocks
    BY <1>1 DEF Links, Optional, From
  <2>2. ASSUME NEW S \in SUBSET Blocks, b \in S, Closed(f, S) PROVE f[x] \in S
    BY <1>1, <2>2 DEF From, Closed
  <2> QED
    BY <2>1, <2>2 DEF From
<1> QED
  BY <1>1 DEF From, Closed

LEMMA FromUnfolds ==
    ASSUME NEW f \in Links, NEW b \in Blocks
    PROVE  From(f, b) = {b} \cup IF f[b] = None THEN {} ELSE From(f, f[b])
<1>0. b # None
  BY Given
<1>1. CASE f[b] = None
  <2>1. Closed(f, {b})
    BY <1>1 DEF Closed
  <2> QED
    BY <1>1, <2>1, FromContains
<1>2. CASE f[b] # None
  <2>1. f[b] \in Blocks
    BY <1>2 DEF Links, Optional
  <2>2. Closed(f, {b} \cup From(f, f[b]))
    BY <2>1, FromContains DEF Closed
  <2>3. From(f, b) \subseteq {b} \cup From(f, f[b])
    <3>1. {b} \cup From(f, f[b]) \in SUBSET Blocks
      BY <2>1, FromContains
    <3> QED
      BY <2>2, <3>1, FromContains
  <2>4. f[b] \in From(f, b)
    BY <1>2, FromContains DEF Closed
  <2>5. From(f, f[b]) \subseteq From(f, b)
    <3>1. From(f, b) \in SUBSET Blocks /\ Closed(f, From(f, b))
      BY FromContains
    <3> QED
      BY <2>1, <2>4, <3>1, FromContains
  <2> QED
    BY <1>2, <2>3, <2>5, FromContains
<1> QED
  BY <1>1, <1>2

\* The recursive definition has one solution.
LEMMA ChainSolved ==
    ASSUME NEW f \in Links, Founded(f), NEW C,
           C = [b \in Optional |-> IF b = None THEN {} ELSE {b} \cup C[f[b]]]
    PROVE  AreChains(f, C)
<1>0. /\ \A b \in Blocks : b # None /\ f[b] \in Optional /\ b \in Optional
      /\ None \in Optional
  BY Given DEF Links, Optional
<1>1. C[None] = {} /\ \A b \in Blocks : C[b] = {b} \cup C[f[b]]
  BY <1>0
<1> DEFINE T == {b \in Blocks : C[b] # From(f, b)}
<1>2. ASSUME T # {} PROVE FALSE
  <2>1. PICK b \in T : f[b] \notin T
    BY <1>2 DEF Founded
  <2>2. f[b] = None => C[f[b]] = {}
    BY <1>1
  <2>3. f[b] # None => C[f[b]] = From(f, f[b])
    BY <1>0, <2>1 DEF Optional
  <2>4. C[b] = {b} \cup C[f[b]] /\ b \in Blocks
    BY <1>1
  <2>5. From(f, b) = {b} \cup IF f[b] = None THEN {} ELSE From(f, f[b])
    BY <2>4, FromUnfolds
  <2>6. C[b] = From(f, b)
    BY <2>2, <2>3, <2>4, <2>5
  <2> QED
    BY <2>6
<1>3. \A b \in Blocks : C[b] = From(f, b)
  BY <1>2
<1> QED
  BY <1>1, <1>3, FromContains DEF AreChains

LEMMA ChainDefined ==
    ASSUME NEW f \in Links, Founded(f)
    PROVE  AreChains(f, CHOOSE C : C = [b \in Optional |-> IF b = None THEN {}
                                                         ELSE {b} \cup C[f[b]]])
<1> DEFINE F == [b \in Optional |-> IF b = None THEN {} ELSE From(f, b)]
           Solves(C) == C = [b \in Optional |-> IF b = None THEN {} ELSE {b} \cup C[f[b]]]
<1>1. \A b \in Optional : F[b] = IF b = None THEN {} ELSE {b} \cup F[f[b]]
  <2> SUFFICES ASSUME NEW b \in Blocks, b # None PROVE F[b] = {b} \cup F[f[b]]
    BY DEF Optional
  <2>1. f[b] \in Optional
    BY DEF Links
  <2> QED
    BY <2>1, FromUnfolds DEF Optional
<1>2. Solves(F)
  BY <1>1
<1>3. Solves(CHOOSE C : Solves(C))
  BY <1>2
<1> QED
  BY <1>3, ChainSolved

LEMMA ChainNow ==
    ASSUME link \in Links, Founded(link) PROVE AreChains(link, Chain)
BY ChainDefined DEF Chain, Optional

LEMMA ChainNext ==
    ASSUME link' \in Links, Founded(link') PROVE AreChains(link', Chain')
BY ChainDefined DEF Chain, Optional

LEMMA ChainHasLast ==
    ASSUME NEW f \in Links, Founded(f), NEW C, AreChains(f, C), NEW b \in Blocks
    PROVE  b \in C[b] /\ \E c \in C[b] : f[c] = None
<1>1. b \in C[b] /\ C[b] \in SUBSET Blocks /\ Closed(f, C[b])
  BY DEF AreChains
<1>2. PICK c \in C[b] : f[c] \notin C[b]
  BY <1>1 DEF Founded
<1> QED
  BY <1>1, <1>2 DEF Closed

\* What comes after a block is in its chain, whole.
LEMMA ChainWithin ==
    ASSUME NEW f \in Links, NEW C, AreChains(f, C), NEW b \in Blocks, NEW c \in C[b]
    PROVE  c \in Blocks /\ C[c] \subseteq C[b]
BY DEF AreChains

\* Two blocks do not both come after each other.
LEMMA ChainOrder ==
    ASSUME NEW f \in Links, Founded(f), NEW C, AreChains(f, C),
           NEW x \in Blocks, NEW y \in Blocks, x \in C[y], y \in C[x]
    PROVE  x = y
<1> SUFFICES ASSUME x # y PROVE FALSE
  OBVIOUS
<1> DEFINE T == {z \in Blocks : z \in C[x] /\ x \in C[z]}
<1>0. \A b \in Blocks : f[b] \in Optional /\ C[b] = {b} \cup C[f[b]] /\ Closed(f, C[b])
  BY DEF AreChains, Links
<1>1. x \in T
  BY <1>0
<1>2. ASSUME NEW z \in T PROVE f[z] \in T
  <2>1. x \in C[f[z]]
    <3>1. CASE z # x
      BY <1>0, <3>1
    <3>2. CASE z = x
      <4>1. y \in C[f[x]]
        BY <1>0
      <4>2. f[x] \in Blocks
        BY <1>0, <4>1 DEF Optional, AreChains
      <4> QED
        BY <3>2, <4>1, <4>2, ChainWithin
    <3> QED
      BY <3>1, <3>2
  <2>2. f[z] \in Blocks /\ f[z] # None
    BY <1>0, <2>1 DEF Optional, AreChains
  <2> QED
    BY <1>0, <2>1, <2>2 DEF Closed
<1> QED
  BY <1>1, <1>2 DEF Founded

\* A chain stays if the links in it do.
LEMMA ChainKept ==
    ASSUME NEW f \in Links, NEW g \in Links, NEW C, NEW D, AreChains(f, C), AreChains(g, D),
           NEW b \in Blocks, \A x \in C[b] : g[x] = f[x]
    PROVE  D[b] = C[b]
<1>1. /\ C[b] \in SUBSET Blocks /\ b \in C[b] /\ Closed(f, C[b])
      /\ D[b] \in SUBSET Blocks /\ b \in D[b] /\ Closed(g, D[b])
  BY DEF AreChains
<1>2. Closed(g, C[b])
  BY <1>1 DEF Closed
<1>3. D[b] \subseteq C[b]
  BY <1>1, <1>2 DEF AreChains
<1>4. Closed(f, D[b])
  BY <1>1, <1>3 DEF Closed
<1> QED
  BY <1>1, <1>3, <1>4 DEF AreChains

-----------------------------------------------------------------------------
(***************************************************************************)
(* The state as relations: what an entry of a directory refers to, and     *)
(* what an entry of a sequence or indirection block does, or None.         *)
(***************************************************************************)
To(b, i) == IF ent[b][i].next = <<>> THEN None ELSE Last(ent[b][i].next)
At(b, j) == IF j \in DOMAIN refs[b] THEN refs[b][j] ELSE None

\* What TypeOK says of one block and of one entry
Shape ==
    /\ \A b \in Blocks :
          /\ kind[b] \in {"erased", "dir", "seq", "indir", "data"}
          /\ link[b] \in Optional /\ refs[b] \in Seq(Optional)
          /\ \A j \in Nat : At(b, j) \in Optional
    /\ \A b \in Blocks, i \in Idx :
          /\ ent[b][i] \in Entry /\ To(b, i) \in Optional
          /\ To(b, i) # None <=> ent[b][i].path \in Paths
          /\ To(b, i) # None <=> ent[b][i].next # <<>>
          /\ To(b, i) # None => To(b, i) = Last(ent[b][i].next)
          /\ To(b, i) # None => Len(ent[b][i].next) \in 1 .. 2
          /\ To(b, i) = None => ent[b][i].path \in {Blank, Zeroed}

\* The parts of TreeInv over To and At
Alone(x) ==
    /\ x # root
    /\ \A b \in Blocks : link[b] # x
    /\ \A b \in Blocks, i \in Idx : To(b, i) # x
    /\ \A b \in Blocks, j \in Nat : At(b, j) # x
One ==
    /\ \A b \in Blocks : link[b] # None =>
          link[b] # root /\ \A c \in Blocks : link[c] = link[b] => c = b
    /\ \A b \in Blocks, i \in Idx : To(b, i) # None =>
          /\ To(b, i) # root /\ \A c \in Blocks : link[c] # To(b, i)
          /\ \A c \in Blocks, j \in Nat : At(c, j) # To(b, i)
          /\ \A c \in Blocks, j \in Idx : To(c, j) = To(b, i) => c = b /\ j = i
    /\ \A b \in Blocks, i \in Nat : At(b, i) # None =>
          \A c \in Blocks, j \in Nat : At(c, j) = At(b, i) => c = b /\ j = i
Emptied == TopFreed /\ op.victim = None
Linked ==
    /\ kind[root] = "dir"
    /\ \A b \in Blocks : link[b] # None => kind[link[b]] = "dir"
    /\ \A b \in Blocks, j \in Nat :
          At(b, j) # None => kind[At(b, j)] = IF kind[b] = "seq" THEN "data" ELSE "seq"
Strict == \A b \in Blocks, i \in Idx : To(b, i) # None => kind[To(b, i)] = KindOf(ent[b][i])
Typed ==
    /\ Linked
    /\ \A b \in Blocks, i \in Idx : To(b, i) # None =>
          kind[To(b, i)] = KindOf(ent[b][i]) \/ (Emptied /\ b = Top.dir /\ i = Top.at)
Kids(b) == {x \in Blocks : x = link[b] \/ \E i \in Idx : x = To(b, i)}
NoCycle == \A T \in SUBSET Blocks : T # {} => \E b \in T : Kids(b) \cap T = {}

Relations ==
    /\ OneParent <=> One
    /\ Kinds <=> Typed
    /\ Acyclic <=> NoCycle
    /\ \A x \in Blocks : NoParent(x) <=> Alone(x)

LEMMA ShapeHolds == TypeOK => Shape
<1> SUFFICES ASSUME TypeOK PROVE Shape
  OBVIOUS
<1>0. None \in Optional /\ Blocks \subseteq Optional
  BY DEF Optional
<1>1. ASSUME NEW b \in Blocks
      PROVE  /\ kind[b] \in {"erased", "dir", "seq", "indir", "data"}
             /\ link[b] \in Optional /\ refs[b] \in Seq(Optional)
             /\ \A j \in Nat : At(b, j) \in Optional
  <2>1. kind[b] \in {"erased", "dir", "seq", "indir", "data"} /\ link[b] \in Optional
    BY DEF TypeOK, Optional
  <2>2. refs[b] \in Seq(Optional)
    BY DEF TypeOK, Optional
  <2>3. \A j \in DOMAIN refs[b] : refs[b][j] \in Optional
    BY <2>2, SeqIs
  <2> QED
    BY <1>0, <2>1, <2>2, <2>3 DEF At
<1>2. ASSUME NEW b \in Blocks, NEW i \in Idx
      PROVE  /\ ent[b][i] \in Entry /\ To(b, i) \in Optional
             /\ To(b, i) # None <=> ent[b][i].path \in Paths
             /\ To(b, i) # None <=> ent[b][i].next # <<>>
             /\ To(b, i) # None => To(b, i) = Last(ent[b][i].next)
             /\ To(b, i) # None => Len(ent[b][i].next) \in 1 .. 2
             /\ To(b, i) = None => ent[b][i].path \in {Blank, Zeroed}
  <2> DEFINE e == ent[b][i]
  <2>1. e \in Entry
    BY DEF TypeOK
  <2>2. e.next \in Seq(Blocks)
    BY <2>1 DEF Entry
  <2>3. \/ e.path \in {Blank, Zeroed} /\ e.next = <<>>
        \/ e.path \in Paths /\ Len(e.next) \in 1 .. 2
    BY DEF TypeOK
  <2> HIDE DEF e
  <2>4. /\ Len(e.next) \in Nat /\ (e.next # <<>> <=> Len(e.next) > 0)
        /\ e.next # <<>> => Last(e.next) \in Blocks
    BY <2>2, SeqIs
  <2>5. e.path \in Paths <=> e.next # <<>>
    BY <2>3, <2>4, Given
  <2>6. To(b, i) = IF e.next = <<>> THEN None ELSE Last(e.next)
    BY DEF To, e
  <2> QED
    BY <1>0, <2>1, <2>3, <2>4, <2>5, <2>6, Given DEF e
<1> QED
  BY <1>1, <1>2 DEF Shape

LEMMA RelationsHold == TypeOK => Relations
<1> SUFFICES ASSUME TypeOK PROVE Relations
  OBVIOUS
<1>1. Shape
  BY ShapeHolds
<1>2. \A b \in Blocks : DOMAIN refs[b] \subseteq Nat
  <2> SUFFICES ASSUME NEW b \in Blocks PROVE DOMAIN refs[b] \subseteq Nat
    OBVIOUS
  <2>1. refs[b] \in Seq(Optional)
    BY <1>1 DEF Shape
  <2> QED
    BY <2>1, SeqIs
<1>3. /\ \A b \in Blocks, i \in Idx :
            /\ To(b, i) # None <=> ent[b][i].next # <<>>
            /\ To(b, i) # None => To(b, i) = Last(ent[b][i].next)
      /\ None \notin Blocks
  BY <1>1, Given DEF Shape
<1>4. \A b \in Blocks : /\ \A j \in DOMAIN refs[b] : At(b, j) = refs[b][j]
                        /\ \A j : j \notin DOMAIN refs[b] => At(b, j) = None
  BY DEF At
<1>5. OneParent <=> One
  BY <1>2, <1>3, <1>4 DEF OneParent, One
<1>6. Kinds <=> Typed
  BY <1>2, <1>3, <1>4 DEF Kinds, Typed, Linked, Emptied
<1>7. \A x \in Blocks : NoParent(x) <=> Alone(x)
  BY <1>2, <1>3, <1>4 DEF NoParent, Alone
<1>8. \A b \in Blocks : DirKids(b) = Kids(b)
  <2> SUFFICES ASSUME NEW b \in Blocks PROVE DirKids(b) = Kids(b)
    OBVIOUS
  <2>1. EntryRefs(b, TRUE) = {Last(ent[b][i].next) : i \in {i \in Idx : ent[b][i].next # <<>>}}
    BY DEF EntryRefs
  <2>2. link[b] \in Optional /\ \A i \in Idx : To(b, i) \in Optional
    BY <1>1 DEF Shape
  <2> QED
    BY <1>3, <2>1, <2>2 DEF DirKids, Kids, Optional
<1>9. Acyclic <=> NoCycle
  <2>1. ASSUME NoCycle PROVE Acyclic
    <3> SUFFICES ASSUME NEW T \in SUBSET {b \in Blocks : DirKids(b) # {}}, T # {}
                 PROVE  \E b \in T : DirKids(b) \cap T = {}
      BY DEF Acyclic
    <3>1. T \in SUBSET Blocks
      OBVIOUS
    <3>2. PICK b \in T : Kids(b) \cap T = {}
      BY <2>1, <3>1 DEF NoCycle
    <3> QED
      BY <1>8, <3>1, <3>2
  <2>2. ASSUME Acyclic PROVE NoCycle
    <3> SUFFICES ASSUME NEW T \in SUBSET Blocks, T # {} PROVE \E b \in T : Kids(b) \cap T = {}
      BY DEF NoCycle
    <3>1. CASE \E b \in T : Kids(b) = {}
      BY <3>1
    <3>2. CASE \A b \in T : Kids(b) # {}
      <4>1. T \in SUBSET {b \in Blocks : DirKids(b) # {}}
        BY <1>8, <3>2
      <4>2. PICK b \in T : DirKids(b) \cap T = {}
        BY <2>2, <4>1 DEF Acyclic
      <4> QED
        BY <1>8, <4>2
    <3> QED
      BY <3>1, <3>2
  <2> QED
    BY <2>1, <2>2
<1> QED
  BY <1>5, <1>6, <1>7, <1>9 DEF Relations

LEMMA ShapeNext == (TypeOK => Shape)'
BY ShapeHolds, PTL

LEMMA RelationsNext == (TypeOK => Relations)'
BY RelationsHold, PTL

-----------------------------------------------------------------------------
(***************************************************************************)
(* What a step does to the tree, by what it does to the references.        *)
(***************************************************************************)
\* No cycle comes from references that are gone,
LEMMA CyclesFewer ==
    ASSUME NoCycle, \A b \in Blocks : Kids(b)' \subseteq Kids(b)
    PROVE  NoCycle'
BY DEF NoCycle

\* nor from references to a block without any,
LEMMA CyclesLeaf ==
    ASSUME NoCycle, NEW x \in Blocks, Kids(x)' = {},
           \A b \in Blocks : Kids(b)' \subseteq Kids(b) \cup {x}
    PROVE  NoCycle'
<1> SUFFICES ASSUME NEW T \in SUBSET Blocks, T # {} PROVE \E b \in T : Kids(b)' \cap T = {}
  BY DEF NoCycle
<1>1. CASE x \in T
  BY <1>1
<1>2. CASE x \notin T
  BY <1>2 DEF NoCycle
<1> QED
  BY <1>1, <1>2

\* nor when a block b is taken out between p and c.
LEMMA CyclesShorter ==
    ASSUME NoCycle, NEW p \in Blocks, NEW b \in Blocks, NEW c \in Blocks,
           b \in Kids(p), c \in Kids(b), Kids(b)' = {},
           Kids(p)' \subseteq Kids(p) \cup {c},
           \A q \in Blocks : q # p => Kids(q)' \subseteq Kids(q)
    PROVE  NoCycle'
<1> SUFFICES ASSUME NEW T \in SUBSET Blocks, T # {} PROVE \E q \in T : Kids(q)' \cap T = {}
  BY DEF NoCycle
<1>1. CASE b \in T
  BY <1>1
<1>2. CASE b \notin T
  <2>1. T \cup {b} \in SUBSET Blocks /\ T \cup {b} # {}
    OBVIOUS
  <2>2. PICK m \in T \cup {b} : Kids(m) \cap (T \cup {b}) = {}
    BY <2>1 DEF NoCycle
  <2>3. CASE m = b
    <3>1. c \notin T
      BY <2>2, <2>3
    <3>2. PICK q \in T : Kids(q) \cap T = {}
      BY DEF NoCycle
    <3> QED
      BY <3>1, <3>2
  <2>4. CASE m # b
    <3>1. m \in T /\ m # p
      BY <2>2, <2>4
    <3> QED
      BY <2>2, <3>1
  <2> QED
    BY <2>3, <2>4
<1> QED
  BY <1>1, <1>2

LEMMA LinkFounded ==
    ASSUME TypeOK, NoCycle PROVE link \in Links /\ Founded(link)
<1>1. link \in Links
  BY DEF TypeOK, Links, Optional
<1>2. ASSUME NEW T \in SUBSET Blocks, T # {} PROVE \E b \in T : link[b] \notin T
  <2>1. PICK b \in T : Kids(b) \cap T = {}
    BY <1>2 DEF NoCycle
  <2> QED
    BY <2>1 DEF Kids
<1> QED
  BY <1>1, <1>2 DEF Founded

\* With fewer references, each is still the only one.
LEMMA OneFewer ==
    ASSUME One, root' = root, \A b \in Blocks : link'[b] \in {link[b], None},
           \A b \in Blocks, i \in Idx : To(b, i)' \in {To(b, i), None},
           \A b \in Blocks, j \in Nat : At(b, j)' \in {At(b, j), None}
    PROVE  One' /\ \A x \in Blocks : Alone(x) => Alone(x)'
<1>1. None \notin Blocks
  BY Given
<1>2. One'
  BY DEF One
<1>3. \A x \in Blocks : Alone(x) => Alone(x)'
  BY <1>1 DEF Alone
<1> QED
  BY <1>2, <1>3

\* So it is with one more to a block that nothing referred to: in a link,
LEMMA OneMoreLink ==
    ASSUME One, NEW x \in Blocks, Alone(x), NEW d \in Blocks, root' = root,
           \A b \in Blocks : link'[b] = IF b = d THEN x ELSE link[b],
           \A b \in Blocks, i \in Idx : To(b, i)' = To(b, i),
           \A b \in Blocks, j \in Nat : At(b, j)' = At(b, j)
    PROVE  One' /\ \A y \in Blocks : Alone(y) /\ y # x => Alone(y)'
<1>1. None \notin Blocks
  BY Given
<1>2. One'
  BY DEF One, Alone
<1>3. \A y \in Blocks : Alone(y) /\ y # x => Alone(y)'
  BY <1>1 DEF Alone
<1> QED
  BY <1>2, <1>3

\* in an entry of a directory,
LEMMA OneMoreEntry ==
    ASSUME One, NEW x \in Blocks, Alone(x), NEW d \in Blocks, NEW s \in Idx, root' = root,
           \A b \in Blocks : link'[b] = link[b],
           \A b \in Blocks, i \in Idx : To(b, i)' = IF b = d /\ i = s THEN x ELSE To(b, i),
           \A b \in Blocks, j \in Nat : At(b, j)' = At(b, j)
    PROVE  One' /\ \A y \in Blocks : Alone(y) /\ y # x => Alone(y)'
<1>1. None \notin Blocks
  BY Given
<1>2. One'
  BY DEF One, Alone
<1>3. \A y \in Blocks : Alone(y) /\ y # x => Alone(y)'
  BY <1>1 DEF Alone
<1> QED
  BY <1>2, <1>3

\* or in an entry of a sequence or indirection block.
LEMMA OneMoreRef ==
    ASSUME One, NEW x \in Blocks, Alone(x), NEW d \in Blocks, NEW n \in Nat, root' = root,
           \A b \in Blocks : link'[b] = link[b],
           \A b \in Blocks, i \in Idx : To(b, i)' = To(b, i),
           \A b \in Blocks, j \in Nat : At(b, j)' = IF b = d /\ j = n THEN x ELSE At(b, j)
    PROVE  One' /\ \A y \in Blocks : Alone(y) /\ y # x => Alone(y)'
<1>1. None \notin Blocks
  BY Given
<1>2. One'
  BY DEF One, Alone
<1>3. \A y \in Blocks : Alone(y) /\ y # x => Alone(y)'
  BY <1>1 DEF Alone
<1> QED
  BY <1>2, <1>3

-----------------------------------------------------------------------------
(***************************************************************************)
(* What is recursive: the first block of a directory, and the blocks that  *)
(* the root refers to.                                                     *)
(***************************************************************************)
\* What holds of the root, and of a directory if of the one it is in, holds of all.
LEMMA HomeInduction ==
    ASSUME NEW S, Root \in S, \A d \in Dirs : Home[d] \in S => d \in S
    PROVE  \A d \in Dirs \cup {Root} : d \in S
<1>1. Dirs \ S \in SUBSET Dirs
  OBVIOUS
<1>2. ASSUME Dirs \ S # {} PROVE FALSE
  <2>1. PICK d \in Dirs \ S : Home[d] \notin Dirs \ S
    BY <1>1, <1>2, Given
  <2>2. Home[d] \in Dirs \cup {Root}
    BY Given
  <2> QED
    BY <2>1, <2>2
<1> QED
  BY <1>2

\* The definition of a function on the directories by the one they are in
ByHome(F, V, r, G) ==
    /\ F \in [Dirs \cup {Root} -> V] /\ F[Root] = r
    /\ \A d \in Dirs : F[d] = G[<<F[Home[d]], d>>]

LEMMA HomeRecursion ==
    ASSUME NEW V, NEW r \in V, NEW G, \A v \in V, d \in Dirs : G[<<v, d>>] \in V
    PROVE  \E F : ByHome(F, V, r, G)
<1> DEFINE D == Dirs \cup {Root}
           Good(S) == /\ <<Root, r>> \in S
                      /\ \A d \in Dirs, v \in V : <<Home[d], v>> \in S => <<d, G[<<v, d>>]>> \in S
           Rel == {q \in D \X V : \A S \in SUBSET (D \X V) : Good(S) => q \in S}
           Only(d) == {v \in V : <<d, v>> \in Rel}
           U == {d \in D : \E v \in V : Only(d) = {v}}
<1>1. Root \notin Dirs /\ \A d \in Dirs : Home[d] \in D /\ d \in D
  BY Given
<1>2. \A d \in Dirs, v \in V : G[<<v, d>>] \in V
  OBVIOUS
<1>3. Good(Rel)
  <2>1. <<Root, r>> \in Rel
    OBVIOUS
  <2>2. ASSUME NEW d \in Dirs, NEW v \in V, <<Home[d], v>> \in Rel PROVE <<d, G[<<v, d>>]>> \in Rel
    <3>1. <<d, G[<<v, d>>]>> \in D \X V
      BY <1>1, <1>2
    <3>2. ASSUME NEW S \in SUBSET (D \X V), Good(S) PROVE <<d, G[<<v, d>>]>> \in S
      <4>1. <<Home[d], v>> \in S
        BY <2>2, <3>2
      <4> QED
        BY <3>2, <4>1
    <3> QED
      BY <3>1, <3>2
  <2> QED
    BY <2>1, <2>2
<1>4. ASSUME NEW S \in SUBSET (D \X V), Good(S) PROVE Rel \subseteq S
  BY <1>4
<1>5. Rel \in SUBSET (D \X V)
  OBVIOUS
<1> HIDE DEF Rel
<1>6. ASSUME NEW d \in D, NEW v \in V, <<d, v>> \in Rel,
             \A w \in V : <<d, w>> \in Rel /\ w # v => Good(Rel \ {<<d, w>>})
      PROVE  d \in U
  <2>1. ASSUME NEW w \in V, <<d, w>> \in Rel, w # v PROVE FALSE
    <3>1. Rel \ {<<d, w>>} \in SUBSET (D \X V)
      BY <1>5
    <3>2. Rel \subseteq Rel \ {<<d, w>>}
      BY <1>4, <1>6, <2>1, <3>1
    <3> QED
      BY <2>1, <3>2
  <2>2. Only(d) = {v}
    BY <1>6, <2>1
  <2> QED
    BY <2>2
<1>7. Root \in U
  <2>1. <<Root, r>> \in Rel
    BY <1>3
  <2>2. ASSUME NEW w \in V, <<Root, w>> \in Rel, w # r PROVE Good(Rel \ {<<Root, w>>})
    <3>1. <<Root, r>> \in Rel \ {<<Root, w>>}
      BY <2>1, <2>2
    <3>2. \A d \in Dirs : d # Root
      BY <1>1
    <3> QED
      BY <1>3, <3>1, <3>2
  <2> QED
    BY <1>6, <2>1, <2>2
<1>8. ASSUME NEW d \in Dirs, Home[d] \in U PROVE d \in U
  <2>1. PICK v \in V : Only(Home[d]) = {v}
    BY <1>8
  <2>2. <<Home[d], v>> \in Rel /\ \A x \in V : <<Home[d], x>> \in Rel => x = v
    BY <2>1
  <2> DEFINE w == G[<<v, d>>]
  <2>3. w \in V /\ <<d, w>> \in Rel /\ d \in D
    BY <1>2, <1>3, <2>2
  <2>4. ASSUME NEW y \in V, <<d, y>> \in Rel, y # w PROVE Good(Rel \ {<<d, y>>})
    <3>1. <<Root, r>> \in Rel \ {<<d, y>>}
      BY <1>1, <1>3
    <3>2. ASSUME NEW e \in Dirs, NEW x \in V, <<Home[e], x>> \in Rel
          PROVE  <<e, G[<<x, e>>]>> \in Rel \ {<<d, y>>}
      <4>1. <<e, G[<<x, e>>]>> \in Rel
        BY <1>3, <3>2
      <4>2. e = d => x = v
        BY <2>2, <3>2
      <4> QED
        BY <2>4, <4>1, <4>2
    <3> QED
      BY <3>1, <3>2
  <2> HIDE DEF w
  <2> QED
    BY <1>6, <2>3, <2>4
<1>9. \A d \in D : d \in U
  BY <1>7, <1>8, HomeInduction
<1> DEFINE F == [d \in D |-> CHOOSE v \in V : Only(d) = {v}]
<1>10. ASSUME NEW d \in D PROVE F[d] \in V /\ Only(d) = {F[d]}
  BY <1>9
<1>11. F \in [D -> V]
  BY <1>10
<1>12. F[Root] = r
  <2>1. Root \in D /\ r \in Only(Root)
    BY <1>3
  <2> QED
    BY <1>10, <2>1
<1>13. ASSUME NEW d \in Dirs PROVE F[d] = G[<<F[Home[d]], d>>]
  <2>1. Home[d] \in D /\ F[Home[d]] \in V /\ F[Home[d]] \in Only(Home[d])
    BY <1>1, <1>10
  <2>2. <<d, G[<<F[Home[d]], d>>]>> \in Rel
    <3> HIDE DEF F
    <3> QED
      BY <1>3, <2>1
  <2>3. G[<<F[Home[d]], d>>] \in Only(d)
    BY <1>2, <2>1, <2>2
  <2> HIDE DEF F, Only
  <2> QED
    BY <1>10, <2>3
<1> QED
  BY <1>11, <1>12, <1>13 DEF ByHome

LEMMA EntryFound ==
    ASSUME Shape, NEW b \in Blocks, NEW p \in Paths, EntriesFor(b, p) # {}
    PROVE  LET i == Min(EntriesFor(b, p)) IN
           /\ i \in Idx /\ i \in EntriesFor(b, p) /\ Live(ent[b][i]) /\ ent[b][i].path = p
           /\ \A j \in EntriesFor(b, p) : i <= j
           /\ To(b, i) # None /\ To(b, i) \in Blocks /\ To(b, i) = Last(ent[b][i].next)
<1> DEFINE i == Min(EntriesFor(b, p))
<1>1. EntriesFor(b, p) \subseteq Nat
  BY Given DEF EntriesFor
<1>2. i \in EntriesFor(b, p) /\ \A j \in EntriesFor(b, p) : i <= j
  BY <1>1, LeastElement
<1> HIDE DEF i
<1>3. i \in Idx /\ Live(ent[b][i]) /\ ent[b][i].path = p
  BY <1>2 DEF EntriesFor
<1>4. To(b, i) # None /\ To(b, i) \in Blocks /\ To(b, i) = Last(ent[b][i].next)
  BY <1>3 DEF Shape, Optional
<1> QED
  BY <1>2, <1>3, <1>4 DEF i

DirBlockSolved ==
    /\ DirBlock[Root] = root
    /\ \A d \in Dirs : DirBlock[d] = DirIn(DirBlock[Home[d]], d)
    /\ \A d \in Dirs \cup {Root} : DirBlock[d] \in Optional

LEMMA DirBlockHolds == TypeOK => DirBlockSolved
<1> SUFFICES ASSUME TypeOK PROVE DirBlockSolved
  OBVIOUS
<1> DEFINE D == Dirs \cup {Root}
           Solves(F) == F = [d \in D |-> IF d = Root THEN root ELSE DirIn(F[Home[d]], d)]
<1>1. Shape /\ root \in Optional /\ None \in Optional
  BY ShapeHolds DEF TypeOK, Optional
<1>2. ASSUME NEW b \in Optional, NEW d \in Dirs PROVE DirIn(b, d) \in Optional
  <2>1. CASE b = None \/ EntriesFor(b, d) = {}
    BY <1>1, <2>1 DEF DirIn
  <2>2. CASE b # None /\ EntriesFor(b, d) # {}
    <3>1. b \in Blocks /\ d \in Paths
      BY <2>2, Given DEF Optional
    <3> QED
      BY <1>1, <2>2, <3>1, EntryFound DEF DirIn, Optional
  <2> QED
    BY <2>1, <2>2
<1>3. Root \notin Dirs /\ \A d \in Dirs : Home[d] \in D
  BY Given
<1>4. \E F : Solves(F)
  <2>1. PICK V, r, G : V = Optional /\ r = root /\ G = [q \in V \X Dirs |-> DirIn(q[1], q[2])]
    OBVIOUS
  <2>2. r \in V /\ \A v \in V, d \in Dirs : G[<<v, d>>] \in V
    BY <1>1, <1>2, <2>1
  <2>3. \E F : ByHome(F, V, r, G)
    BY <2>2, HomeRecursion
  <2>4. PICK F \in [D -> Optional] : F[Root] = root /\ \A d \in Dirs : F[d] = G[<<F[Home[d]], d>>]
    BY <2>1, <2>3 DEF ByHome
  <2>5. \A d \in Dirs : F[d] = DirIn(F[Home[d]], d)
    BY <1>3, <2>1, <2>4
  <2>6. \A d \in D : F[d] = IF d = Root THEN root ELSE DirIn(F[Home[d]], d)
    BY <2>4, <2>5
  <2>7. F = [d \in D |-> F[d]]
    BY <2>4
  <2>8. Solves(F)
    BY <2>6, <2>7
  <2> QED
    BY <2>8
<1>5. DirBlock = CHOOSE F : Solves(F)
  BY DEF DirBlock
<1>6. Solves(DirBlock)
  <2> HIDE DEF Solves
  <2> QED
    BY <1>4, <1>5
<1>7. DirBlock[Root] = root /\ \A d \in Dirs : DirBlock[d] = DirIn(DirBlock[Home[d]], d)
  BY <1>3, <1>6
<1>8. \A d \in D : DirBlock[d] \in Optional
  <2> DEFINE S == {d \in D : DirBlock[d] \in Optional}
  <2>1. Root \in S
    BY <1>1, <1>7
  <2>2. \A d \in Dirs : Home[d] \in S => d \in S
    BY <1>2, <1>7
  <2>3. \A d \in D : d \in S
    <3> HIDE DEF S
    <3> QED
      BY <2>1, <2>2, HomeInduction
  <2> QED
    BY <2>3
<1> QED
  BY <1>7, <1>8 DEF DirBlockSolved

LEMMA DirBlockNext == (TypeOK => DirBlockSolved)'
BY DirBlockHolds, PTL

\* B has what each block refers to, R, directly or through others.
Reaches(R, B) == B = [b \in Blocks |-> {b} \cup UNION {B[c] : c \in R[b]}]

LEMMA ReachSolvable ==
    ASSUME NEW R, \A b \in Blocks : R[b] \subseteq Blocks
    PROVE  \E B : Reaches(R, B)
<1> DEFINE Shut(S) == \A x \in S : R[x] \subseteq S
           All(b) == {x \in Blocks : \A S \in SUBSET Blocks : b \in S /\ Shut(S) => x \in S}
           B == [b \in Blocks |-> All(b)]
<1>1. ASSUME NEW b \in Blocks
      PROVE  /\ b \in All(b) /\ All(b) \in SUBSET Blocks /\ Shut(All(b))
             /\ \A S \in SUBSET Blocks : b \in S /\ Shut(S) => All(b) \subseteq S
  <2>1. ASSUME NEW x \in All(b), NEW y \in R[x] PROVE y \in All(b)
    <3>1. y \in Blocks
      OBVIOUS
    <3>2. ASSUME NEW S \in SUBSET Blocks, b \in S, Shut(S) PROVE y \in S
      <4>1. x \in S
        BY <3>2
      <4> QED
        BY <3>2, <4>1
    <3> QED
      BY <3>1, <3>2
  <2> QED
    BY <2>1
<1> HIDE DEF All
<1>2. ASSUME NEW b \in Blocks PROVE All(b) = {b} \cup UNION {All(c) : c \in R[b]}
  <2> DEFINE U == {b} \cup UNION {All(c) : c \in R[b]}
  <2>1. U \in SUBSET Blocks
    BY <1>1
  <2>2. Shut(U)
    <3> SUFFICES ASSUME NEW x \in U, NEW y \in R[x] PROVE y \in U
      OBVIOUS
    <3>1. CASE x = b
      <4>1. y \in R[b] /\ y \in All(y)
        BY <1>1, <3>1
      <4> QED
        BY <4>1
    <3>2. CASE x # b
      <4>1. PICK c \in R[b] : x \in All(c)
        BY <3>2
      <4>2. y \in All(c)
        BY <1>1, <4>1
      <4> QED
        BY <4>1, <4>2
    <3> QED
      BY <3>1, <3>2
  <2>3. All(b) \subseteq U
    <3>1. b \in U
      OBVIOUS
    <3> HIDE DEF U
    <3> QED
      BY <1>1, <2>1, <2>2, <3>1
  <2>4. ASSUME NEW c \in R[b] PROVE All(c) \subseteq All(b)
    <3>1. c \in Blocks /\ c \in All(b)
      BY <1>1
    <3> QED
      BY <1>1, <3>1
  <2>5. U \subseteq All(b)
    BY <1>1, <2>4
  <2> QED
    BY <2>3, <2>5
<1>3. ASSUME NEW b \in Blocks PROVE B[b] = {b} \cup UNION {B[c] : c \in R[b]}
  <2>1. \A c \in R[b] : B[c] = All(c)
    OBVIOUS
  <2>2. UNION {B[c] : c \in R[b]} = UNION {All(c) : c \in R[b]}
    BY <2>1
  <2> QED
    BY <1>2, <2>2
<1>4. Reaches(R, B)
  <2>1. B = [b \in Blocks |-> B[b]]
    OBVIOUS
  <2> HIDE DEF B
  <2> QED
    BY <1>3, <2>1 DEF Reaches
<1> QED
  BY <1>4

\* What is reached from a set of blocks that refers to nothing else, and without a
\* cycle, is in it.
LEMMA ReachedWithin ==
    ASSUME NEW R, NEW B, Reaches(R, B), NEW S \in SUBSET Blocks,
           \A b \in S : R[b] \subseteq S,
           \A T \in SUBSET S : T # {} => \E b \in T : R[b] \cap T = {}
    PROVE  \A b \in S : B[b] \subseteq S
<1> DEFINE T == {b \in S : ~(B[b] \subseteq S)}
<1>1. \A b \in S : B[b] = {b} \cup UNION {B[c] : c \in R[b]}
  BY DEF Reaches
<1>2. ASSUME T # {} PROVE FALSE
  <2>1. PICK b \in T : R[b] \cap T = {}
    BY <1>2
  <2>2. \A c \in R[b] : B[c] \subseteq S
    BY <2>1
  <2>3. B[b] \subseteq S
    BY <1>1, <2>1, <2>2
  <2> QED
    BY <2>1, <2>3
<1> QED
  BY <1>2

LEMMA ReachedIs ==
    ASSUME TypeOK, NEW all \in BOOLEAN
    PROVE  \E R, B : /\ \A b \in Blocks : R[b] = RefsOf(b, all) /\ R[b] \subseteq Blocks
                     /\ Reaches(R, B) /\ Reached(all) = B[root]
<1>1. PICK R : R = [b \in Blocks |-> RefsOf(b, all)]
  OBVIOUS
<1>2. \A b \in Blocks : R[b] = RefsOf(b, all)
  BY <1>1
<1>3. ASSUME NEW b \in Blocks PROVE RefsOf(b, all) \subseteq Blocks
  <2>1. Shape
    BY ShapeHolds
  <2>2. ({link[b]} \cup ToSet(refs[b])) \ {None} \subseteq Blocks
    <3>1. link[b] \in Optional /\ refs[b] \in Seq(Optional)
      BY <2>1 DEF Shape
    <3>2. \A j \in DOMAIN refs[b] : refs[b][j] \in Optional
      BY <3>1, SeqIs
    <3> QED
      BY <3>1, <3>2 DEF ToSet, Optional
  <2>3. EntryRefs(b, all) \subseteq Blocks
    <3>1. \A i \in Idx : ent[b][i].next # <<>> => Last(ent[b][i].next) \in Blocks
      BY <2>1 DEF Shape, Optional
    <3> QED
      BY <3>1 DEF EntryRefs
  <2> QED
    BY <2>2, <2>3 DEF RefsOf
<1> DEFINE Solves(B) == B = [b \in Blocks |-> {b} \cup UNION {B[c] : c \in RefsOf(b, all)}]
<1>4. PICK B : B = CHOOSE C : Solves(C)
  OBVIOUS
<1>5. Reached(all) = B[root]
  BY <1>4 DEF Reached
<1>6. ASSUME NEW C PROVE Solves(C) <=> Reaches(R, C)
  <2>1. [b \in Blocks |-> {b} \cup UNION {C[c] : c \in RefsOf(b, all)}]
        = [b \in Blocks |-> {b} \cup UNION {C[c] : c \in R[b]}]
    BY <1>2
  <2> QED
    BY <2>1 DEF Reaches
<1>7. \E C : Reaches(R, C)
  BY <1>2, <1>3, ReachSolvable
<1> HIDE DEF Solves
<1>8. Reaches(R, B)
  BY <1>4, <1>6, <1>7
<1> QED
  BY <1>2, <1>3, <1>5, <1>8

LEMMA RefsOfIs ==
    ASSUME TypeOK, NEW b \in Blocks, NEW all \in BOOLEAN, NEW x \in RefsOf(b, all)
    PROVE  /\ x \in Blocks
           /\ \/ x = link[b]
              \/ \E j \in Nat : x = At(b, j)
              \/ \E i \in Idx : x = To(b, i) /\ (ent[b][i].reclaimable => all)
<1>1. Shape
  BY ShapeHolds
<1>2. CASE x \in ({link[b]} \cup ToSet(refs[b])) \ {None}
  <2>1. link[b] \in Optional /\ refs[b] \in Seq(Optional)
    BY <1>1 DEF Shape
  <2>2. DOMAIN refs[b] = 1 .. Len(refs[b]) /\ \A j \in DOMAIN refs[b] : refs[b][j] \in Optional
    BY <2>1, SeqIs
  <2>3. CASE x = link[b]
    BY <1>2, <2>1, <2>3 DEF Optional
  <2>4. CASE x # link[b]
    <3>1. PICK j \in DOMAIN refs[b] : x = refs[b][j]
      BY <1>2, <2>4 DEF ToSet
    <3>2. j \in Nat /\ x = At(b, j)
      BY <2>2, <3>1 DEF At
    <3> QED
      BY <1>2, <2>2, <3>1, <3>2 DEF Optional
  <2> QED
    BY <2>3, <2>4
<1>3. CASE x \in EntryRefs(b, all)
  <2>1. PICK i \in Idx : /\ ent[b][i].next # <<>> /\ (ent[b][i].reclaimable => all)
                         /\ x = Last(ent[b][i].next)
    BY <1>3 DEF EntryRefs
  <2>2. x = To(b, i) /\ x \in Blocks
    BY <1>1, <2>1 DEF Shape, Optional
  <2> QED
    BY <2>1, <2>2
<1> QED
  BY <1>2, <1>3 DEF RefsOf

\* What blocks that are not a directory's have, in the entries of a directory
LEMMA NoEntries ==
    ASSUME TypeOK, Contents, NEW b \in Blocks, kind[b] # "dir"
    PROVE  link[b] = None /\ \A i \in Idx : ent[b][i] = BlankEntry /\ To(b, i) = None
<1>1. link[b] = None /\ ent[b] = ErasedDir
  BY DEF Contents
<1>2. ASSUME NEW i \in Idx PROVE ent[b][i] = BlankEntry /\ To(b, i) = None
  BY <1>1 DEF ErasedDir, BlankEntry, To
<1> QED
  BY <1>1, <1>2

LEMMA NoRefs ==
    ASSUME TypeOK, Contents, NEW b \in Blocks, kind[b] \notin {"seq", "indir"}
    PROVE  \A j \in Nat : At(b, j) = None
<1>1. refs[b] = <<>>
  BY DEF Contents
<1>2. DOMAIN refs[b] = {}
  BY <1>1
<1> QED
  BY <1>2 DEF At

\* From what the tree is, the free blocks are none that the root refers to.
LEMMA TreeFreeSound ==
    ASSUME TypeOK, TreeInv PROVE FreeListSound
<1> SUFFICES ASSUME pc # "dangling"
             PROVE  /\ IsInjective(free) /\ FreeEntriesAreFree
                    /\ \A b \in ToSet(free) : kind[b] = "erased" /\ refs[b] = <<>>
  BY DEF FreeListSound
<1>1. /\ Shape /\ Relations /\ Contents /\ FreeErased /\ Holds
      /\ Typed /\ NoCycle
  BY ShapeHolds, RelationsHold DEF TreeInv, Relations
<1>2. ToSet(free) \subseteq Blocks
  <2>1. free \in Seq(Blocks)
    BY DEF TypeOK
  <2>2. \A i \in DOMAIN free : free[i] \in Blocks
    BY <2>1, SeqIs
  <2> QED
    BY <2>2 DEF ToSet
<1>3. \A b \in ToSet(free) : kind[b] = "erased" /\ refs[b] = <<>>
  BY <1>1, <1>2 DEF FreeErased, Contents
<1> DEFINE S == {b \in Blocks : kind[b] # "erased"}
<1>4. root \in S
  BY <1>1 DEF Typed, Linked, TypeOK
<1>5. Pending \subseteq S
  <2>1. {op.dir, op.block, op.seq} \subseteq Optional
    BY DEF TypeOK, Optional
  <2>2. \A x \in Pending : x \in Blocks /\ (x = op.dir \/ x = op.block \/ x = op.seq) /\ x # None
    BY <2>1 DEF Pending, Optional
  <2>3. \A x \in Pending : kind[x] \in {"dir", "seq", "data"}
    BY <1>1, <2>2 DEF Holds
  <2> QED
    BY <2>2, <2>3
<1>6. PICK R, B : /\ \A b \in Blocks : R[b] = RefsOf(b, FALSE) /\ R[b] \subseteq Blocks
                  /\ Reaches(R, B) /\ Reached(FALSE) = B[root]
  BY ReachedIs
\* What a block that is not erased refers to, by its kind
<1>7. ASSUME NEW b \in Blocks, NEW x \in R[b]
      PROVE  /\ x \in Blocks
             /\ \/ kind[x] = "dir" /\ x \in Kids(b) /\ kind[b] = "dir"
                \/ kind[x] \in {"seq", "indir"} /\ kind[b] = "dir"
                \/ kind[x] = "seq" /\ kind[b] = "indir"
                \/ kind[x] = "data" /\ kind[b] = "seq"
  <2>1. /\ x \in Blocks
        /\ \/ x = link[b]
           \/ \E j \in Nat : x = At(b, j)
           \/ \E i \in Idx : x = To(b, i) /\ ~ent[b][i].reclaimable
    <3>1. x \in RefsOf(b, FALSE) /\ FALSE \in BOOLEAN
      BY <1>6, <1>7
    <3> QED
      BY <3>1, RefsOfIs
  <2>2. x # None
    BY <2>1, Given
  <2>3. CASE x = link[b]
    <3>1. kind[b] = "dir"
      BY <1>1, <2>2, <2>3, NoEntries
    <3> QED
      BY <1>1, <2>1, <2>2, <2>3, <3>1 DEF Typed, Linked, Kids
  <2>4. ASSUME NEW j \in Nat, x = At(b, j)
        PROVE  \/ kind[x] = "seq" /\ kind[b] = "indir"
               \/ kind[x] = "data" /\ kind[b] = "seq"
    <3>1. kind[b] \in {"seq", "indir"}
      BY <1>1, <2>2, <2>4, NoRefs
    <3>2. At(b, j) # None
      BY <2>2, <2>4
    <3>3. kind[At(b, j)] = IF kind[b] = "seq" THEN "data" ELSE "seq"
      BY <1>1, <3>2 DEF Typed, Linked
    <3>4. kind[x] = IF kind[b] = "seq" THEN "data" ELSE "seq"
      BY <2>4, <3>3
    <3> QED
      BY <3>1, <3>4
  <2>5. ASSUME NEW i \in Idx, x = To(b, i), ~ent[b][i].reclaimable
        PROVE  kind[x] \in {"dir", "seq", "indir"} /\ x \in Kids(b) /\ kind[b] = "dir"
    <3>1. kind[b] = "dir"
      BY <1>1, <2>2, <2>5, NoEntries
    <3>2. ~(Emptied /\ b = Top.dir /\ i = Top.at)
      BY <2>5 DEF Emptied, TopFreed, AtVictim, TopEntry
    <3>3. kind[x] = KindOf(ent[b][i])
      BY <1>1, <2>2, <2>5, <3>2 DEF Typed
    <3> QED
      BY <2>1, <2>5, <3>1, <3>3 DEF Kids, KindOf
  <2> QED
    BY <2>1, <2>3, <2>4, <2>5
<1>8. \A b \in S : R[b] \subseteq S
  BY <1>7
<1>9. ASSUME NEW T \in SUBSET S, T # {} PROVE \E b \in T : R[b] \cap T = {}
  <2>1. CASE \E b \in T : kind[b] = "data"
    BY <1>7, <2>1
  <2>2. CASE (\A b \in T : kind[b] # "data") /\ \E b \in T : kind[b] = "seq"
    BY <1>7, <2>2
  <2>3. CASE (\A b \in T : kind[b] \notin {"data", "seq"}) /\ \E b \in T : kind[b] = "indir"
    BY <1>7, <2>3
  <2>4. CASE \A b \in T : kind[b] \notin {"data", "seq", "indir"}
    <3>1. T \in SUBSET Blocks
      OBVIOUS
    <3>2. PICK b \in T : Kids(b) \cap T = {}
      BY <1>1, <1>9, <3>1 DEF NoCycle
    <3>3. R[b] \cap T = {}
      BY <1>7, <2>4, <3>2
    <3> QED
      BY <3>3
  <2> QED
    BY <2>1, <2>2, <2>3, <2>4
<1>10. Reachable \subseteq S
  <2>1. S \in SUBSET Blocks
    OBVIOUS
  <2> HIDE DEF S
  <2>2. \A b \in S : B[b] \subseteq S
    BY <1>6, <1>8, <1>9, <2>1, ReachedWithin
  <2> QED
    BY <1>4, <1>6, <2>2 DEF Reachable
<1>11. FreeEntriesAreFree
  BY <1>2, <1>3, <1>5, <1>10 DEF FreeEntriesAreFree
<1> QED
  BY <1>1, <1>3, <1>11 DEF FreeErased

-----------------------------------------------------------------------------
(***************************************************************************)
(* The invariant, before a step and after it.                              *)
(***************************************************************************)
LEMMA Before ==
    ASSUME TypeOK, TreeInv, pc # "dangling"
    PROVE  /\ Shape /\ Contents /\ FreeErased /\ NoCycle /\ Owned /\ Collecting
           /\ Typed /\ Linked /\ One /\ Whole /\ Holds /\ Walks
           /\ ~Emptied => Strict
           /\ \A x \in Blocks : NoParent(x) <=> Alone(x)
<1>1. Shape /\ Relations
  BY ShapeHolds, RelationsHold
<1>2. /\ Contents /\ FreeErased /\ Acyclic /\ Owned /\ Collecting
      /\ Kinds /\ OneParent /\ Whole /\ Holds /\ Walks
  BY DEF TreeInv
<1>3. /\ NoCycle /\ Typed /\ One /\ \A x \in Blocks : NoParent(x) <=> Alone(x)
  BY <1>1, <1>2 DEF Relations
<1>4. Linked /\ (~Emptied => Strict)
  BY <1>3 DEF Typed, Strict
<1> QED
  BY <1>1, <1>2, <1>3, <1>4

LEMMA After ==
    ASSUME TypeOK', Contents', FreeErased', NoCycle', Owned', Collecting',
           pc' # "dangling" => Typed' /\ One' /\ Whole' /\ Holds' /\ Walks'
    PROVE  TreeInv'
<1>1. Relations'
  BY RelationsNext
<1>2. Acyclic' /\ (Kinds' <=> Typed') /\ (OneParent' <=> One')
  BY <1>1 DEF Relations
<1> QED
  BY <1>2 DEF TreeInv

LEMMA AloneAfter ==
    ASSUME TypeOK' PROVE \A x \in Blocks : NoParent(x)' <=> Alone(x)'
<1>1. Relations'
  BY RelationsNext
<1> QED
  BY <1>1 DEF Relations

\* Before the collector is at a file that it has just emptied, and after it has gone
\* on, there is no exception to the kinds.
LEMMA AllTyped ==
    ASSUME Linked', Strict' PROVE Typed'
BY DEF Typed, Strict

-----------------------------------------------------------------------------
(***************************************************************************)
(* Steps that leave the flash, the queue and the root as they are.         *)
(***************************************************************************)
LEMMA QuietTree ==
    ASSUME UNCHANGED <<flash, free, root>>
    PROVE  /\ Contents => Contents'
           /\ FreeErased => FreeErased'
           /\ NoCycle => NoCycle'
           /\ Linked => Linked'
           /\ Strict => Strict'
           /\ One => One'
           /\ Whole => Whole'
           /\ \A x \in Blocks : NoParent(x)' <=> NoParent(x)
<1>1. /\ kind' = kind /\ ent' = ent /\ link' = link /\ refs' = refs
      /\ free' = free /\ root' = root
  BY DEF flash
<1>2. Contents => Contents'
  BY <1>1 DEF Contents
<1>3. FreeErased => FreeErased'
  BY <1>1 DEF FreeErased
<1>4. NoCycle => NoCycle'
  BY <1>1 DEF NoCycle, Kids, To
<1>5. Linked => Linked'
  BY <1>1 DEF Linked, At
<1>6. Strict => Strict'
  BY <1>1 DEF Strict, To
<1>7. One => One'
  BY <1>1 DEF One, To, At
<1>8. Whole => Whole'
  BY <1>1 DEF Whole
<1>9. \A x \in Blocks : NoParent(x)' <=> NoParent(x)
  BY <1>1 DEF NoParent
<1> QED
  BY <1>2, <1>3, <1>4, <1>5, <1>6, <1>7, <1>8, <1>9

LEMMA QuietCall ==
    ASSUME UNCHANGED <<flash, free, root, pc, op>>
    PROVE  /\ Owned => Owned'
           /\ Holds => Holds'
<1>1. /\ kind' = kind /\ ent' = ent /\ link' = link /\ refs' = refs
      /\ free' = free /\ root' = root /\ pc' = pc /\ op' = op
  BY DEF flash
<1>2. Owned => Owned'
  BY <1>1 DEF Owned, OwnedBy
<1>3. \A x \in Blocks : NoParent(x)' <=> NoParent(x)
  BY QuietTree
<1>4. MakesEntry => MakesEntry'
  BY <1>1 DEF MakesEntry, OpEntry, NoParent
<1>5. Appends => Appends'
  BY <1>1 DEF Appends, OpEntry, OpTop, LastSeq, SeqFull, NoParent
<1>6. Holds => Holds'
  BY <1>1, <1>4, <1>5 DEF Holds
<1> QED
  BY <1>2, <1>6

-----------------------------------------------------------------------------
(***************************************************************************)
(* Steps of the collector that change its walk only.                       *)
(***************************************************************************)
Frames == [dir : Blocks, at : 0 .. DirEntries, clean : BOOLEAN]

LEMMA Advanced ==
    ASSUME NEW w \in Seq(Frames), w # <<>>, Last(w).at > 0, NEW c \in BOOLEAN,
           NEW v, v = Advance(w, c)
    PROVE  /\ v \in Seq(Frames) /\ v # <<>> /\ Len(v) = Len(w) /\ DOMAIN v = DOMAIN w
           /\ \A i \in DOMAIN w : v[i].dir = w[i].dir /\ (i < Len(w) => v[i] = w[i])
<1>1. /\ Len(w) \in Nat /\ Len(w) > 0 /\ DOMAIN w = 1 .. Len(w)
      /\ Last(w) \in Frames /\ Last(w) = w[Len(w)]
  BY SeqIs
<1> DEFINE f == [Last(w) EXCEPT !.at = @ - 1, !.clean = @ /\ c]
           u == Front(w)
<1>2. f \in Frames /\ f.dir = Last(w).dir
  <2>1. PICK g : g = Last(w)
    OBVIOUS
  <2>2. /\ g \in [dir : Blocks, at : 0 .. DirEntries, clean : BOOLEAN]
        /\ g.at \in 0 .. DirEntries /\ g.at > 0 /\ g.dir \in Blocks /\ g.clean \in BOOLEAN
    BY <1>1, <2>1 DEF Frames
  <2>3. g.at - 1 \in 0 .. DirEntries
    BY <2>2, Given
  <2>4. f = [g EXCEPT !.at = g.at - 1, !.clean = g.clean /\ c]
    BY <2>1, <2>2
  <2> HIDE DEF f
  <2> QED
    BY <2>1, <2>2, <2>3, <2>4 DEF Frames
<1>3. /\ u \in Seq(Frames) /\ Len(u) = Len(w) - 1 /\ DOMAIN u = 1 .. Len(w) - 1
      /\ \A i \in DOMAIN u : u[i] = w[i]
  BY Fronted
<1>4. v = Append(u, f)
  BY DEF Advance
<1> HIDE DEF f, u
<1>5. /\ v \in Seq(Frames) /\ v # <<>> /\ Len(v) = Len(u) + 1
      /\ DOMAIN v = DOMAIN u \cup {Len(u) + 1} /\ v[Len(u) + 1] = f
      /\ \A i \in DOMAIN u : v[i] = u[i]
  BY <1>2, <1>3, <1>4, Appended
<1>6. Len(v) = Len(w) /\ v[Len(w)] = f
  BY <1>1, <1>3, <1>5
<1>7. Len(v) \in Nat /\ DOMAIN v = 1 .. Len(v)
  BY <1>5, SeqIs
<1>8. ASSUME NEW i \in DOMAIN w PROVE v[i].dir = w[i].dir /\ (i < Len(w) => v[i] = w[i])
  <2>1. CASE i = Len(w)
    BY <1>1, <1>2, <1>6, <2>1
  <2>2. CASE i # Len(w)
    <3>1. i \in 1 .. Len(w) - 1
      BY <1>1, <2>2
    <3> QED
      BY <1>3, <1>5, <3>1
  <2> QED
    BY <2>1, <2>2
<1> QED
  BY <1>1, <1>5, <1>6, <1>7, <1>8

\* What the collector has gone down through: entries that it is to come back to
WayDown(w) ==
    /\ w # <<>> => w[1].dir = root
    /\ \A i \in DOMAIN w : i < Len(w) =>
          LET e == ent[w[i].dir][w[i].at] IN
          /\ w[i].at > 0 /\ e.next # <<>> /\ ~e.reclaimable
          /\ Last(e.next) = w[i + 1].dir /\ kind[w[i + 1].dir] = "dir"

LEMMA QuietWalk ==
    ASSUME TypeOK, TreeInv, pc \in Allocating, ~AtVictim,
           UNCHANGED <<flash, free, root, pc, op, crashes>>,
           walk' \in Seq(Frames), WayDown(walk'), walk' = <<>> => op.victim = None
    PROVE  TypeOK' /\ TreeInv'
<1>1. /\ kind' = kind /\ ent' = ent /\ link' = link /\ refs' = refs
      /\ free' = free /\ root' = root /\ pc' = pc /\ op' = op /\ crashes' = crashes
  BY DEF flash
<1>2. pc # "dangling"
  BY DEF Allocating
<1>3. /\ Shape /\ Contents /\ FreeErased /\ NoCycle /\ Owned /\ Collecting
      /\ Linked /\ One /\ Whole /\ Holds /\ Walks /\ Strict
  BY <1>2, Before DEF Emptied, TopFreed
<1>4. op.victim = None
  BY <1>3 DEF Walks
<1>5. TypeOK'
  BY <1>1 DEF TypeOK, Frames
<1>6. /\ Contents' /\ FreeErased' /\ NoCycle' /\ One' /\ Whole' /\ Linked' /\ Strict'
      /\ Owned' /\ Holds'
  BY <1>1, <1>3, QuietTree, QuietCall DEF flash
<1>7. Collecting'
  BY <1>1, <1>4 DEF Collecting
<1>8. Walks'
  BY <1>1, <1>4 DEF Walks, WayDown
<1> QED
  BY <1>5, <1>6, <1>7, <1>8, AllTyped, After

\* The collector at an entry, or at the end of a block
LEMMA InWalk ==
    ASSUME TypeOK, TreeInv, walk # <<>>
    PROVE  /\ pc \in Allocating /\ Walks /\ WayDown(walk)
           /\ walk \in Seq(Frames) /\ Len(walk) \in Nat /\ Len(walk) > 0
           /\ DOMAIN walk = 1 .. Len(walk) /\ Top = walk[Len(walk)] /\ Top \in Frames
           /\ \A i \in DOMAIN walk : walk[i] \in Frames
           /\ Top.at > 0 => Top.at \in Idx
<1>1. Collecting
  BY DEF TreeInv
<1>2. pc \in Allocating /\ pc # "dangling"
  BY <1>1 DEF Collecting, Allocating
<1>3. walk \in Seq(Frames)
  BY DEF TypeOK, Frames
<1>4. /\ Len(walk) \in Nat /\ Len(walk) > 0 /\ DOMAIN walk = 1 .. Len(walk)
      /\ Top = walk[Len(walk)] /\ Top \in Frames
      /\ \A i \in DOMAIN walk : walk[i] \in Frames
  BY <1>3, SeqIs DEF Top
<1>5. Walks
  BY <1>2 DEF TreeInv
<1>6. WayDown(walk)
  BY <1>5 DEF Walks, WayDown
<1>7. Top.at > 0 => Top.at \in Idx
  BY <1>4, Given DEF Frames, Idx
<1> QED
  BY <1>2, <1>3, <1>4, <1>5, <1>6, <1>7

LEMMA AdvancedWay ==
    ASSUME NEW w \in Seq(Frames), w # <<>>, Last(w).at > 0, NEW c \in BOOLEAN,
           WayDown(w), NEW v, v = Advance(w, c)
    PROVE  v \in Seq(Frames) /\ v # <<>> /\ WayDown(v)
<1>1. /\ v \in Seq(Frames) /\ v # <<>> /\ Len(v) = Len(w) /\ DOMAIN v = DOMAIN w
      /\ \A i \in DOMAIN w : v[i].dir = w[i].dir /\ (i < Len(w) => v[i] = w[i])
  BY Advanced
<1>2. Len(w) \in Nat /\ Len(w) > 0 /\ DOMAIN w = 1 .. Len(w)
  BY SeqIs
<1>3. 1 \in DOMAIN w /\ \A i \in DOMAIN w : i < Len(w) => i + 1 \in DOMAIN w
  BY <1>2
<1> QED
  BY <1>1, <1>3 DEF WayDown

LEMMA StartGcKeeps ==
    ASSUME TypeOK, TreeInv, StartGc PROVE TypeOK' /\ TreeInv'
<1>1. /\ pc \in Allocating /\ walk = <<>> /\ walk' = <<Frame(root)>>
      /\ UNCHANGED <<flash, free, root, pc, op, crashes>>
  BY DEF StartGc
<1>2. Frame(root) \in Frames /\ Frame(root).dir = root
  BY Given DEF TypeOK, Frame, Frames
<1> DEFINE v == <<Frame(root)>>
<1>3. v \in Seq(Frames) /\ Len(v) = 1 /\ DOMAIN v = 1 .. 1 /\ v[1] = Frame(root) /\ v # <<>>
  <2> HIDE DEF Frames
  <2> QED
    BY <1>2
<1>4. WayDown(v)
  <2> HIDE DEF v
  <2> QED
    BY <1>2, <1>3 DEF WayDown
<1> HIDE DEF v
<1>5. ~AtVictim
  BY <1>1 DEF AtVictim, AtEntry
<1>6. walk' = v
  BY <1>1 DEF v
<1> QED
  BY <1>1, <1>3, <1>4, <1>5, <1>6, QuietWalk

LEMMA SkipKeeps ==
    ASSUME TypeOK, TreeInv, SkipZeroed \/ KeepEntry PROVE TypeOK' /\ TreeInv'
<1>1. PICK c \in BOOLEAN : walk' = Advance(walk, c)
  BY DEF SkipZeroed, KeepEntry
<1>2. AtEntry /\ UNCHANGED <<flash, free, root, pc, op, crashes>>
  BY DEF SkipZeroed, KeepEntry
<1>3. /\ pc \in Allocating /\ WayDown(walk) /\ walk \in Seq(Frames) /\ walk # <<>>
      /\ Top \in Frames /\ Top.at \in Idx /\ Last(walk).at > 0
  BY <1>2, InWalk DEF AtEntry, Top
<1>4. ~AtVictim
  <2>1. Shape /\ Top.dir \in Blocks
    BY <1>3, ShapeHolds DEF Frames
  <2>2. HasNext <=> TopEntry.path \in Paths
    BY <1>3, <2>1 DEF Shape, HasNext, TopEntry
  <2>3. IsZeroed => ~HasNext
    BY <2>2, Given DEF IsZeroed
  <2>4. TopEntry.reclaimable \in BOOLEAN /\ NextIsDir \in BOOLEAN
    BY <1>3, <2>1 DEF Shape, TopEntry, Entry, NextIsDir, HasNext
  <2> QED
    BY <2>3, <2>4 DEF SkipZeroed, KeepEntry, AtVictim
<1>5. walk' \in Seq(Frames) /\ walk' # <<>> /\ WayDown(walk')
  <2>1. \A v : v = Advance(walk, c) => v \in Seq(Frames) /\ v # <<>> /\ WayDown(v)
    BY <1>3, AdvancedWay
  <2> QED
    BY <1>1, <2>1
<1> QED
  BY <1>2, <1>3, <1>4, <1>5, QuietWalk

LEMMA DescendKeeps ==
    ASSUME TypeOK, TreeInv, Descend PROVE TypeOK' /\ TreeInv'
<1> DEFINE f == Frame(Last(TopEntry.next))
<1>1. /\ AtEntry /\ ~TopEntry.reclaimable /\ HasNext /\ kind[Last(TopEntry.next)] = "dir"
      /\ walk' = Append(walk, f) /\ UNCHANGED <<flash, free, root, pc, op, crashes>>
  BY DEF Descend, NextIsDir
<1>2. /\ pc \in Allocating /\ WayDown(walk) /\ walk \in Seq(Frames)
      /\ Len(walk) \in Nat /\ Len(walk) > 0 /\ DOMAIN walk = 1 .. Len(walk)
      /\ Top = walk[Len(walk)] /\ Top \in Frames /\ Top.at \in Idx /\ Top.at > 0
  BY <1>1, InWalk DEF AtEntry
<1>3. Last(TopEntry.next) \in Blocks
  <2>1. Shape /\ Top.dir \in Blocks
    BY <1>2, ShapeHolds DEF Frames
  <2> QED
    BY <1>1, <1>2, <2>1 DEF Shape, Optional, HasNext, TopEntry
<1>4. f \in Frames /\ f.dir = Last(TopEntry.next)
  BY <1>3, Given DEF Frame, Frames
<1> HIDE DEF f
<1>5. /\ walk' \in Seq(Frames) /\ walk' # <<>> /\ Len(walk') = Len(walk) + 1
      /\ DOMAIN walk' = DOMAIN walk \cup {Len(walk) + 1} /\ walk'[Len(walk) + 1] = f
      /\ \A i \in DOMAIN walk : walk'[i] = walk[i]
  <2>1. \A v : v = Append(walk, f) =>
          /\ v \in Seq(Frames) /\ v # <<>> /\ Len(v) = Len(walk) + 1
          /\ DOMAIN v = DOMAIN walk \cup {Len(walk) + 1} /\ v[Len(walk) + 1] = f
          /\ \A i \in DOMAIN walk : v[i] = walk[i]
    BY <1>2, <1>4, Appended
  <2> QED
    BY <1>1, <2>1
<1>6. WayDown(walk')
  <2>1. walk'[1].dir = root
    BY <1>2, <1>5 DEF WayDown
  <2>2. ASSUME NEW i \in DOMAIN walk', i < Len(walk')
        PROVE  LET e == ent[walk'[i].dir][walk'[i].at] IN
               /\ walk'[i].at > 0 /\ e.next # <<>> /\ ~e.reclaimable
               /\ Last(e.next) = walk'[i + 1].dir /\ kind[walk'[i + 1].dir] = "dir"
    <3>1. i \in DOMAIN walk /\ walk'[i] = walk[i]
      BY <1>2, <1>5, <2>2
    <3>2. CASE i = Len(walk)
      <4>1. walk'[i] = Top /\ walk'[i + 1] = f
        BY <1>2, <1>5, <3>1, <3>2
      <4> QED
        BY <1>1, <1>2, <1>4, <4>1 DEF TopEntry, HasNext
    <3>3. CASE i # Len(walk)
      <4>1. i < Len(walk) /\ i + 1 \in DOMAIN walk
        BY <1>2, <3>1, <3>3
      <4>2. walk'[i + 1] = walk[i + 1]
        BY <1>5, <4>1
      <4> QED
        BY <1>2, <3>1, <4>1, <4>2 DEF WayDown
    <3> QED
      BY <3>2, <3>3
  <2> QED
    BY <2>1, <2>2 DEF WayDown
<1>7. ~AtVictim
  BY <1>1 DEF AtVictim
<1> QED
  BY <1>1, <1>2, <1>5, <1>6, <1>7, QuietWalk

\* What leads down to the block that the last call of the collector is in
LEMMA WayAbove ==
    ASSUME TypeOK, TreeInv, walk # <<>>, Len(walk) > 1
    PROVE  /\ Front(walk) \in Seq(Frames) /\ Front(walk) # <<>> /\ WayDown(Front(walk))
           /\ Above \in Frames /\ Above.at \in Idx /\ Above.at > 0
           /\ Last(Front(walk)) = Above
           /\ To(Above.dir, Above.at) = Top.dir /\ kind[Top.dir] = "dir"
           /\ ~ent[Above.dir][Above.at].reclaimable
<1>1. /\ WayDown(walk) /\ walk \in Seq(Frames)
      /\ Len(walk) \in Nat /\ Len(walk) > 1 /\ DOMAIN walk = 1 .. Len(walk)
      /\ Top = walk[Len(walk)] /\ \A i \in DOMAIN walk : walk[i] \in Frames
  BY InWalk
<1> DEFINE v == Front(walk)
           n == Len(walk) - 1
<1>2. /\ v \in Seq(Frames) /\ Len(v) = n /\ DOMAIN v = 1 .. n
      /\ \A i \in DOMAIN v : v[i] = walk[i]
  <2>1. \A t : t = Front(walk) =>
           /\ t \in Seq(Frames) /\ Len(t) = Len(walk) - 1 /\ \A i \in DOMAIN t : t[i] = walk[i]
           /\ DOMAIN t = 1 .. Len(walk) - 1
    BY <1>1, Fronted
  <2> QED
    BY <2>1
<1>3. n \in DOMAIN walk /\ n \in DOMAIN v /\ n < Len(walk) /\ n + 1 = Len(walk) /\ n > 0
  BY <1>1, <1>2
<1> HIDE DEF v
<1>4. v # <<>> /\ Last(v) = v[n]
  BY <1>2, <1>3, SeqIs
<1>5. Above = walk[n] /\ Last(v) = Above /\ Above \in Frames
  BY <1>1, <1>2, <1>3, <1>4 DEF Above
<1>6. LET e == ent[Above.dir][Above.at] IN
      /\ Above.at > 0 /\ e.next # <<>> /\ ~e.reclaimable
      /\ Last(e.next) = Top.dir /\ kind[Top.dir] = "dir"
  BY <1>1, <1>3, <1>5 DEF WayDown
<1>7. Above.at \in Idx
  BY <1>5, <1>6, Given DEF Frames, Idx
<1>8. To(Above.dir, Above.at) = Top.dir
  BY <1>6 DEF To
<1>9. WayDown(v)
  <2>1. v[1] = walk[1] /\ 1 \in DOMAIN walk
    BY <1>1, <1>2, <1>3
  <2>2. \A i \in DOMAIN v : i < Len(v) => i + 1 \in DOMAIN v /\ i \in DOMAIN walk /\ i < Len(walk)
    BY <1>1, <1>2
  <2> QED
    BY <1>1, <1>2, <2>1, <2>2 DEF WayDown
<1> QED
  BY <1>2, <1>4, <1>5, <1>6, <1>7, <1>8, <1>9 DEF v

LEMMA LeaveDirKeeps ==
    ASSUME TypeOK, TreeInv, LeaveDir PROVE TypeOK' /\ TreeInv'
<1>1. /\ AtEnd /\ Len(walk) > 1 /\ walk' = Advance(Front(walk), TRUE)
      /\ UNCHANGED <<flash, free, root, pc, op, crashes>>
  BY DEF LeaveDir
<1>2. pc \in Allocating
  BY <1>1, InWalk DEF AtEnd
<1> DEFINE w == Front(walk)
<1>3. w \in Seq(Frames) /\ w # <<>> /\ WayDown(w) /\ Last(w).at > 0
  BY <1>1, WayAbove DEF AtEnd
<1> HIDE DEF w
<1>4. \A v : v = Advance(w, TRUE) => v \in Seq(Frames) /\ v # <<>> /\ WayDown(v)
  BY <1>3, AdvancedWay
<1>5. walk' = Advance(w, TRUE)
  BY <1>1 DEF w
<1>6. ~AtVictim
  BY <1>1, InWalk DEF AtVictim, AtEnd, AtEntry
<1> QED
  BY <1>1, <1>2, <1>4, <1>5, <1>6, QuietWalk

-----------------------------------------------------------------------------
(***************************************************************************)
(* Steps that end a call, and leave the flash as it is.                    *)
(***************************************************************************)
LEMMA QuietEnd ==
    ASSUME TypeOK, TreeInv, pc # "dangling", UNCHANGED <<flash, free, root>>,
           walk' = <<>>, crashes' \in 0 .. MaxCrashes,
           \/ op' = NoOp /\ pc' \in {"idle", "dangling"}
           \/ op' = op /\ op.victim = None /\ pc' \in {"overflow", "noptr"},
           Emptied => pc' = "dangling"
    PROVE  TypeOK' /\ TreeInv'
<1>1. /\ kind' = kind /\ ent' = ent /\ link' = link /\ refs' = refs
      /\ free' = free /\ root' = root
  BY DEF flash
<1>2. /\ Shape /\ Contents /\ FreeErased /\ NoCycle /\ Owned
      /\ Linked /\ One /\ Whole /\ Holds /\ Walks /\ (~Emptied => Strict)
  BY Before
<1>3. TypeOK'
  <2>1. pc' \in {"idle"} \cup Allocating \cup Writing \cup Stopped
    BY DEF Stopped
  <2>2. op' \in [call : {"none", "register", "mkdir", "append"}, path : Paths \cup {Root},
                 dir : Blocks \cup {None}, slot : Idx,
                 block : Blocks \cup {None}, seq : Blocks \cup {None},
                 victim : Blocks \cup {None}]
    BY Given DEF TypeOK, NoOp
  <2>3. walk' \in Seq([dir : Blocks, at : 0 .. DirEntries, clean : BOOLEAN])
    OBVIOUS
  <2> QED
    BY <1>1, <2>1, <2>2, <2>3 DEF TypeOK
<1>4. /\ Contents' /\ FreeErased' /\ NoCycle' /\ One' /\ Whole' /\ Linked'
      /\ (Strict => Strict')
  BY <1>2, QuietTree
<1>5. Owned'
  BY <1>1, <1>2 DEF Owned, OwnedBy
<1>6. op'.victim = None /\ Collecting'
  BY DEF Collecting, NoOp
<1>7. Holds'
  <2>1. /\ op'.dir # None => kind'[op'.dir] = "dir"
        /\ op'.block # None => kind'[op'.block] \in {"dir", "seq", "data"}
        /\ op'.seq # None => kind'[op'.seq] = "seq"
        /\ pc' = "idle" => op' = NoOp
    BY <1>1, <1>2 DEF Holds, NoOp
  <2>2. MakesEntry' /\ Appends'
    BY DEF MakesEntry, Appends
  <2> QED
    BY <2>1, <2>2 DEF Holds
<1>8. Walks'
  <2>1. DOMAIN walk' = {}
    OBVIOUS
  <2> QED
    BY <1>6, <2>1 DEF Walks
<1>9. pc' # "dangling" => Typed'
  BY <1>2, <1>4, AllTyped
<1> QED
  BY <1>3, <1>4, <1>5, <1>6, <1>7, <1>8, <1>9, After

LEMMA EndKeeps ==
    ASSUME TypeOK, TreeInv, NoMemory \/ MigrateRootAllocates \/ MigrateDirNoPtr
    PROVE  TypeOK' /\ TreeInv'
<1>1. /\ AtEnd /\ UNCHANGED <<flash, free, root>> /\ walk' = <<>> /\ crashes' = crashes
      /\ \/ op' = NoOp /\ pc' = "idle"
         \/ op' = op /\ pc' \in {"overflow", "noptr"}
  BY DEF NoMemory, MigrateRootAllocates, MigrateDirNoPtr, Return
<1>2. pc \in Allocating /\ Walks /\ pc # "dangling"
  BY <1>1, InWalk DEF AtEnd, Allocating
<1>3. ~AtVictim
  BY <1>1, InWalk DEF AtVictim, AtEnd, AtEntry
<1>4. op.victim = None /\ ~Emptied
  BY <1>2, <1>3 DEF Walks, Emptied, TopFreed
<1>5. crashes' \in 0 .. MaxCrashes
  BY <1>1 DEF TypeOK
<1> QED
  BY <1>1, <1>2, <1>4, <1>5, QuietEnd

LEMMA CrashKeeps ==
    ASSUME TypeOK, TreeInv, Crash PROVE TypeOK' /\ TreeInv'
<1>1. /\ UNCHANGED <<flash, free, root>> /\ walk' = <<>> /\ op' = NoOp
      /\ crashes < MaxCrashes /\ crashes' = crashes + 1
      /\ pc' = IF TopFreed THEN "dangling" ELSE "idle"
      /\ pc \in Allocating \cup Writing
  BY DEF Crash
<1>2. crashes' \in 0 .. MaxCrashes
  BY <1>1, Given DEF TypeOK
<1>3. pc # "dangling" /\ (Emptied => pc' = "dangling")
  BY <1>1 DEF Emptied, Allocating, Writing
<1> QED
  BY <1>1, <1>2, <1>3, QuietEnd

-----------------------------------------------------------------------------
(***************************************************************************)
(* Finding paths, between calls and wherever the collector does not run.   *)
(***************************************************************************)
\* The block that is found for a directory is a block of that directory,
LEMMA DirBlockOwned ==
    ASSUME TypeOK, Strict, Linked, NEW own, OwnedBy(own)
    PROVE  \A d \in Dirs \cup {Root} : DirBlock[d] # None =>
              DirBlock[d] \in Blocks /\ kind[DirBlock[d]] = "dir" /\ own[DirBlock[d]] = d
<1>1. Shape /\ DirBlockSolved
  BY ShapeHolds, DirBlockHolds
<1> DEFINE Right(d) == DirBlock[d] # None =>
              DirBlock[d] \in Blocks /\ kind[DirBlock[d]] = "dir" /\ own[DirBlock[d]] = d
           S == {d \in Dirs \cup {Root} : Right(d)}
<1>2. Root \in S
  BY <1>1 DEF DirBlockSolved, TypeOK, Linked, OwnedBy
<1>3. ASSUME NEW d \in Dirs, Home[d] \in S PROVE d \in S
  <2> SUFFICES ASSUME DirBlock[d] # None
               PROVE  DirBlock[d] \in Blocks /\ kind[DirBlock[d]] = "dir" /\ own[DirBlock[d]] = d
    OBVIOUS
  <2> DEFINE b == DirBlock[Home[d]]
  <2>1. DirBlock[d] = DirIn(b, d)
    BY <1>1 DEF DirBlockSolved
  <2>2. b # None /\ EntriesFor(b, d) # {}
    BY <2>1 DEF DirIn
  <2>3. b \in Blocks /\ d \in Paths
    BY <1>3, <2>2, Given
  <2> DEFINE i == Min(EntriesFor(b, d))
  <2> HIDE DEF b
  <2>4. /\ i \in Idx /\ ent[b][i].path = d /\ To(b, i) # None
        /\ To(b, i) \in Blocks /\ To(b, i) = Last(ent[b][i].next)
    BY <1>1, <2>2, <2>3, EntryFound
  <2>5. DirBlock[d] = Last(ent[b][i].next)
    BY <2>1, <2>2 DEF DirIn
  <2> HIDE DEF i
  <2>6. own[Last(ent[b][i].next)] = d
    BY <2>3, <2>4 DEF OwnedBy
  <2>7. kind[To(b, i)] = "dir"
    BY <2>3, <2>4 DEF Strict, KindOf
  <2> QED
    BY <2>4, <2>5, <2>6, <2>7
<1> HIDE DEF S
<1>4. \A d \in Dirs \cup {Root} : d \in S
  BY <1>2, <1>3, HomeInduction
<1> QED
  BY <1>4 DEF S

\* and so are those after it.
LEMMA ChainOwned ==
    ASSUME TypeOK, NoCycle, Linked, NEW own, OwnedBy(own),
           NEW b \in Blocks, kind[b] = "dir", NEW c \in Chain[b]
    PROVE  c \in Blocks /\ kind[c] = "dir" /\ own[c] = own[b]
<1>1. AreChains(link, Chain) /\ link \in Links
  BY LinkFounded, ChainNow
<1> DEFINE S == {x \in Blocks : kind[x] = "dir" /\ own[x] = own[b]}
<1>2. S \in SUBSET Blocks /\ b \in S
  OBVIOUS
<1>3. Closed(link, S)
  BY <1>1 DEF Closed, Links, Optional, Linked, OwnedBy
<1>4. Chain[b] \subseteq S
  <2> HIDE DEF S
  <2> QED
    BY <1>1, <1>2, <1>3 DEF AreChains
<1> QED
  BY <1>4

\* A path that is found is that of a live entry.
LEMMA PlaceFound ==
    ASSUME TypeOK, NoCycle, Contents, NEW p \in Paths, NEW place \in Find(p)
    PROVE  LET b == place[1]
               i == place[2]
           IN  /\ place = <<b, i>> /\ b \in Blocks /\ i \in Idx /\ b \in Chain[DirBlock[Home[p]]]
               /\ DirBlock[Home[p]] \in Blocks /\ kind[b] = "dir"
               /\ Live(ent[b][i]) /\ ent[b][i].path = p
               /\ To(b, i) \in Blocks /\ To(b, i) = Last(ent[b][i].next) /\ To(b, i) # None
<1>1. /\ Shape /\ DirBlockSolved /\ AreChains(link, Chain)
  BY ShapeHolds, DirBlockHolds, LinkFounded, ChainNow
<1>2. PICK b \in With(p) : place = <<b, Min(EntriesFor(b, p))>>
  BY DEF Find
<1>3. b \in Chain[DirBlock[Home[p]]] /\ EntriesFor(b, p) # {}
  BY DEF With
<1>4. DirBlock[Home[p]] \in Blocks
  <2>1. DirBlock[Home[p]] \in Optional
    BY <1>1, Given DEF DirBlockSolved
  <2>2. DirBlock[Home[p]] # None
    BY <1>1, <1>3 DEF AreChains
  <2> QED
    BY <2>1, <2>2 DEF Optional
<1>5. b \in Blocks
  BY <1>1, <1>3, <1>4 DEF AreChains
<1> DEFINE i == Min(EntriesFor(b, p))
<1>6. /\ i \in Idx /\ Live(ent[b][i]) /\ ent[b][i].path = p
      /\ To(b, i) # None /\ To(b, i) \in Blocks /\ To(b, i) = Last(ent[b][i].next)
  BY <1>1, <1>3, <1>5, EntryFound
<1>7. place[1] = b /\ place[2] = i
  BY <1>2
<1> HIDE DEF i
<1>8. kind[b] = "dir"
  BY <1>5, <1>6, NoEntries
<1> QED
  BY <1>2, <1>3, <1>4, <1>5, <1>6, <1>7, <1>8 DEF i

-----------------------------------------------------------------------------
(***************************************************************************)
(* The calls, up to their first allocation or to their end.                *)
(***************************************************************************)
LEMMA QuietBegin ==
    ASSUME TypeOK, TreeInv, pc = "idle", UNCHANGED <<flash, free, root, walk, crashes>>,
           TypeOK', op'.victim = None, pc' # "dangling", Owned', Holds'
    PROVE  TreeInv'
<1>1. /\ Shape /\ Contents /\ FreeErased /\ NoCycle /\ Owned /\ Collecting
      /\ Linked /\ One /\ Whole /\ Holds /\ Walks /\ (~Emptied => Strict)
  BY Before
<1>2. walk = <<>> /\ ~Emptied
  BY <1>1 DEF Collecting, Allocating, Emptied, TopFreed, AtVictim, AtEntry
<1>3. /\ Contents' /\ FreeErased' /\ NoCycle' /\ One' /\ Whole' /\ Linked' /\ Strict'
  BY <1>1, <1>2, QuietTree
<1>4. Collecting'
  BY <1>2 DEF Collecting
<1>5. Walks'
  <2>1. walk' = <<>> /\ DOMAIN walk' = {}
    BY <1>2
  <2> QED
    BY <2>1 DEF Walks
<1> QED
  BY <1>3, <1>4, <1>5, AllTyped, After

LEMMA BeginEntryKeeps ==
    ASSUME TypeOK, TreeInv, NEW call \in {"register", "mkdir"},
           NEW p \in IF call = "mkdir" THEN Dirs ELSE Files, BeginEntry(call, p)
    PROVE  TypeOK' /\ TreeInv'
<1> DEFINE d == LastInChain(DirBlock[Home[p]])
           unused == {i \in Idx : ~ent[d][i].used}
           slot == IF unused = {} THEN 1 ELSE Min(unused)
<1>1. /\ pc = "idle" /\ DirBlock[Home[p]] # None
      /\ op' = [NoOp EXCEPT !.call = call, !.path = p, !.dir = d, !.slot = slot]
      /\ pc' = IF unused = {} THEN "extend" ELSE "block"
      /\ UNCHANGED <<flash, free, root, walk, crashes>>
  BY DEF BeginEntry
<1>2. /\ Shape /\ Contents /\ NoCycle /\ Owned /\ Collecting /\ Linked /\ (~Emptied => Strict)
  BY <1>1, Before
<1>3. Strict
  BY <1>1, <1>2 DEF Collecting, Allocating, Emptied, TopFreed, AtVictim, AtEntry
<1>4. PICK own \in [Blocks -> Dirs \cup {Root}] : OwnedBy(own)
  BY <1>2 DEF Owned
<1>5. p \in Paths /\ Home[p] \in Dirs \cup {Root}
  BY Given
<1> DEFINE b == DirBlock[Home[p]]
<1>6. b \in Blocks /\ kind[b] = "dir" /\ own[b] = Home[p]
  BY <1>1, <1>2, <1>3, <1>4, <1>5, DirBlockOwned
<1>7. d \in Chain[b] /\ link[d] = None
  <2> HIDE DEF b
  <2>1. \E c \in Chain[b] : link[c] = None
    BY <1>2, <1>6, LinkFounded, ChainNow, ChainHasLast
  <2> QED
    BY <2>1 DEF LastInChain, b
<1> HIDE DEF b, d
<1>8. d \in Blocks /\ kind[d] = "dir" /\ own[d] = Home[p]
  BY <1>2, <1>4, <1>6, <1>7, ChainOwned
<1>9. slot \in Idx /\ (unused # {} => ent[d][slot] = BlankEntry)
  <2>1. unused # {} => Min(unused) \in unused
    BY Given, LeastElement
  <2> QED
    BY <1>2, <1>8, <2>1, Given DEF Contents
<1> HIDE DEF slot
<1>10. /\ op'.call = call /\ op'.path = p /\ op'.dir = d /\ op'.slot = slot
       /\ op'.block = None /\ op'.seq = None /\ op'.victim = None
  BY <1>1 DEF NoOp
<1>11. kind' = kind /\ ent' = ent /\ link' = link /\ refs' = refs /\ free' = free /\ root' = root
  BY <1>1 DEF flash
<1>12. pc' \in {"extend", "block"}
  BY <1>1
<1>13. TypeOK'
  <2>1. op' \in [call : {"none", "register", "mkdir", "append"}, path : Paths \cup {Root},
                 dir : Blocks \cup {None}, slot : Idx,
                 block : Blocks \cup {None}, seq : Blocks \cup {None},
                 victim : Blocks \cup {None}]
    BY <1>1, <1>5, <1>8, <1>9 DEF NoOp
  <2>2. pc' \in {"idle"} \cup Allocating \cup Writing \cup Stopped
    BY <1>12 DEF Allocating
  <2> QED
    BY <1>1, <1>11, <2>1, <2>2 DEF TypeOK
<1>14. Owned'
  <2>1. OwnedBy(own)'
    BY <1>4, <1>8, <1>10, <1>11, <1>12 DEF OwnedBy
  <2> QED
    BY <2>1 DEF Owned
<1>15. Holds'
  <2>1. MakesEntry'
    <3>1. pc' = "extend" => link'[op'.dir] = None
      BY <1>7, <1>10, <1>11
    <3>2. pc' = "block" => OpEntry' = BlankEntry
      BY <1>1, <1>9, <1>10, <1>11 DEF OpEntry
    <3>3. op'.dir # None
      BY <1>8, <1>10, Given
    <3> QED
      BY <1>10, <1>12, <3>1, <3>2, <3>3 DEF MakesEntry
  <2>2. Appends'
    BY <1>12 DEF Appends
  <2> QED
    BY <1>8, <1>10, <1>11, <1>12, <2>1, <2>2 DEF Holds
<1> QED
  BY <1>1, <1>10, <1>12, <1>13, <1>14, <1>15, QuietBegin

\* The blocks of a file that is there: its first one, and the sequence block it goes
\* on in.
LEMMA FileBlocks ==
    ASSUME TypeOK, Contents, Linked, Strict, Whole, NEW b \in Blocks, NEW i \in Idx,
           Live(ent[b][i]), ent[b][i].path \in Files
    PROVE  /\ To(b, i) \in Blocks /\ To(b, i) # None /\ To(b, i) = Last(ent[b][i].next)
           /\ kind[To(b, i)] = IF Len(ent[b][i].next) = 1 THEN "seq" ELSE "indir"
           /\ LastSeq(ent[b][i]) \in Blocks /\ kind[LastSeq(ent[b][i])] = "seq"
           /\ kind[To(b, i)] = "seq" => LastSeq(ent[b][i]) = To(b, i)
           /\ kind[To(b, i)] = "indir" =>
                 /\ LastSeq(ent[b][i]) = At(To(b, i), Len(refs[To(b, i)]))
                 /\ refs[To(b, i)] # <<>>
<1> DEFINE e == ent[b][i]
           top == To(b, i)
<1>1. Shape
  BY ShapeHolds
<1>2. e.path \in Paths /\ e.path \notin Dirs /\ ~e.reclaimable
  BY Given DEF Live
<1>3. top \in Blocks /\ top # None /\ top = Last(e.next) /\ e.next # <<>>
  BY <1>1, <1>2 DEF Shape, Optional
<1>4. kind[top] = IF Len(e.next) = 1 THEN "seq" ELSE "indir"
  BY <1>2, <1>3 DEF Strict, KindOf
<1> HIDE DEF e, top
<1>5. CASE kind[top] = "seq"
  <2>1. LastSeq(e) = top
    BY <1>3, <1>5 DEF LastSeq
  <2> QED
    BY <1>3, <1>4, <1>5, <2>1 DEF e, top
<1>6. CASE kind[top] = "indir"
  <2>1. refs[top] # <<>> /\ \A j \in DOMAIN refs[top] : refs[top][j] # None
    BY <1>2, <1>3, <1>6 DEF Whole, e
  <2>2. refs[top] \in Seq(Optional)
    BY <1>1, <1>3 DEF Shape
  <2> DEFINE n == Len(refs[top])
  <2>3. n \in DOMAIN refs[top] /\ n \in Nat /\ Last(refs[top]) = refs[top][n] /\ refs[top][n] \in Optional
    BY <2>1, <2>2, SeqIs
  <2>4. LastSeq(e) = refs[top][n]
    BY <1>3, <1>6, <2>3 DEF LastSeq
  <2>5. At(top, n) = refs[top][n] /\ At(top, n) # None
    BY <2>1, <2>3 DEF At
  <2>6. At(top, n) \in Blocks
    BY <2>3, <2>5 DEF Optional
  <2>7. kind[At(top, n)] = "seq"
    BY <1>3, <1>6, <2>3, <2>5 DEF Linked
  <2> QED
    BY <1>3, <1>4, <1>6, <2>1, <2>4, <2>5, <2>6, <2>7 DEF e, top
<1> QED
  BY <1>4, <1>5, <1>6

LEMMA BeginAppendKeeps ==
    ASSUME TypeOK, TreeInv, NEW f \in Files, BeginAppend(f, FALSE)
    PROVE  TypeOK' /\ TreeInv'
<1>1. PICK place \in Find(f) :
          LET top == Last(EntryOf(place).next)
              s == LastSeq(EntryOf(place))
          IN  /\ SeqFull(s) => IF kind[top] = "indir" THEN Len(refs[top]) < IndirEntries
                                ELSE IndirEntries > 1
              /\ op' = [NoOp EXCEPT !.call = "append", !.path = f, !.dir = place[1],
                                    !.slot = place[2], !.seq = s, !.block = None]
  BY DEF BeginAppend
<1>2. /\ pc = "idle" /\ pc' = "data" /\ UNCHANGED <<flash, free, root, walk, crashes>>
  BY DEF BeginAppend
<1>3. /\ Shape /\ Contents /\ NoCycle /\ Owned /\ Collecting /\ Linked /\ Whole
      /\ (~Emptied => Strict)
  BY <1>2, Before
<1>4. Strict
  BY <1>2, <1>3 DEF Collecting, Allocating, Emptied, TopFreed, AtVictim, AtEntry
<1> DEFINE b == place[1]
           i == place[2]
           s == LastSeq(ent[b][i])
<1>5. f \in Paths
  BY Given
<1>6. /\ b \in Blocks /\ i \in Idx /\ kind[b] = "dir"
      /\ Live(ent[b][i]) /\ ent[b][i].path = f
  BY <1>3, <1>5, PlaceFound
<1>7. /\ To(b, i) = Last(ent[b][i].next) /\ s \in Blocks /\ kind[s] = "seq"
  BY <1>3, <1>4, <1>6, FileBlocks
<1>8. EntryOf(place) = ent[b][i]
  BY DEF EntryOf
<1> HIDE DEF b, i, s
<1>9. /\ SeqFull(s) => IF kind[To(b, i)] = "indir" THEN Len(refs[To(b, i)]) < IndirEntries
                        ELSE IndirEntries > 1
      /\ op' = [NoOp EXCEPT !.call = "append", !.path = f, !.dir = b,
                            !.slot = i, !.seq = s, !.block = None]
  BY <1>1, <1>7, <1>8 DEF b, i, s
<1>10. /\ op'.call = "append" /\ op'.path = f /\ op'.dir = b /\ op'.slot = i
       /\ op'.block = None /\ op'.seq = s /\ op'.victim = None
  BY <1>9 DEF NoOp
<1>11. kind' = kind /\ ent' = ent /\ link' = link /\ refs' = refs /\ free' = free /\ root' = root
  BY <1>2 DEF flash
<1>12. TypeOK'
  <2>1. op' \in [call : {"none", "register", "mkdir", "append"}, path : Paths \cup {Root},
                 dir : Blocks \cup {None}, slot : Idx,
                 block : Blocks \cup {None}, seq : Blocks \cup {None},
                 victim : Blocks \cup {None}]
    BY <1>5, <1>6, <1>7, <1>9 DEF NoOp
  <2>2. pc' \in {"idle"} \cup Allocating \cup Writing \cup Stopped
    BY <1>2 DEF Allocating
  <2> QED
    BY <1>2, <1>11, <2>1, <2>2 DEF TypeOK
<1>13. Owned'
  BY <1>2, <1>3, <1>11 DEF Owned, OwnedBy
<1>14. Holds'
  <2>1. OpEntry' = ent[b][i]
    BY <1>10, <1>11 DEF OpEntry
  <2>2. LastSeq(OpEntry)' = s
    BY <1>11, <2>1 DEF LastSeq, s
  <2>3. OpTop' = To(b, i)
    BY <1>7, <2>1 DEF OpTop
  <2>4. Live(OpEntry)'
    BY <1>6, <2>1 DEF Live
  <2>5. SeqFull(op.seq)' => IF kind'[OpTop'] = "indir" THEN Len(refs'[OpTop']) < IndirEntries
                            ELSE IndirEntries > 1
    BY <1>9, <1>10, <1>11, <2>3 DEF SeqFull
  <2>6. op'.dir # None /\ op'.seq # None
    BY <1>6, <1>7, <1>10, Given
  <2>7. Appends'
    BY <1>2, <1>6, <1>10, <2>1, <2>2, <2>4, <2>5, <2>6 DEF Appends
  <2>8. MakesEntry'
    BY <1>2 DEF MakesEntry
  <2> QED
    BY <1>2, <1>6, <1>7, <1>10, <1>11, <2>7, <2>8 DEF Holds
<1> QED
  BY <1>2, <1>10, <1>12, <1>13, <1>14, QuietBegin

-----------------------------------------------------------------------------
(***************************************************************************)
(* Steps that write an entry of a directory, and no more.                  *)
(***************************************************************************)
\* TypeOK in two parts: the flash, and the call
TreeTyped ==
    /\ kind \in [Blocks -> {"erased", "dir", "seq", "indir", "data"}]
    /\ ent \in [Blocks -> [Idx -> Entry]]
    /\ \A b \in Blocks, i \in Idx :
          LET e == ent[b][i] IN
          \/ e.path \in {Blank, Zeroed} /\ e.next = <<>>
          \/ e.path \in Paths /\ Len(e.next) \in 1 .. 2
    /\ link \in [Blocks -> Blocks \cup {None}]
    /\ refs \in [Blocks -> Seq(Blocks \cup {None})]
    /\ \A b \in Blocks : Len(refs[b]) <= MaxRefs
    /\ free \in Seq(Blocks)
    /\ root \in Blocks
CallTyped ==
    /\ pc \in {"idle"} \cup Allocating \cup Writing \cup Stopped
    /\ op \in [call : {"none", "register", "mkdir", "append"}, path : Paths \cup {Root},
               dir : Blocks \cup {None}, slot : Idx,
               block : Blocks \cup {None}, seq : Blocks \cup {None},
               victim : Blocks \cup {None}]
    /\ walk \in Seq([dir : Blocks, at : 0 .. DirEntries, clean : BOOLEAN])
    /\ crashes \in 0 .. MaxCrashes

LEMMA TypedIs == /\ TypeOK => TreeTyped /\ CallTyped
                 /\ TreeTyped' /\ CallTyped' => TypeOK'
<1>1. TypeOK => TreeTyped /\ CallTyped
  BY DEF TypeOK, TreeTyped, CallTyped
<1>2. TreeTyped' /\ CallTyped' => TypeOK'
  BY DEF TypeOK, TreeTyped, CallTyped
<1> QED
  BY <1>1, <1>2

\* An entry that is in use as the code writes it
Sound(e) ==
    /\ e \in Entry
    /\ \/ e.path \in {Blank, Zeroed} /\ e.next = <<>>
       \/ e.path \in Paths /\ Len(e.next) \in 1 .. 2
    /\ e.used /\ (e.committed => e.path # Blank) /\ (e.path = Zeroed => e.reclaimable)
Target(e) == IF e.next = <<>> THEN None ELSE Last(e.next)

Writes(d, s, e) == ent' = [ent EXCEPT ![d][s] = e]

LEMMA EntryWritten ==
    ASSUME TypeOK, NEW d \in Blocks, NEW s \in Idx, NEW e, Sound(e), Writes(d, s, e)
    PROVE  /\ ent' \in [Blocks -> [Idx -> Entry]]
           /\ \A b \in Blocks, i \in Idx : ent'[b][i] = IF b = d /\ i = s THEN e ELSE ent[b][i]
           /\ \A b \in Blocks : b # d => ent'[b] = ent[b]
           /\ \A b \in Blocks, i \in Idx :
                 To(b, i)' = IF b = d /\ i = s THEN Target(e) ELSE To(b, i)
           /\ \A b \in Blocks, i \in Idx :
                 \/ ent'[b][i].path \in {Blank, Zeroed} /\ ent'[b][i].next = <<>>
                 \/ ent'[b][i].path \in Paths /\ Len(ent'[b][i].next) \in 1 .. 2
<1>1. ent \in [Blocks -> [Idx -> Entry]] /\ e \in Entry
  BY DEF TypeOK, Sound
<1>0. ent' = [ent EXCEPT ![d][s] = e]
  BY DEF Writes
<1>2. ent' \in [Blocks -> [Idx -> Entry]]
  BY <1>0, <1>1
<1>3. \A b \in Blocks, i \in Idx : ent'[b][i] = IF b = d /\ i = s THEN e ELSE ent[b][i]
  BY <1>0, <1>1
<1>4. \A b \in Blocks : b # d => ent'[b] = ent[b]
  BY <1>0, <1>1
<1>5. \A b \in Blocks, i \in Idx :
         To(b, i)' = IF b = d /\ i = s THEN Target(e) ELSE To(b, i)
  BY <1>3 DEF To, Target
<1>6. \A b \in Blocks, i \in Idx :
         \/ ent'[b][i].path \in {Blank, Zeroed} /\ ent'[b][i].next = <<>>
         \/ ent'[b][i].path \in Paths /\ Len(ent'[b][i].next) \in 1 .. 2
  <2>1. \A b \in Blocks, i \in Idx :
           \/ ent[b][i].path \in {Blank, Zeroed} /\ ent[b][i].next = <<>>
           \/ ent[b][i].path \in Paths /\ Len(ent[b][i].next) \in 1 .. 2
    BY DEF TypeOK
  <2>2. \/ e.path \in {Blank, Zeroed} /\ e.next = <<>>
        \/ e.path \in Paths /\ Len(e.next) \in 1 .. 2
    BY DEF Sound
  <2>3. ASSUME NEW b \in Blocks, NEW i \in Idx, ent'[b][i] = e \/ ent'[b][i] = ent[b][i]
        PROVE  \/ ent'[b][i].path \in {Blank, Zeroed} /\ ent'[b][i].next = <<>>
               \/ ent'[b][i].path \in Paths /\ Len(ent'[b][i].next) \in 1 .. 2
    <3>1. CASE ent'[b][i] = e
      BY <2>2, <3>1, Zenon
    <3>2. CASE ent'[b][i] = ent[b][i]
      BY <2>1, <3>2, Zenon
    <3> QED
      BY <2>3, <3>1, <3>2
  <2>4. \A b \in Blocks, i \in Idx : ent'[b][i] = e \/ ent'[b][i] = ent[b][i]
    BY <1>3, Zenon
  <2> QED
    BY <2>3, <2>4, Zenon
<1> QED
  BY <1>2, <1>3, <1>4, <1>5, <1>6

LEMMA EntryChanged ==
    ASSUME TypeOK, Contents, FreeErased, Linked,
           NEW d \in Blocks, NEW s \in Idx, NEW e, Sound(e), Writes(d, s, e),
           kind[d] = "dir", UNCHANGED <<kind, link, refs, free, root>>
    PROVE  /\ TreeTyped' /\ Contents' /\ FreeErased' /\ Linked'
           /\ \A b \in Blocks, j \in Nat : At(b, j)' = At(b, j)
<1>1. /\ ent' \in [Blocks -> [Idx -> Entry]]
      /\ \A b \in Blocks, i \in Idx : ent'[b][i] = IF b = d /\ i = s THEN e ELSE ent[b][i]
      /\ \A b \in Blocks : b # d => ent'[b] = ent[b]
      /\ \A b \in Blocks, i \in Idx :
            \/ ent'[b][i].path \in {Blank, Zeroed} /\ ent'[b][i].next = <<>>
            \/ ent'[b][i].path \in Paths /\ Len(ent'[b][i].next) \in 1 .. 2
  BY EntryWritten
<1>2. TreeTyped'
  BY <1>1 DEF TypeOK, TreeTyped
<1>3. Contents'
  <2>1. \A b \in Blocks : /\ kind[b] # "dir" => ent'[b] = ErasedDir /\ link[b] = None
                          /\ kind[b] \notin {"seq", "indir"} => refs[b] = <<>>
                          /\ kind[b] = "seq" => Len(refs[b]) <= SeqEntries
                          /\ kind[b] = "indir" => Len(refs[b]) <= IndirEntries
    BY <1>1 DEF Contents
  <2>2. \A b \in Blocks, i \in Idx :
           /\ ~ent'[b][i].used => ent'[b][i] = BlankEntry
           /\ ent'[b][i].committed => ent'[b][i].path # Blank
           /\ ent'[b][i].path = Zeroed => ent'[b][i].reclaimable
    BY <1>1 DEF Contents, Sound
  <2> QED
    BY <2>1, <2>2 DEF Contents
<1>4. FreeErased'
  BY DEF FreeErased
<1>5. Linked' /\ \A b \in Blocks, j \in Nat : At(b, j)' = At(b, j)
  BY DEF Linked, At
<1> QED
  BY <1>2, <1>3, <1>4, <1>5

\* Flags of an entry: what it refers to stays.
LEMMA FlagsWritten ==
    ASSUME TypeOK, TreeInv, pc # "dangling",
           NEW d \in Blocks, NEW s \in Idx, NEW e, Sound(e), Writes(d, s, e),
           kind[d] = "dir", UNCHANGED <<kind, link, refs, free, root>>,
           e.path = ent[d][s].path, e.next = ent[d][s].next,
           ent[d][s].reclaimable => e.reclaimable
    PROVE  /\ NoCycle' /\ One' /\ Whole' /\ (Strict => Strict')
           /\ \A x \in Blocks : Alone(x) => Alone(x)'
           /\ \A b \in Blocks, i \in Idx : /\ ent'[b][i].path = ent[b][i].path
                                           /\ ent'[b][i].next = ent[b][i].next
<1>1. /\ Contents /\ FreeErased /\ Linked /\ NoCycle /\ One /\ Whole
  BY Before
<1>2. \A b \in Blocks, j \in Nat : At(b, j)' = At(b, j)
  BY <1>1, EntryChanged
<1>3. \A b \in Blocks, i \in Idx :
         /\ ent'[b][i].path = ent[b][i].path /\ ent'[b][i].next = ent[b][i].next
         /\ ent[b][i].reclaimable => ent'[b][i].reclaimable
  BY EntryWritten
<1>4. \A b \in Blocks, i \in Idx : To(b, i)' = To(b, i)
  BY <1>3 DEF To
<1>5. NoCycle'
  <2>1. \A b \in Blocks : Kids(b)' \subseteq Kids(b)
    BY <1>4 DEF Kids
  <2> QED
    BY <1>1, <2>1, CyclesFewer
<1>6. One' /\ \A x \in Blocks : Alone(x) => Alone(x)'
  BY <1>1, <1>2, <1>4, OneFewer
<1>7. Whole'
  <2> SUFFICES ASSUME NEW b \in Blocks, NEW i \in Idx,
                      ent'[b][i].next # <<>>, ~ent'[b][i].reclaimable,
                      kind[Last(ent'[b][i].next)] = "indir"
               PROVE  LET top == Last(ent'[b][i].next) IN
                      refs[top] # <<>> /\ \A j \in DOMAIN refs[top] : refs[top][j] # None
    BY DEF Whole
  <2>1. ent[b][i].next = ent'[b][i].next /\ ~ent[b][i].reclaimable
    BY <1>3
  <2> QED
    BY <1>1, <2>1 DEF Whole
<1>8. Strict => Strict'
  BY <1>3, <1>4 DEF Strict, KindOf
<1> QED
  BY <1>3, <1>5, <1>6, <1>7, <1>8

LEMMA RemoveKeeps ==
    ASSUME TypeOK, TreeInv, NEW p \in Paths, RemovePath(p) PROVE TypeOK' /\ TreeInv'
<1>1. PICK place \in Find(p) : ent' = [ent EXCEPT ![place[1]][place[2]].reclaimable = TRUE]
  BY DEF RemovePath
<1>2. pc = "idle" /\ UNCHANGED <<kind, link, refs, free, root, pc, op, walk, crashes>>
  BY DEF RemovePath
<1>3. /\ Shape /\ Contents /\ FreeErased /\ NoCycle /\ Owned /\ Collecting /\ Linked /\ Holds /\ Walks
      /\ (~Emptied => Strict)
  BY <1>2, Before
<1>4. Strict /\ walk = <<>>
  BY <1>2, <1>3 DEF Collecting, Allocating, Emptied, TopFreed, AtVictim, AtEntry
<1> DEFINE d == place[1]
           s == place[2]
           e == [ent[d][s] EXCEPT !.reclaimable = TRUE]
<1>5. /\ d \in Blocks /\ s \in Idx /\ kind[d] = "dir"
      /\ Live(ent[d][s]) /\ ent[d][s].path = p
  BY <1>3, PlaceFound
<1>6. Writes(d, s, e)
  BY <1>1 DEF Writes
<1> HIDE DEF d, s
<1>7. Sound(e) /\ e.path = ent[d][s].path /\ e.next = ent[d][s].next /\ e.reclaimable
  <2>1. ent[d][s] \in Entry
    BY <1>3, <1>5 DEF Shape
  <2>2. \/ ent[d][s].path \in {Blank, Zeroed} /\ ent[d][s].next = <<>>
        \/ ent[d][s].path \in Paths /\ Len(ent[d][s].next) \in 1 .. 2
    BY <1>5 DEF TypeOK
  <2>3. ent[d][s].committed => ent[d][s].path # Blank
    BY <1>3, <1>5 DEF Contents
  <2> QED
    BY <1>5, <2>1, <2>2, <2>3 DEF Sound, Entry, Live
<1> HIDE DEF e
<1>8. TreeTyped' /\ Contents' /\ FreeErased' /\ Linked'
  BY <1>2, <1>3, <1>5, <1>6, <1>7, EntryChanged
<1>9. /\ NoCycle' /\ One' /\ Whole' /\ Strict'
      /\ \A b \in Blocks, i \in Idx : /\ ent'[b][i].path = ent[b][i].path
                                      /\ ent'[b][i].next = ent[b][i].next
  BY <1>2, <1>4, <1>5, <1>6, <1>7, FlagsWritten
<1>10. TypeOK'
  <2>1. CallTyped'
    BY <1>2 DEF TypeOK, CallTyped
  <2> QED
    BY <1>8, <2>1, TypedIs
<1>11. Owned'
  BY <1>2, <1>3, <1>9 DEF Owned, OwnedBy
<1>12. Holds' /\ Collecting' /\ Walks'
  <2>1. op = NoOp
    BY <1>2, <1>3 DEF Holds
  <2>2. Holds'
    BY <1>2, <2>1 DEF Holds, NoOp, MakesEntry, Appends
  <2>3. Collecting'
    BY <1>2, <1>3 DEF Collecting
  <2>4. op.victim = None /\ DOMAIN walk' = {}
    BY <1>2, <1>4, <2>1 DEF NoOp
  <2>5. Walks'
    BY <1>2, <1>4, <2>4 DEF Walks
  <2> QED
    BY <2>2, <2>3, <2>5
<1> QED
  BY <1>8, <1>9, <1>10, <1>11, <1>12, AllTyped, After

LEMMA NotCollecting ==
    ASSUME TypeOK, TreeInv, pc # "dangling", walk = <<>>
    PROVE  Strict /\ op.victim = None
<1>1. Collecting /\ (~Emptied => Strict)
  BY Before
<1> QED
  BY <1>1 DEF Collecting, Emptied, TopFreed, AtVictim, AtEntry

LEMMA NotCollectingAfter ==
    ASSUME walk' = <<>>, op'.victim = None PROVE Collecting' /\ Walks'
<1>1. DOMAIN walk' = {}
  OBVIOUS
<1>2. Collecting'
  BY DEF Collecting
<1>3. Walks'
  BY <1>1 DEF Walks
<1> QED
  BY <1>2, <1>3

LEMMA WritingIs ==
    ASSUME TypeOK, TreeInv, pc \in {"use", "write", "commit"}
    PROVE  /\ pc # "dangling" /\ walk = <<>> /\ op.victim = None /\ Strict
           /\ op.dir \in Blocks /\ op.slot \in Idx /\ kind[op.dir] = "dir" /\ MakesEntry
           /\ op.path \in Paths /\ op.block \in Optional
<1>1. pc # "dangling" /\ pc \notin Allocating
  BY DEF Allocating
<1>2. Collecting /\ Holds
  BY <1>1, Before
<1>3. walk = <<>>
  BY <1>1, <1>2 DEF Collecting
<1>4. MakesEntry /\ op.dir # None /\ kind[op.dir] = "dir"
  BY <1>2 DEF Holds, MakesEntry
<1>5. op.dir \in Optional /\ op.slot \in Idx /\ op.block \in Optional
  BY DEF TypeOK, Optional
<1>6. op.path \in Paths
  BY <1>4, Given DEF MakesEntry
<1> QED
  BY <1>1, <1>3, <1>4, <1>5, <1>6, NotCollecting DEF Optional

LEMMA UseKeeps ==
    ASSUME TypeOK, TreeInv, UseEntry PROVE TypeOK' /\ TreeInv'
<1> DEFINE d == op.dir
           s == op.slot
           e == [ent[d][s] EXCEPT !.used = TRUE]
<1>1. /\ pc = "use" /\ pc' = "write" /\ Writes(d, s, e)
      /\ UNCHANGED <<kind, link, refs, free, root, op, walk, crashes>>
  BY DEF UseEntry, Writes
<1>2. /\ pc # "dangling" /\ walk = <<>> /\ op.victim = None /\ Strict
      /\ op.dir \in Blocks /\ op.slot \in Idx /\ kind[op.dir] = "dir" /\ MakesEntry
  BY <1>1, WritingIs
<1>3. /\ Contents /\ FreeErased /\ Linked /\ Owned /\ Holds /\ One
      /\ \A x \in Blocks : NoParent(x) <=> Alone(x)
  BY <1>2, Before
<1>4. ent[d][s] = BlankEntry
  BY <1>1, <1>2 DEF MakesEntry, OpEntry
<1>5. /\ Sound(e) /\ e = [BlankEntry EXCEPT !.used = TRUE]
      /\ e.path = ent[d][s].path /\ e.next = ent[d][s].next /\ ~ent[d][s].reclaimable
  <2>1. BlankEntry \in Entry
    BY DEF BlankEntry, Entry
  <2>2. e = [BlankEntry EXCEPT !.used = TRUE]
    BY <1>4
  <2>3. /\ e.used /\ ~e.committed /\ e.path = Blank /\ e.next = <<>>
        /\ ent[d][s].path = Blank /\ ent[d][s].next = <<>> /\ ~ent[d][s].reclaimable
    BY <1>4 DEF BlankEntry
  <2>4. e \in Entry
    BY <2>1, <2>2 DEF Entry
  <2> HIDE DEF e
  <2> QED
    BY <2>2, <2>3, <2>4, Given DEF Sound
<1> HIDE DEF d, s, e
<1>6. d \in Blocks /\ s \in Idx /\ kind[d] = "dir"
  BY <1>2 DEF d, s
<1>7. TreeTyped' /\ Contents' /\ FreeErased' /\ Linked'
  BY <1>1, <1>3, <1>5, <1>6, EntryChanged
<1>8. /\ NoCycle' /\ One' /\ Whole' /\ Strict'
      /\ \A x \in Blocks : Alone(x) => Alone(x)'
      /\ \A b \in Blocks, i \in Idx : /\ ent'[b][i].path = ent[b][i].path
                                      /\ ent'[b][i].next = ent[b][i].next
  BY <1>1, <1>2, <1>5, <1>6, FlagsWritten
<1>9. TypeOK'
  <2>1. CallTyped'
    BY <1>1 DEF TypeOK, CallTyped, Writing
  <2> QED
    BY <1>7, <2>1, TypedIs
<1>10. Owned'
  BY <1>1, <1>3, <1>8 DEF Owned, OwnedBy
<1>11. Holds'
  <2>1. OpEntry' = e
    BY <1>1, <1>5, <1>6, EntryWritten DEF OpEntry, d, s
  <2>2. /\ op.block # None /\ op.block # op.dir /\ NoParent(op.block) /\ op.block \in Blocks
        /\ kind[op.block] = IF op.call = "mkdir" THEN "dir" ELSE "seq"
        /\ ent[op.block] = ErasedDir /\ link[op.block] = None /\ refs[op.block] = <<>>
    BY <1>1, <1>2 DEF MakesEntry, TypeOK
  <2>3. ent'[op.block] = ErasedDir
    BY <1>1, <1>5, <1>6, <2>2, EntryWritten DEF d
  <2>4. NoParent(op.block)'
    <3>1. PICK x \in Blocks : x = op.block
      BY <2>2
    <3>2. NoParent(x)'
      BY <1>3, <1>8, <1>9, <2>2, <3>1, AloneAfter
    <3>3. x = op'.block
      BY <1>1, <3>1
    <3> QED
      BY <3>2, <3>3 DEF NoParent
  <2>5. MakesEntry'
    BY <1>1, <1>2, <1>5, <2>1, <2>2, <2>3, <2>4 DEF MakesEntry
  <2>6. Appends'
    BY <1>1 DEF Appends
  <2> QED
    BY <1>1, <1>3, <2>5, <2>6 DEF Holds
<1>12. Collecting' /\ Walks'
  BY <1>1, <1>2, NotCollectingAfter
<1> QED
  BY <1>7, <1>8, <1>9, <1>10, <1>11, <1>12, AllTyped, After

LEMMA CommitKeeps ==
    ASSUME TypeOK, TreeInv, CommitEntry PROVE TypeOK' /\ TreeInv'
<1> DEFINE d == op.dir
           s == op.slot
           e == [ent[d][s] EXCEPT !.committed = TRUE]
<1>1. /\ pc = "commit" /\ pc' = "idle" /\ op' = NoOp /\ Writes(d, s, e)
      /\ UNCHANGED <<kind, link, refs, free, root, walk, crashes>>
  BY DEF CommitEntry, Return, Writes
<1>2. /\ pc # "dangling" /\ walk = <<>> /\ op.victim = None /\ Strict /\ op.path \in Paths
      /\ op.dir \in Blocks /\ op.slot \in Idx /\ kind[op.dir] = "dir" /\ MakesEntry
  BY <1>1, WritingIs
<1>3. Shape /\ Contents /\ FreeErased /\ Linked /\ Owned /\ Holds /\ One
  BY <1>2, Before
<1>4. ent[d][s] = [BlankEntry EXCEPT !.used = TRUE, !.path = op.path, !.next = <<op.block>>]
  BY <1>1, <1>2 DEF MakesEntry, OpEntry
<1>5. Sound(e) /\ e.path = ent[d][s].path /\ e.next = ent[d][s].next /\ ~ent[d][s].reclaimable
  <2>1. ent[d][s] \in Entry
    BY <1>2, <1>3 DEF Shape
  <2>2. ent[d][s].used /\ ent[d][s].path = op.path /\ ~ent[d][s].reclaimable
    BY <1>4 DEF BlankEntry
  <2>3. \/ ent[d][s].path \in {Blank, Zeroed} /\ ent[d][s].next = <<>>
        \/ ent[d][s].path \in Paths /\ Len(ent[d][s].next) \in 1 .. 2
    BY <1>2 DEF TypeOK
  <2>4. ent[d][s].path # Blank /\ ent[d][s].path # Zeroed
    BY <1>2, <2>2, Given
  <2> HIDE DEF d, s
  <2> QED
    BY <2>1, <2>2, <2>3, <2>4 DEF Sound, Entry
<1> HIDE DEF d, s, e
<1>6. d \in Blocks /\ s \in Idx /\ kind[d] = "dir"
  BY <1>2 DEF d, s
<1>7. TreeTyped' /\ Contents' /\ FreeErased' /\ Linked'
  BY <1>1, <1>3, <1>5, <1>6, EntryChanged
<1>8. /\ NoCycle' /\ One' /\ Whole' /\ Strict'
      /\ \A b \in Blocks, i \in Idx : /\ ent'[b][i].path = ent[b][i].path
                                      /\ ent'[b][i].next = ent[b][i].next
  BY <1>1, <1>2, <1>5, <1>6, FlagsWritten
<1>9. TypeOK'
  <2>1. CallTyped'
    BY <1>1, Given DEF TypeOK, CallTyped, NoOp
  <2> QED
    BY <1>7, <2>1, TypedIs
<1>10. Owned'
  BY <1>1, <1>3, <1>8 DEF Owned, OwnedBy
<1>11. Holds' /\ op'.victim = None
  BY <1>1 DEF Holds, NoOp, MakesEntry, Appends
<1>12. Collecting' /\ Walks'
  BY <1>1, <1>2, <1>11, NotCollectingAfter
<1> QED
  BY <1>7, <1>8, <1>9, <1>10, <1>11, <1>12, AllTyped, After

\* Without links and entries a block refers to no directory block.
LEMMA NoKids ==
    ASSUME NEW x \in Blocks, link'[x] = None, \A i \in Idx : To(x, i)' = None
    PROVE  Kids(x)' = {}
BY Given DEF Kids

LEMMA WriteKeeps ==
    ASSUME TypeOK, TreeInv, WriteEntry PROVE TypeOK' /\ TreeInv'
<1>1. /\ pc = "write" /\ pc' = "commit"
      /\ UNCHANGED <<kind, link, refs, free, root, op, walk, crashes>>
  BY DEF WriteEntry
<1>2. /\ pc # "dangling" /\ walk = <<>> /\ op.victim = None /\ Strict /\ op.path \in Paths
      /\ op.dir \in Blocks /\ op.slot \in Idx /\ kind[op.dir] = "dir" /\ MakesEntry
      /\ op.block \in Optional
  BY <1>1, WritingIs
<1>a. PICK d \in Blocks, s \in Idx, x \in Optional : d = op.dir /\ s = op.slot /\ x = op.block
  BY <1>2
<1>b. PICK e : e = [ent[d][s] EXCEPT !.path = op.path, !.next = <<x>>]
  OBVIOUS
<1>3. /\ Shape /\ Contents /\ FreeErased /\ Linked /\ Owned /\ Holds /\ One /\ NoCycle /\ Whole
      /\ \A y \in Blocks : NoParent(y) <=> Alone(y)
  BY <1>2, Before
<1>4. /\ ent[d][s] = [BlankEntry EXCEPT !.used = TRUE]
      /\ x \in Blocks /\ x # d /\ NoParent(x)
      /\ kind[x] = IF op.call = "mkdir" THEN "dir" ELSE "seq"
      /\ ent[x] = ErasedDir /\ link[x] = None
      /\ op.call \in {"register", "mkdir"}
      /\ op.path \in IF op.call = "mkdir" THEN Dirs ELSE Files
  BY <1>1, <1>2, <1>a DEF MakesEntry, OpEntry, Optional
<1>5. Writes(d, s, e)
  <2>1. ent \in [Blocks -> [Idx -> Entry]] /\ ent[d][s] \in Entry
    BY <1>2, <1>3 DEF TypeOK, Shape
  <2> QED
    BY <1>2, <1>a, <1>b, <2>1 DEF WriteEntry, Entry, Writes
<1>6. /\ e = [BlankEntry EXCEPT !.used = TRUE, !.path = op.path, !.next = <<x>>]
      /\ e.path = op.path /\ e.next = <<x>> /\ e.used /\ ~e.committed /\ ~e.reclaimable
  BY <1>4, <1>b DEF BlankEntry
<1>7. /\ e \in Entry /\ Len(e.next) = 1 /\ e.next # <<>> /\ Last(e.next) = x
  <2>1. ent[d][s] \in Entry
    BY <1>2, <1>3 DEF Shape
  <2>2. <<x>> \in Seq(Blocks) /\ Len(<<x>>) = 1 /\ <<x>> # <<>> /\ Last(<<x>>) = x
    BY <1>4 DEF Last
  <2>3. e \in Entry
    BY <1>2, <1>b, <2>1, <2>2 DEF Entry
  <2> QED
    BY <1>6, <2>2, <2>3
<1>8. Sound(e) /\ Target(e) = x
  BY <1>2, <1>6, <1>7, Given DEF Sound, Target
<1>9. d \in Blocks /\ s \in Idx /\ kind[d] = "dir"
  BY <1>2, <1>a
<1>10. /\ TreeTyped' /\ Contents' /\ FreeErased' /\ Linked'
       /\ \A b \in Blocks, j \in Nat : At(b, j)' = At(b, j)
  BY <1>1, <1>3, <1>5, <1>8, <1>9, EntryChanged
<1>11. /\ \A b \in Blocks, i \in Idx : ent'[b][i] = IF b = d /\ i = s THEN e ELSE ent[b][i]
       /\ \A b \in Blocks : b # d => ent'[b] = ent[b]
       /\ \A b \in Blocks, i \in Idx : To(b, i)' = IF b = d /\ i = s THEN x ELSE To(b, i)
  <2>1. /\ \A b \in Blocks, i \in Idx : ent'[b][i] = IF b = d /\ i = s THEN e ELSE ent[b][i]
        /\ \A b \in Blocks : b # d => ent'[b] = ent[b]
        /\ \A b \in Blocks, i \in Idx :
              To(b, i)' = IF b = d /\ i = s THEN Target(e) ELSE To(b, i)
    <3>1. Sound(e)
      BY <1>8
    <3> QED
      BY <1>5, <1>9, <3>1, EntryWritten
  <2> QED
    BY <1>8, <2>1
<1>12. One' /\ \A y \in Blocks : Alone(y) /\ y # x => Alone(y)'
  <2>1. Alone(x) /\ root' = root /\ \A b \in Blocks : link'[b] = link[b]
    BY <1>1, <1>3, <1>4
  <2> QED
    BY <1>3, <1>4, <1>9, <1>10, <1>11, <2>1, OneMoreEntry
<1>13. NoCycle'
  <2>1. \A b \in Blocks : Kids(b)' \subseteq Kids(b) \cup {x}
    BY <1>1, <1>11 DEF Kids
  <2>2. \A i \in Idx : To(x, i)' = None
    BY <1>4, <1>11 DEF To, ErasedDir, BlankEntry
  <2>3. Kids(x)' = {}
    BY <1>1, <1>4, <2>2, NoKids
  <2> QED
    BY <1>3, <1>4, <2>1, <2>3, CyclesLeaf
<1>14. Strict'
  <2>1. kind[x] = KindOf(e)
    BY <1>4, <1>6, <1>7, Given DEF KindOf
  <2> QED
    BY <1>1, <1>2, <1>11, <2>1 DEF Strict, KindOf
<1>15. Whole'
  <2> SUFFICES ASSUME NEW b \in Blocks, NEW i \in Idx,
                      ent'[b][i].next # <<>>, ~ent'[b][i].reclaimable,
                      kind[Last(ent'[b][i].next)] = "indir"
               PROVE  LET top == Last(ent'[b][i].next) IN
                      refs[top] # <<>> /\ \A j \in DOMAIN refs[top] : refs[top][j] # None
    BY <1>1 DEF Whole
  <2>1. ~(b = d /\ i = s)
    BY <1>4, <1>7, <1>11
  <2>2. ent'[b][i] = ent[b][i]
    BY <1>11, <2>1
  <2> QED
    BY <1>3, <2>2 DEF Whole
<1>16. TypeOK'
  <2>1. CallTyped'
    BY <1>1 DEF TypeOK, CallTyped, Writing
  <2> QED
    BY <1>10, <2>1, TypedIs
<1>17. Owned'
  <2>1. PICK own \in [Blocks -> Dirs \cup {Root}] : OwnedBy(own)
    BY <1>3 DEF Owned
  <2>2. own[d] = Home[op.path] /\ (op.call = "mkdir" => own[x] = op.path)
    BY <1>1, <1>a, <2>1 DEF OwnedBy
  <2>3. \A b \in Blocks, i \in Idx :
           /\ ent'[b][i].path \in Paths => Home[ent'[b][i].path] = own[b]
           /\ ent'[b][i].path \in Dirs => own[Last(ent'[b][i].next)] = ent'[b][i].path
    <3> SUFFICES ASSUME NEW b \in Blocks, NEW i \in Idx
                 PROVE  /\ ent'[b][i].path \in Paths => Home[ent'[b][i].path] = own[b]
                        /\ ent'[b][i].path \in Dirs => own[Last(ent'[b][i].next)] = ent'[b][i].path
      OBVIOUS
    <3>1. op.path \in Dirs => op.call = "mkdir"
      BY <1>4, Given
    <3>2. CASE b = d /\ i = s
      <4>1. ent'[b][i] = e
        BY <1>11, <3>2
      <4> QED
        BY <1>6, <1>7, <2>2, <3>1, <3>2, <4>1
    <3>3. CASE ~(b = d /\ i = s)
      <4>1. ent'[b][i] = ent[b][i]
        BY <1>11, <3>3
      <4> QED
        BY <2>1, <4>1 DEF OwnedBy
    <3> QED
      BY <3>2, <3>3
  <2>4. OwnedBy(own)'
    BY <1>1, <2>1, <2>3 DEF OwnedBy
  <2> QED
    BY <2>4 DEF Owned
<1>18. Holds'
  <2>1. OpEntry' = e
    BY <1>1, <1>9, <1>11, <1>a DEF OpEntry
  <2>2. MakesEntry'
    BY <1>1, <1>2, <1>6, <1>a, <2>1 DEF MakesEntry
  <2>3. Appends'
    BY <1>1 DEF Appends
  <2> QED
    BY <1>1, <1>3, <2>2, <2>3 DEF Holds
<1>19. Collecting' /\ Walks'
  BY <1>1, <1>2, NotCollectingAfter
<1> QED
  BY <1>10, <1>12, <1>13, <1>14, <1>15, <1>16, <1>17, <1>18, <1>19, AllTyped, After

-----------------------------------------------------------------------------
(***************************************************************************)
(* Steps that allocate a block.                                            *)
(***************************************************************************)
\* The queue without its first block
LEMMA Dequeued ==
    ASSUME NEW S, NEW q \in Seq(S), q # <<>>, IsInjective(q), NEW b, b = Head(q), NEW t, t = Tail(q)
    PROVE  /\ t \in Seq(S) /\ IsInjective(t) /\ b \in S /\ b \in ToSet(q)
           /\ ToSet(t) \subseteq ToSet(q) \ {b}
<1>1. Len(q) \in Nat /\ Len(q) > 0 /\ DOMAIN q = 1 .. Len(q)
  BY SeqIs
<1>2. /\ Head(q) \in S /\ Tail(q) \in Seq(S) /\ Len(Tail(q)) = Len(q) - 1
      /\ \A i \in 1 .. Len(Tail(q)) : Tail(q)[i] = q[i + 1]
  BY HeadTailProperties
<1>3. t \in Seq(S) /\ Len(t) = Len(q) - 1 /\ \A i \in 1 .. Len(t) : t[i] = q[i + 1]
  BY <1>2
<1>4. DOMAIN t = 1 .. Len(t) /\ Len(t) \in Nat
  BY <1>3, SeqIs
<1>5. b = q[1] /\ b \in S
  BY <1>2
<1>6. \A i \in DOMAIN t : i \in Nat /\ i > 0 /\ i + 1 \in DOMAIN q /\ t[i] = q[i + 1] /\ i + 1 # 1
  BY <1>1, <1>3, <1>4
<1>7. \A i, j \in DOMAIN q : q[i] = q[j] => i = j
  BY DEF IsInjective
<1>8. 1 \in DOMAIN q
  BY <1>1
<1>9. IsInjective(t)
  <2> SUFFICES ASSUME NEW i \in DOMAIN t, NEW j \in DOMAIN t, t[i] = t[j] PROVE i = j
    BY DEF IsInjective
  <2>1. q[i + 1] = q[j + 1] /\ i + 1 \in DOMAIN q /\ j + 1 \in DOMAIN q
    BY <1>6
  <2>2. i + 1 = j + 1
    BY <1>7, <2>1
  <2> QED
    BY <1>6, <2>2
<1>10. b \in ToSet(q)
  BY <1>5, <1>8 DEF ToSet
<1>11. ToSet(t) \subseteq ToSet(q) \ {b}
  <2> SUFFICES ASSUME NEW i \in DOMAIN t PROVE t[i] \in ToSet(q) /\ t[i] # b
    BY DEF ToSet
  <2>1. t[i] = q[i + 1] /\ i + 1 \in DOMAIN q /\ i + 1 # 1
    BY <1>6
  <2> QED
    BY <1>5, <1>7, <1>8, <2>1 DEF ToSet
<1> QED
  BY <1>3, <1>5, <1>9, <1>10, <1>11

\* What an allocation says of the block it takes, and what it does to the others
LEMMA Allocated ==
    ASSUME TypeOK, TreeInv, pc # "dangling", NEW b \in Blocks,
           NEW type \in {"dir", "seq", "indir", "data"}, Allocate(b, type)
    PROVE  /\ walk = <<>> /\ op.victim = None /\ Strict /\ kind[b] = "erased"
           /\ kind' \in [Blocks -> {"erased", "dir", "seq", "indir", "data"}]
           /\ \A c \in Blocks : kind'[c] = IF c = b THEN type ELSE kind[c]
           /\ free' \in Seq(Blocks) /\ FreeErased'
           /\ Alone(b) /\ b # root /\ b # op.dir /\ b # op.block /\ b # op.seq
           /\ ent[b] = ErasedDir /\ link[b] = None /\ refs[b] = <<>>
           /\ \A i \in Idx : ent[b][i] = BlankEntry /\ To(b, i) = None
           /\ \A j \in Nat : At(b, j) = None
<1>1. /\ walk = <<>> /\ free # <<>> /\ b = Head(free) /\ free' = Tail(free)
      /\ kind' = [kind EXCEPT ![b] = type]
  BY DEF Allocate
<1>2. Strict /\ op.victim = None
  BY <1>1, NotCollecting
<1>3. Shape /\ Contents /\ FreeErased /\ Linked /\ Holds
  BY Before
<1>4. /\ free' \in Seq(Blocks) /\ IsInjective(free') /\ b \in ToSet(free)
      /\ ToSet(free') \subseteq ToSet(free) \ {b}
  <2>1. \A t : t = Tail(free) =>
           /\ t \in Seq(Blocks) /\ IsInjective(t) /\ b \in ToSet(free)
           /\ ToSet(t) \subseteq ToSet(free) \ {b}
    BY <1>1, <1>3, Dequeued DEF TypeOK, FreeErased
  <2>2. PICK t : t = Tail(free)
    OBVIOUS
  <2>3. /\ t \in Seq(Blocks) /\ IsInjective(t) /\ b \in ToSet(free)
        /\ ToSet(t) \subseteq ToSet(free) \ {b}
    BY <2>1, <2>2
  <2>4. free' = t
    BY <1>1, <2>2
  <2> QED
    BY <2>3, <2>4
<1>5. kind[b] = "erased"
  BY <1>3, <1>4 DEF FreeErased
<1>6. /\ kind' \in [Blocks -> {"erased", "dir", "seq", "indir", "data"}]
      /\ \A c \in Blocks : kind'[c] = IF c = b THEN type ELSE kind[c]
  BY <1>1 DEF TypeOK
<1>7. FreeErased'
  <2>1. ToSet(free) \subseteq Blocks
    <3>1. free \in Seq(Blocks)
      BY DEF TypeOK
    <3>2. \A i \in DOMAIN free : free[i] \in Blocks
      BY <3>1, SeqIs
    <3> QED
      BY <3>2 DEF ToSet
  <2>2. \A c \in ToSet(free') : kind'[c] = "erased"
    BY <1>3, <1>4, <1>6, <2>1 DEF FreeErased
  <2> QED
    BY <1>4, <2>2 DEF FreeErased
<1>8. Alone(b)
  <2>1. b # None
    BY Given
  <2>2. b # root /\ \A c \in Blocks : link[c] # b
    BY <1>3, <1>5, <2>1 DEF Linked
  <2>3. \A c \in Blocks, i \in Idx : To(c, i) # b
    <3> SUFFICES ASSUME NEW c \in Blocks, NEW i \in Idx, To(c, i) = b PROVE FALSE
      OBVIOUS
    <3>1. kind[b] = KindOf(ent[c][i])
      BY <1>2, <2>1 DEF Strict
    <3> QED
      BY <1>5, <3>1 DEF KindOf
  <2>4. \A c \in Blocks, j \in Nat : At(c, j) # b
    BY <1>3, <1>5, <2>1 DEF Linked
  <2> QED
    BY <2>2, <2>3, <2>4 DEF Alone
<1>9. b # root /\ b # op.dir /\ b # op.block /\ b # op.seq
  BY <1>3, <1>5, <1>8, Given DEF Holds, Alone
<1>10. ent[b] = ErasedDir /\ link[b] = None /\ refs[b] = <<>>
  BY <1>3, <1>5 DEF Contents
<1>11. /\ \A i \in Idx : ent[b][i] = BlankEntry /\ To(b, i) = None
       /\ \A j \in Nat : At(b, j) = None
  BY <1>3, <1>5, NoEntries, NoRefs
<1> QED
  BY <1>1, <1>2, <1>4, <1>5, <1>6, <1>7, <1>8, <1>9, <1>10, <1>11

\* The kinds of what was referred to are what they were.
LEMMA AllocatedKinds ==
    ASSUME TypeOK, TreeInv, pc # "dangling", NEW b \in Blocks,
           NEW type \in {"dir", "seq", "indir", "data"}, Allocate(b, type)
    PROVE  /\ kind'[root] = "dir"
           /\ \A c \in Blocks : link[c] # None => kind'[link[c]] = "dir"
           /\ \A c \in Blocks, j \in Nat : At(c, j) # None =>
                 kind'[At(c, j)] = IF kind'[c] = "seq" THEN "data" ELSE "seq"
           /\ \A c \in Blocks, i \in Idx : To(c, i) # None =>
                 /\ kind'[To(c, i)] = KindOf(ent[c][i]) /\ To(c, i) \in Blocks
                 /\ To(c, i) # b /\ kind'[To(c, i)] = kind[To(c, i)]
<1>1. Shape /\ Linked
  BY Before
<1>2. /\ Strict /\ Alone(b) /\ \A j \in Nat : At(b, j) = None
      /\ \A c \in Blocks : kind'[c] = IF c = b THEN type ELSE kind[c]
  BY Allocated
<1>3. \A c \in Blocks : link[c] # None => link[c] \in Blocks /\ link[c] # b
  BY <1>1, <1>2 DEF Shape, Optional, Alone
<1>4. \A c \in Blocks, j \in Nat : At(c, j) # None => At(c, j) \in Blocks /\ At(c, j) # b /\ c # b
  BY <1>1, <1>2 DEF Shape, Optional, Alone
<1>5. \A c \in Blocks, i \in Idx : To(c, i) # None => To(c, i) \in Blocks /\ To(c, i) # b
  BY <1>1, <1>2 DEF Shape, Optional, Alone
<1>6. kind'[root] = "dir"
  BY <1>1, <1>2 DEF TypeOK, Linked, Alone
<1>7. \A c \in Blocks : link[c] # None => kind'[link[c]] = "dir"
  BY <1>1, <1>2, <1>3 DEF Linked
<1>8. \A c \in Blocks, j \in Nat : At(c, j) # None =>
         kind'[At(c, j)] = IF kind'[c] = "seq" THEN "data" ELSE "seq"
  BY <1>1, <1>2, <1>4 DEF Linked
<1>9. \A c \in Blocks, i \in Idx : To(c, i) # None =>
         kind'[To(c, i)] = KindOf(ent[c][i]) /\ kind'[To(c, i)] = kind[To(c, i)]
  BY <1>2, <1>5 DEF Strict
<1> QED
  BY <1>5, <1>6, <1>7, <1>8, <1>9

\* The indirection blocks of files that are there refer to what they did.
LEMMA AllocatedWhole ==
    ASSUME TypeOK, TreeInv, pc # "dangling", NEW b \in Blocks,
           NEW type \in {"dir", "seq", "indir", "data"}, Allocate(b, type), UNCHANGED <<ent, refs>>
    PROVE  Whole'
<1>1. Shape /\ Whole
  BY Before
<1>2. \A c \in Blocks, i \in Idx : To(c, i) # None => kind'[To(c, i)] = kind[To(c, i)]
  BY AllocatedKinds
<1> SUFFICES ASSUME NEW c \in Blocks, NEW i \in Idx,
                    ent[c][i].next # <<>>, ~ent[c][i].reclaimable,
                    kind'[Last(ent[c][i].next)] = "indir"
             PROVE  LET top == Last(ent[c][i].next) IN
                    refs[top] # <<>> /\ \A j \in DOMAIN refs[top] : refs[top][j] # None
  BY DEF Whole
<1>3. To(c, i) # None /\ To(c, i) = Last(ent[c][i].next)
  BY <1>1 DEF Shape
<1>4. kind[Last(ent[c][i].next)] = "indir"
  BY <1>2, <1>3
<1> QED
  BY <1>1, <1>4 DEF Whole

LEMMA OnlyAllocated ==
    ASSUME TypeOK, TreeInv, pc # "dangling", NEW b \in Blocks,
           NEW type \in {"dir", "seq", "indir", "data"}, Allocate(b, type),
           UNCHANGED <<ent, link, refs, root>>
    PROVE  /\ TreeTyped' /\ Contents' /\ NoCycle' /\ Linked' /\ Strict' /\ One' /\ Whole'
           /\ \A x \in Blocks : Alone(x) => Alone(x)'
<1>1. Shape /\ Contents /\ NoCycle /\ One /\ Whole
  BY Before
<1>2. /\ kind' \in [Blocks -> {"erased", "dir", "seq", "indir", "data"}]
      /\ \A c \in Blocks : kind'[c] = IF c = b THEN type ELSE kind[c]
      /\ free' \in Seq(Blocks)
      /\ ent[b] = ErasedDir /\ link[b] = None /\ refs[b] = <<>>
  BY Allocated
<1>3. /\ kind'[root] = "dir"
      /\ \A c \in Blocks : link[c] # None => kind'[link[c]] = "dir"
      /\ \A c \in Blocks, j \in Nat : At(c, j) # None =>
            kind'[At(c, j)] = IF kind'[c] = "seq" THEN "data" ELSE "seq"
      /\ \A c \in Blocks, i \in Idx : To(c, i) # None =>
            /\ kind'[To(c, i)] = KindOf(ent[c][i]) /\ To(c, i) \in Blocks
            /\ To(c, i) # b /\ kind'[To(c, i)] = kind[To(c, i)]
  BY AllocatedKinds
<1>4. /\ \A c \in Blocks, i \in Idx : To(c, i)' = To(c, i)
      /\ \A c \in Blocks, j \in Nat : At(c, j)' = At(c, j)
  BY DEF To, At
<1>5. TreeTyped'
  BY <1>2 DEF TypeOK, TreeTyped
<1>6. Contents'
  <2>1. Len(refs[b]) = 0
    BY <1>2
  <2>2. \A c \in Blocks : /\ kind'[c] # "dir" => ent[c] = ErasedDir /\ link[c] = None
                          /\ kind'[c] \notin {"seq", "indir"} => refs[c] = <<>>
                          /\ kind'[c] = "seq" => Len(refs[c]) <= SeqEntries
                          /\ kind'[c] = "indir" => Len(refs[c]) <= IndirEntries
    BY <1>1, <1>2, <2>1, Given DEF Contents
  <2> QED
    BY <1>1, <2>2 DEF Contents
<1>7. NoCycle'
  <2>1. \A c \in Blocks : Kids(c)' \subseteq Kids(c)
    BY <1>4 DEF Kids
  <2> QED
    BY <1>1, <2>1, CyclesFewer
<1>8. Linked'
  BY <1>3, <1>4 DEF Linked
<1>9. Strict'
  BY <1>3, <1>4 DEF Strict, KindOf
<1>10. One' /\ \A x \in Blocks : Alone(x) => Alone(x)'
  BY <1>1, <1>4, OneFewer
<1>11. Whole'
  BY AllocatedWhole
<1> QED
  BY <1>5, <1>6, <1>7, <1>8, <1>9, <1>10, <1>11

\* The block b becomes one of directory x.
GivenTo(new, own, b, x) ==
    /\ new[b] = x /\ \A c \in Blocks : c # b => new[c] = own[c]
    /\ new[root] = Root
    /\ \A c \in Blocks : link[c] # None => c # b /\ new[link[c]] = new[c]
    /\ \A c \in Blocks, i \in Idx :
          /\ ent[c][i].path \in Paths => Home[ent[c][i].path] = new[c]
          /\ ent[c][i].path \in Dirs => new[Last(ent[c][i].next)] = ent[c][i].path

LEMMA NewOwner ==
    ASSUME TypeOK, NEW own \in [Blocks -> Dirs \cup {Root}], OwnedBy(own), NEW b \in Blocks,
           Alone(b), link[b] = None, \A i \in Idx : ent[b][i] = BlankEntry,
           NEW x \in Dirs \cup {Root}
    PROVE  \E new \in [Blocks -> Dirs \cup {Root}] : GivenTo(new, own, b, x)
<1>1. PICK new \in [Blocks -> Dirs \cup {Root}] :
          new[b] = x /\ \A c \in Blocks : c # b => new[c] = own[c]
  <2>1. [own EXCEPT ![b] = x] \in [Blocks -> Dirs \cup {Root}]
    OBVIOUS
  <2> QED
    BY <2>1
<1>2. Shape
  BY ShapeHolds
<1>3. \A c \in Blocks : link[c] # None => link[c] \in Blocks /\ link[c] # b /\ c # b
  BY <1>2 DEF Shape, Optional, Alone
<1>4. ASSUME NEW c \in Blocks, NEW i \in Idx
      PROVE  /\ ent[c][i].path \in Paths => Home[ent[c][i].path] = new[c]
             /\ ent[c][i].path \in Dirs => new[Last(ent[c][i].next)] = ent[c][i].path
  <2>1. CASE c = b
    <3>1. ent[c][i].path \notin Paths /\ ent[c][i].path \notin Dirs
      BY <2>1, Given DEF BlankEntry
    <3> QED
      BY <3>1
  <2>2. CASE c # b
    <3>1. ent[c][i].path \in Paths => Home[ent[c][i].path] = new[c]
      BY <1>1, <2>2 DEF OwnedBy
    <3>2. ASSUME ent[c][i].path \in Dirs PROVE new[Last(ent[c][i].next)] = ent[c][i].path
      <4>1. To(c, i) # None /\ To(c, i) = Last(ent[c][i].next) /\ To(c, i) \in Optional
        BY <1>2, <3>2, Given DEF Shape
      <4>2. To(c, i) \in Blocks /\ To(c, i) # b
        BY <4>1 DEF Optional, Alone
      <4> QED
        BY <1>1, <3>2, <4>1, <4>2 DEF OwnedBy
    <3> QED
      BY <3>1, <3>2
  <2> QED
    BY <2>1, <2>2
<1>5. new[root] = Root
  BY <1>1 DEF OwnedBy, TypeOK, Alone
<1>6. \A c \in Blocks : link[c] # None => c # b /\ new[link[c]] = new[c]
  BY <1>1, <1>3 DEF OwnedBy
<1> QED
  BY <1>1, <1>4, <1>5, <1>6 DEF GivenTo

LEMMA TakeBlockKeeps ==
    ASSUME TypeOK, TreeInv, TakeBlock PROVE TypeOK' /\ TreeInv'
<1>1. /\ pc = "block" /\ pc' = "use" /\ UNCHANGED <<ent, link, refs, root, walk, crashes>>
      /\ pc # "dangling"
  BY DEF TakeBlock
<1>2. PICK b \in Blocks : /\ Allocate(b, IF op.call = "mkdir" THEN "dir" ELSE "seq")
                          /\ op' = [op EXCEPT !.block = b]
  BY DEF TakeBlock
<1>3. PICK type \in {"dir", "seq", "indir", "data"} :
          type = (IF op.call = "mkdir" THEN "dir" ELSE "seq") /\ Allocate(b, type)
  BY <1>2
<1>4. Shape /\ Holds /\ MakesEntry /\ Owned
  BY <1>1, Before DEF Holds
<1>5. /\ walk = <<>> /\ op.victim = None
      /\ \A c \in Blocks : kind'[c] = IF c = b THEN type ELSE kind[c]
      /\ FreeErased' /\ Alone(b) /\ b # root /\ b # op.dir
      /\ ent[b] = ErasedDir /\ link[b] = None /\ refs[b] = <<>>
      /\ \A i \in Idx : ent[b][i] = BlankEntry
  BY <1>1, <1>3, Allocated
<1>6. /\ TreeTyped' /\ Contents' /\ NoCycle' /\ Linked' /\ Strict' /\ One' /\ Whole'
      /\ \A x \in Blocks : Alone(x) => Alone(x)'
  BY <1>1, <1>3, OnlyAllocated
<1>7. /\ op'.call = op.call /\ op'.path = op.path /\ op'.dir = op.dir /\ op'.slot = op.slot
      /\ op'.block = b /\ op'.seq = op.seq /\ op'.victim = op.victim
  BY <1>2 DEF TypeOK
<1>8. TypeOK'
  <2>1. CallTyped'
    BY <1>1, <1>2 DEF TypeOK, CallTyped, Writing
  <2> QED
    BY <1>6, <2>1, TypedIs
<1>9. op.dir \in Blocks /\ op.slot \in Idx
  BY <1>1, <1>4 DEF MakesEntry, TypeOK
<1>10. Owned'
  <2>1. PICK own \in [Blocks -> Dirs \cup {Root}] : OwnedBy(own)
    BY <1>4 DEF Owned
  <2>2. PICK x \in Dirs \cup {Root} : op.call = "mkdir" => x = op.path
    BY <1>1, <1>4 DEF MakesEntry
  <2>3. PICK new \in [Blocks -> Dirs \cup {Root}] : GivenTo(new, own, b, x)
    <3>1. Alone(b) /\ link[b] = None /\ \A i \in Idx : ent[b][i] = BlankEntry
      BY <1>5
    <3> QED
      BY <2>1, <3>1, NewOwner
  <2>4. new[op.dir] = Home[op.path]
    BY <1>1, <1>5, <1>9, <2>1, <2>3 DEF OwnedBy, GivenTo
  <2>5. OwnedBy(new)'
    BY <1>1, <1>7, <2>2, <2>3, <2>4 DEF OwnedBy, GivenTo
  <2> QED
    BY <2>3, <2>5 DEF Owned
<1>11. Holds'
  <2>1. NoParent(b)'
    BY <1>5, <1>6, <1>8, AloneAfter
  <2>2. OpEntry' = BlankEntry
    BY <1>1, <1>4, <1>7 DEF MakesEntry, OpEntry
  <2>3. NoParent(op.block)'
    BY <1>7, <2>1 DEF NoParent
  <2>4. b # None
    BY Given
  <2>5. kind'[op.dir] = "dir" /\ kind'[b] = type /\ type = (IF op.call = "mkdir" THEN "dir" ELSE "seq")
    BY <1>3, <1>4, <1>5, <1>9, Given DEF Holds
  <2>6. MakesEntry'
    BY <1>1, <1>4, <1>5, <1>7, <2>2, <2>3, <2>4, <2>5 DEF MakesEntry
  <2>7. Appends'
    BY <1>1 DEF Appends
  <2>8. op'.seq = None
    BY <1>1, <1>4, <1>7 DEF MakesEntry
  <2> QED
    BY <1>1, <1>7, <2>5, <2>6, <2>7, <2>8 DEF Holds
<1>12. Collecting' /\ Walks'
  BY <1>1, <1>5, <1>7, NotCollectingAfter
<1> QED
  BY <1>5, <1>6, <1>8, <1>10, <1>11, <1>12, AllTyped, After

\* What an append has found when it goes on
LEMMA AppendIs ==
    ASSUME TypeOK, TreeInv, pc \in {"data", "indir", "seq", "entry"}, walk # <<>> => Strict
    PROVE  /\ pc # "dangling" /\ Strict /\ Appends
           /\ op.dir \in Blocks /\ op.slot \in Idx /\ op.seq \in Blocks
           /\ kind[op.dir] = "dir" /\ kind[op.seq] = "seq" /\ op.path \in Files
           /\ OpEntry = ent[op.dir][op.slot] /\ OpEntry \in Entry /\ Live(OpEntry)
           /\ OpEntry.path = op.path /\ LastSeq(OpEntry) = op.seq
           /\ OpTop = To(op.dir, op.slot) /\ OpTop \in Blocks
           /\ kind[OpTop] = IF Len(OpEntry.next) = 1 THEN "seq" ELSE "indir"
           /\ kind[OpTop] = "seq" => op.seq = OpTop
           /\ kind[OpTop] = "indir" =>
                 op.seq = At(OpTop, Len(refs[OpTop])) /\ refs[OpTop] # <<>>
<1>1. pc # "dangling"
  OBVIOUS
<1>2. Shape /\ Contents /\ Linked /\ Whole /\ Holds /\ Appends
  BY <1>1, Before DEF Holds
<1>3. Strict
  BY <1>1, NotCollecting
<1>4. /\ op.dir # None /\ op.seq # None /\ op.path \in Files
      /\ Live(OpEntry) /\ OpEntry.path = op.path /\ LastSeq(OpEntry) = op.seq
      /\ kind[op.dir] = "dir" /\ kind[op.seq] = "seq"
  BY <1>2 DEF Appends, Holds
<1>5. op.dir \in Blocks /\ op.slot \in Idx /\ op.seq \in Blocks
  BY <1>4 DEF TypeOK
<1>6. PICK d \in Blocks, s \in Idx : d = op.dir /\ s = op.slot
  BY <1>5
<1>7. OpEntry = ent[d][s] /\ OpEntry \in Entry
  BY <1>2, <1>6 DEF OpEntry, Shape
<1>8. Live(ent[d][s]) /\ ent[d][s].path \in Files
  BY <1>4, <1>7
<1>9. /\ To(d, s) \in Blocks /\ To(d, s) = Last(ent[d][s].next)
      /\ kind[To(d, s)] = IF Len(ent[d][s].next) = 1 THEN "seq" ELSE "indir"
      /\ kind[To(d, s)] = "seq" => LastSeq(ent[d][s]) = To(d, s)
      /\ kind[To(d, s)] = "indir" =>
            /\ LastSeq(ent[d][s]) = At(To(d, s), Len(refs[To(d, s)]))
            /\ refs[To(d, s)] # <<>>
  BY <1>2, <1>3, <1>8, FileBlocks
<1>10. OpTop = To(d, s)
  BY <1>7, <1>9 DEF OpTop
<1> QED
  BY <1>1, <1>2, <1>3, <1>4, <1>5, <1>6, <1>7, <1>9, <1>10

LEMMA TakeDataKeeps ==
    ASSUME TypeOK, TreeInv, TakeData PROVE TypeOK' /\ TreeInv'
<1>1. /\ pc = "data" /\ pc' = PcForEntry /\ UNCHANGED <<ent, link, refs, root, walk, crashes>>
      /\ pc # "dangling"
  BY DEF TakeData
<1>2. PICK b \in Blocks : Allocate(b, "data") /\ op' = [op EXCEPT !.block = b]
  BY DEF TakeData
<1>3. /\ walk = <<>> /\ op.victim = None /\ Strict
      /\ \A c \in Blocks : kind'[c] = IF c = b THEN "data" ELSE kind[c]
      /\ FreeErased' /\ Alone(b) /\ b # op.dir /\ b # op.seq
  BY <1>1, <1>2, Allocated
<1>4. /\ TreeTyped' /\ Contents' /\ NoCycle' /\ Linked' /\ Strict' /\ One' /\ Whole'
      /\ \A x \in Blocks : Alone(x) => Alone(x)'
  BY <1>1, <1>2, OnlyAllocated
<1>5. /\ op.dir \in Blocks /\ op.slot \in Idx /\ op.seq \in Blocks /\ Appends
      /\ kind[op.dir] = "dir" /\ kind[op.seq] = "seq" /\ op.path \in Files
      /\ OpEntry = ent[op.dir][op.slot] /\ Live(OpEntry)
      /\ OpEntry.path = op.path /\ LastSeq(OpEntry) = op.seq
      /\ OpTop = To(op.dir, op.slot) /\ OpTop \in Blocks /\ OpTop = Last(OpEntry.next)
      /\ kind[OpTop] = IF Len(OpEntry.next) = 1 THEN "seq" ELSE "indir"
  BY <1>1, <1>3, AppendIs DEF OpTop
<1>6. /\ op'.call = op.call /\ op'.path = op.path /\ op'.dir = op.dir /\ op'.slot = op.slot
      /\ op'.block = b /\ op'.seq = op.seq /\ op'.victim = op.victim
  BY <1>2 DEF TypeOK
<1>7. pc' = IF ~SeqFull(op.seq) THEN "entry" ELSE IF kind[OpTop] = "indir" THEN "seq" ELSE "indir"
  BY <1>1, <1>5, <1>6 DEF PcForEntry, EntryOf, SeqFull
<1>8. TypeOK'
  <2>1. pc' \in Allocating \cup Writing
    BY <1>7 DEF Allocating, Writing
  <2>2. CallTyped'
    BY <1>1, <1>2, <2>1 DEF TypeOK, CallTyped
  <2> QED
    BY <1>4, <2>2, TypedIs
<1>9. Owned'
  <2>1. Owned
    BY <1>1, Before
  <2> QED
    BY <1>1, <1>6, <1>7, <2>1 DEF Owned, OwnedBy
<1>10. Holds'
  <2>1. OpEntry' = OpEntry /\ OpTop' = OpTop
    BY <1>1, <1>6 DEF OpEntry, OpTop
  <2>2. kind'[OpTop] = kind[OpTop]
    BY <1>3, <1>5 DEF Alone
  <2>3. LastSeq(OpEntry)' = op.seq
    BY <1>1, <1>5, <2>1, <2>2 DEF LastSeq
  <2>4. NoParent(b)'
    BY <1>3, <1>4, <1>8, AloneAfter
  <2>5. NoParent(op.block)'
    BY <1>6, <2>4 DEF NoParent
  <2>6. b # None /\ kind'[b] = "data" /\ SeqFull(op.seq)' = SeqFull(op.seq)
    BY <1>1, <1>3, <1>6, Given DEF SeqFull
  <2>7. pc' # "data" /\ (pc' = "entry" => ~SeqFull(op.seq))
    BY <1>7
  <2>8. pc' = "indir" => kind[OpTop] = "seq" /\ IndirEntries > 1
    BY <1>1, <1>5, <1>7 DEF Appends
  <2>9. pc' = "seq" => kind[OpTop] = "indir" /\ Len(refs[OpTop]) < IndirEntries
    BY <1>1, <1>5, <1>7 DEF Appends
  <2>10. op.call = "append" /\ op.dir # None /\ op.seq # None /\ Live(OpEntry)'
    BY <1>1, <1>5, <2>1 DEF Appends, Live
  <2>11. Appends'
    BY <1>1, <1>5, <1>6, <2>1, <2>2, <2>3, <2>5, <2>6, <2>7, <2>8, <2>9, <2>10 DEF Appends
  <2>12. MakesEntry'
    BY <1>7 DEF MakesEntry
  <2>13. pc' # "idle" /\ kind'[op.dir] = "dir" /\ kind'[op.seq] = "seq"
    BY <1>3, <1>5, <1>7
  <2> QED
    BY <1>6, <2>6, <2>11, <2>12, <2>13 DEF Holds
<1>11. Collecting' /\ Walks'
  BY <1>1, <1>3, <1>6, NotCollectingAfter
<1>12. pc' # "dangling"
  BY <1>7
<1> QED
  BY <1>3, <1>4, <1>8, <1>9, <1>10, <1>11, AllTyped, After

LEMMA ExtendKeeps ==
    ASSUME TypeOK, TreeInv, ExtendDir PROVE TypeOK' /\ TreeInv'
<1>1. /\ pc = "extend" /\ pc' = "block" /\ UNCHANGED <<ent, refs, root, walk, crashes>>
      /\ pc # "dangling"
  BY DEF ExtendDir
<1>2. PICK b \in Blocks : /\ Allocate(b, "dir") /\ link' = [link EXCEPT ![op.dir] = b]
                          /\ op' = [op EXCEPT !.dir = b, !.slot = 1]
  BY DEF ExtendDir
<1>3. /\ walk = <<>> /\ op.victim = None /\ Strict
      /\ kind' \in [Blocks -> {"erased", "dir", "seq", "indir", "data"}]
      /\ \A c \in Blocks : kind'[c] = IF c = b THEN "dir" ELSE kind[c]
      /\ free' \in Seq(Blocks) /\ FreeErased' /\ Alone(b) /\ b # op.dir
      /\ ent[b] = ErasedDir /\ link[b] = None /\ refs[b] = <<>>
      /\ \A i \in Idx : ent[b][i] = BlankEntry /\ To(b, i) = None
  BY <1>1, <1>2, Allocated
<1>4. /\ kind'[root] = "dir"
      /\ \A c \in Blocks : link[c] # None => kind'[link[c]] = "dir"
      /\ \A c \in Blocks, j \in Nat : At(c, j) # None =>
            kind'[At(c, j)] = IF kind'[c] = "seq" THEN "data" ELSE "seq"
      /\ \A c \in Blocks, i \in Idx : To(c, i) # None =>
            kind'[To(c, i)] = KindOf(ent[c][i]) /\ kind'[To(c, i)] = kind[To(c, i)]
  BY <1>1, <1>2, AllocatedKinds
<1>5. Shape /\ Contents /\ NoCycle /\ One /\ Whole /\ Holds /\ MakesEntry /\ Owned
  BY <1>1, Before DEF Holds
<1>6. PICK d \in Blocks : d = op.dir
  BY <1>1, <1>5 DEF MakesEntry, TypeOK
<1>7. kind[d] = "dir" /\ link[d] = None /\ d # b /\ d # None
  BY <1>1, <1>3, <1>5, <1>6, Given DEF Holds, MakesEntry
<1>8. /\ link' \in [Blocks -> Blocks \cup {None}]
      /\ \A c \in Blocks : link'[c] = IF c = d THEN b ELSE link[c]
  BY <1>2, <1>6 DEF TypeOK
<1>9. /\ \A c \in Blocks, i \in Idx : To(c, i)' = To(c, i)
      /\ \A c \in Blocks, j \in Nat : At(c, j)' = At(c, j)
  BY <1>1 DEF To, At
<1>10. /\ op'.call = op.call /\ op'.path = op.path /\ op'.dir = b /\ op'.slot = 1
       /\ op'.block = op.block /\ op'.seq = op.seq /\ op'.victim = op.victim
  BY <1>2 DEF TypeOK
<1>11. TypeOK'
  <2>1. TreeTyped'
    BY <1>1, <1>3, <1>8 DEF TypeOK, TreeTyped
  <2>2. CallTyped'
    BY <1>1, <1>2, Given DEF TypeOK, CallTyped, Allocating
  <2> QED
    BY <2>1, <2>2, TypedIs
<1>12. Contents'
  <2>1. Len(refs[b]) = 0
    BY <1>3
  <2>2. \A c \in Blocks : /\ kind'[c] # "dir" => ent[c] = ErasedDir /\ link'[c] = None
                          /\ kind'[c] \notin {"seq", "indir"} => refs[c] = <<>>
                          /\ kind'[c] = "seq" => Len(refs[c]) <= SeqEntries
                          /\ kind'[c] = "indir" => Len(refs[c]) <= IndirEntries
    BY <1>3, <1>5, <1>7, <1>8, <2>1, Given DEF Contents
  <2> QED
    BY <1>1, <1>5, <2>2 DEF Contents
<1>13. NoCycle'
  <2>1. \A c \in Blocks : Kids(c)' \subseteq Kids(c) \cup {b}
    BY <1>8, <1>9 DEF Kids
  <2>2. Kids(b)' = {}
    BY <1>3, <1>7, <1>8, <1>9, NoKids
  <2> QED
    BY <1>5, <2>1, <2>2, CyclesLeaf
<1>14. One'
  <2>1. root' = root
    BY <1>1
  <2> QED
    BY <1>3, <1>5, <1>8, <1>9, <2>1, OneMoreLink
<1>15. Linked'
  BY <1>1, <1>3, <1>4, <1>8, <1>9 DEF Linked
<1>16. Strict'
  BY <1>1, <1>4, <1>9 DEF Strict, KindOf
<1>17. Whole'
  BY <1>1, <1>2, AllocatedWhole
<1>18. Owned'
  <2>1. PICK own \in [Blocks -> Dirs \cup {Root}] : OwnedBy(own)
    BY <1>5 DEF Owned
  <2>2. PICK x \in Dirs \cup {Root} : x = own[d] /\ x = Home[op.path]
    BY <1>1, <1>6, <2>1 DEF OwnedBy
  <2>3. PICK new \in [Blocks -> Dirs \cup {Root}] : GivenTo(new, own, b, x)
    <3>1. Alone(b) /\ link[b] = None /\ \A i \in Idx : ent[b][i] = BlankEntry
      BY <1>3
    <3> QED
      BY <2>1, <3>1, NewOwner
  <2>4. \A c \in Blocks : link'[c] # None => new[link'[c]] = new[c]
    BY <1>7, <1>8, <2>2, <2>3 DEF GivenTo
  <2>5. new[op'.dir] = Home[op'.path]
    BY <1>10, <2>2, <2>3 DEF GivenTo
  <2>6. OwnedBy(new)'
    BY <1>1, <2>3, <2>4, <2>5 DEF OwnedBy, GivenTo
  <2> QED
    BY <2>3, <2>6 DEF Owned
<1>19. Holds'
  <2>1. OpEntry' = BlankEntry
    BY <1>1, <1>3, <1>10, Given DEF OpEntry
  <2>2. b # None /\ op.block = None /\ op.seq = None
    BY <1>1, <1>5, Given DEF MakesEntry
  <2>3. MakesEntry'
    BY <1>1, <1>5, <1>10, <2>1, <2>2 DEF MakesEntry
  <2>4. Appends'
    BY <1>1 DEF Appends
  <2> QED
    BY <1>1, <1>3, <1>10, <2>2, <2>3, <2>4 DEF Holds
<1>20. Collecting' /\ Walks'
  BY <1>1, <1>3, <1>10, NotCollectingAfter
<1> QED
  BY <1>3, <1>11, <1>12, <1>13, <1>14, <1>15, <1>16, <1>17, <1>18, <1>19, <1>20, AllTyped, After

LEMMA MostOfTwo == /\ SeqEntries <= MaxRefs
                   /\ IndirEntries <= MaxRefs
                   /\ MaxRefs \in Nat
<1> DEFINE T == {SeqEntries, IndirEntries}
<1>1. SeqEntries \in Nat /\ IndirEntries \in Nat
  BY Given
<1>2. \E x \in T : \A y \in T : x >= y
  BY <1>1
<1>3. Max(T) \in T /\ \A y \in T : Max(T) >= y
  BY <1>2 DEF Max
<1> QED
  BY <1>1, <1>3 DEF MaxRefs

\* A block takes the place of the one that it refers to.
LEMMA OneMoved ==
    ASSUME One, NEW x \in Blocks, Alone(x), NEW d \in Blocks, NEW s \in Idx, NEW q \in Blocks,
           To(d, s) = q, root' = root, \A b \in Blocks : link'[b] = link[b],
           \A b \in Blocks, i \in Idx : To(b, i)' = IF b = d /\ i = s THEN x ELSE To(b, i),
           \A b \in Blocks, j \in Nat : At(b, j)' = IF b = x /\ j = 1 THEN q ELSE At(b, j)
    PROVE  One' /\ \A y \in Blocks : Alone(y) /\ y # x => Alone(y)'
<1>1. None \notin Blocks /\ q # x
  BY Given DEF Alone
<1>2. /\ \A b \in Blocks, i \in Idx : To(b, i) = q => b = d /\ i = s
      /\ \A b \in Blocks, j \in Nat : At(b, j) # q
  BY <1>1 DEF One
<1>3. One'
  <2>1. \A b \in Blocks : link'[b] # None =>
           link'[b] # root' /\ \A c \in Blocks : link'[c] = link'[b] => c = b
    BY DEF One
  <2>2. ASSUME NEW b \in Blocks, NEW i \in Idx, To(b, i)' # None
        PROVE  /\ To(b, i)' # root' /\ \A c \in Blocks : link'[c] # To(b, i)'
               /\ \A c \in Blocks, j \in Nat : At(c, j)' # To(b, i)'
               /\ \A c \in Blocks, j \in Idx : To(c, j)' = To(b, i)' => c = b /\ j = i
    <3>1. CASE b = d /\ i = s
      BY <1>1, <3>1 DEF Alone
    <3>2. CASE ~(b = d /\ i = s)
      <4>1. To(b, i)' = To(b, i) /\ To(b, i) # q /\ To(b, i) # x
        BY <1>2, <3>2 DEF Alone
      <4> QED
        BY <2>2, <4>1 DEF One
    <3> QED
      BY <3>1, <3>2
  <2>3. \A b \in Blocks, i \in Nat : At(b, i)' # None =>
           \A c \in Blocks, j \in Nat : At(c, j)' = At(b, i)' => c = b /\ j = i
    BY <1>2 DEF One
  <2> QED
    BY <2>1, <2>2, <2>3 DEF One
<1>4. \A y \in Blocks : Alone(y) /\ y # x => Alone(y)'
  BY DEF Alone
<1> QED
  BY <1>3, <1>4

LEMMA MigrateKeeps ==
    ASSUME TypeOK, TreeInv, Migrate PROVE TypeOK' /\ TreeInv'
<1>1. /\ pc = "indir" /\ pc' = "seq" /\ UNCHANGED <<link, root, op, walk, crashes>>
      /\ pc # "dangling"
  BY DEF Migrate
<1>2. PICK b \in Blocks : /\ Allocate(b, "indir")
                          /\ refs' = [refs EXCEPT ![b] = <<op.seq>>]
                          /\ ent' = [ent EXCEPT ![op.dir][op.slot].next = Append(@, b)]
  BY DEF Migrate
<1>3. /\ walk = <<>> /\ op.victim = None /\ Strict
      /\ kind' \in [Blocks -> {"erased", "dir", "seq", "indir", "data"}]
      /\ \A c \in Blocks : kind'[c] = IF c = b THEN "indir" ELSE kind[c]
      /\ free' \in Seq(Blocks) /\ FreeErased' /\ Alone(b) /\ b # op.dir /\ b # op.block /\ b # op.seq
      /\ ent[b] = ErasedDir /\ link[b] = None /\ refs[b] = <<>>
      /\ \A i \in Idx : ent[b][i] = BlankEntry /\ To(b, i) = None
      /\ \A j \in Nat : At(b, j) = None
  BY <1>1, <1>2, Allocated
<1>4. /\ kind'[root] = "dir"
      /\ \A c \in Blocks : link[c] # None => kind'[link[c]] = "dir"
      /\ \A c \in Blocks, j \in Nat : At(c, j) # None =>
            kind'[At(c, j)] = IF kind'[c] = "seq" THEN "data" ELSE "seq"
      /\ \A c \in Blocks, i \in Idx : To(c, i) # None =>
            /\ kind'[To(c, i)] = KindOf(ent[c][i]) /\ To(c, i) \in Blocks
            /\ To(c, i) # b /\ kind'[To(c, i)] = kind[To(c, i)]
  BY <1>1, <1>2, AllocatedKinds
<1>5. /\ Shape /\ Contents /\ NoCycle /\ One /\ Whole /\ Holds /\ Owned
      /\ \A x \in Blocks : NoParent(x) <=> Alone(x)
  BY <1>1, Before
<1>6. /\ op.dir \in Blocks /\ op.slot \in Idx /\ op.seq \in Blocks /\ Appends
      /\ kind[op.dir] = "dir" /\ kind[op.seq] = "seq" /\ op.path \in Files
      /\ OpEntry = ent[op.dir][op.slot] /\ OpEntry \in Entry /\ Live(OpEntry)
      /\ OpEntry.path = op.path /\ OpTop = To(op.dir, op.slot) /\ OpTop \in Blocks
      /\ kind[OpTop] = IF Len(OpEntry.next) = 1 THEN "seq" ELSE "indir"
      /\ kind[OpTop] = "seq" => op.seq = OpTop
  BY <1>1, <1>3, AppendIs
<1>7. /\ kind[OpTop] = "seq" /\ IndirEntries > 1 /\ op.call = "append"
      /\ op.block # None /\ kind[op.block] = "data" /\ NoParent(op.block) /\ op.block \in Blocks
  BY <1>1, <1>6 DEF Appends, TypeOK
<1>8. PICK d \in Blocks, s \in Idx, q \in Blocks, x \in Blocks :
          d = op.dir /\ s = op.slot /\ q = op.seq /\ x = op.block
  BY <1>6, <1>7
<1>9. To(d, s) = q /\ kind[d] = "dir" /\ d # b /\ q # b /\ kind[q] = "seq" /\ q # None /\ d # None
  BY <1>3, <1>6, <1>7, <1>8, Given
<1>10. PICK e : e = [ent[d][s] EXCEPT !.next = Append(ent[d][s].next, b)]
  OBVIOUS
<1>11. Writes(d, s, e)
  <2>1. ent \in [Blocks -> [Idx -> Entry]] /\ ent[d][s] \in Entry
    BY <1>5 DEF TypeOK, Shape
  <2> QED
    BY <1>2, <1>8, <1>10, <2>1 DEF Entry, Writes
<1>12. PICK n : n = Append(ent[d][s].next, b)
  OBVIOUS
<1>13. ent[d][s] \in Entry /\ ent[d][s].next \in Seq(Blocks) /\ Len(ent[d][s].next) = 1
  BY <1>6, <1>7, <1>8 DEF Entry
<1>14. n \in Seq(Blocks) /\ n # <<>> /\ Len(n) = 2 /\ Last(n) = b
  <2>1. PICK o : o = ent[d][s].next
    OBVIOUS
  <2>2. o \in Seq(Blocks) /\ Len(o) = 1 /\ n = Append(o, b)
    BY <1>12, <1>13, <2>1
  <2>3. n \in Seq(Blocks) /\ n # <<>> /\ Len(n) = Len(o) + 1 /\ Last(n) = b
    <3>1. o \in Seq(Blocks) /\ n = Append(o, b)
      BY <2>2
    <3>2. \A y \in Blocks : \A t : t = Append(o, y) =>
             t \in Seq(Blocks) /\ t # <<>> /\ Len(t) = Len(o) + 1 /\ Last(t) = y
      BY <3>1, Pushed
    <3> QED
      BY <3>1, <3>2, Zenon
  <2> QED
    BY <2>2, <2>3
<1>15. /\ e \in Entry /\ e.next = n /\ e.used /\ e.committed /\ ~e.reclaimable
       /\ e.path = op.path /\ e.path \in Files
  BY <1>6, <1>8, <1>10, <1>12, <1>13, <1>14 DEF Entry, Live
<1>16. Sound(e) /\ Target(e) = b /\ KindOf(e) = "indir"
  <2>1. Len(e.next) = 2 /\ e.next # <<>> /\ Last(e.next) = b /\ Len(e.next) \in 1 .. 2
    BY <1>14, <1>15
  <2>2. e.path \in Paths /\ e.path \notin Dirs /\ e.path # Blank /\ e.path # Zeroed
    BY <1>15, Given
  <2>3. Sound(e)
    BY <1>15, <2>1, <2>2 DEF Sound
  <2>4. Target(e) = b
    BY <2>1 DEF Target
  <2>5. KindOf(e) = "indir"
    BY <2>1, <2>2 DEF KindOf
  <2> QED
    BY <2>3, <2>4, <2>5
<1>17. /\ ent' \in [Blocks -> [Idx -> Entry]]
       /\ \A c \in Blocks, i \in Idx : ent'[c][i] = IF c = d /\ i = s THEN e ELSE ent[c][i]
       /\ \A c \in Blocks : c # d => ent'[c] = ent[c]
       /\ \A c \in Blocks, i \in Idx : To(c, i)' = IF c = d /\ i = s THEN b ELSE To(c, i)
       /\ \A c \in Blocks, i \in Idx :
             \/ ent'[c][i].path \in {Blank, Zeroed} /\ ent'[c][i].next = <<>>
             \/ ent'[c][i].path \in Paths /\ Len(ent'[c][i].next) \in 1 .. 2
  <2>1. /\ ent' \in [Blocks -> [Idx -> Entry]]
        /\ \A c \in Blocks, i \in Idx : ent'[c][i] = IF c = d /\ i = s THEN e ELSE ent[c][i]
        /\ \A c \in Blocks : c # d => ent'[c] = ent[c]
        /\ \A c \in Blocks, i \in Idx : To(c, i)' = IF c = d /\ i = s THEN Target(e) ELSE To(c, i)
        /\ \A c \in Blocks, i \in Idx :
              \/ ent'[c][i].path \in {Blank, Zeroed} /\ ent'[c][i].next = <<>>
              \/ ent'[c][i].path \in Paths /\ Len(ent'[c][i].next) \in 1 .. 2
    <3>1. Sound(e)
      BY <1>16
    <3> QED
      BY <1>11, <3>1, EntryWritten
  <2> QED
    BY <1>16, <2>1
<1>18. /\ \A c \in Blocks : refs'[c] = IF c = b THEN <<q>> ELSE refs[c]
       /\ <<q>> \in Seq(Blocks \cup {None}) /\ Len(<<q>>) = 1 /\ DOMAIN <<q>> = {1}
       /\ <<q>> # <<>> /\ Last(<<q>>) = q /\ <<q>>[1] = q
       /\ refs' \in [Blocks -> Seq(Blocks \cup {None})]
  <2>1. /\ <<q>> \in Seq(Blocks \cup {None}) /\ Len(<<q>>) = 1 /\ DOMAIN <<q>> = {1}
        /\ <<q>> # <<>> /\ Last(<<q>>) = q /\ <<q>>[1] = q
    BY DEF Last
  <2>2. PICK t : t = <<q>>
    OBVIOUS
  <2>3. refs' = [refs EXCEPT ![b] = t] /\ t \in Seq(Blocks \cup {None})
    BY <1>2, <1>8, <2>1, <2>2
  <2>4. /\ refs' \in [Blocks -> Seq(Blocks \cup {None})]
        /\ \A c \in Blocks : refs'[c] = IF c = b THEN t ELSE refs[c]
    BY <2>3 DEF TypeOK
  <2> QED
    BY <2>1, <2>2, <2>4
<1>19. \A c \in Blocks, j \in Nat : At(c, j)' = IF c = b /\ j = 1 THEN q ELSE At(c, j)
  <2> SUFFICES ASSUME NEW c \in Blocks, NEW j \in Nat
               PROVE  At(c, j)' = IF c = b /\ j = 1 THEN q ELSE At(c, j)
    OBVIOUS
  <2>1. CASE c = b
    BY <1>3, <1>18, <2>1 DEF At
  <2>2. CASE c # b
    BY <1>18, <2>2 DEF At
  <2> QED
    BY <2>1, <2>2
<1>20. TypeOK'
  <2>1. \A c \in Blocks : Len(refs'[c]) <= MaxRefs
    <3>1. 1 <= IndirEntries /\ IndirEntries <= MaxRefs
          /\ IndirEntries \in Nat /\ MaxRefs \in Nat
      BY MostOfTwo, Given
    <3>2. 1 <= MaxRefs
      BY <3>1
    <3>3. Len(refs'[b]) <= MaxRefs
      BY <1>18, <3>2
    <3>4. \A c \in Blocks : c # b => Len(refs'[c]) <= MaxRefs
      BY <1>18 DEF TypeOK
    <3> QED
      BY <3>3, <3>4
  <2>2. TreeTyped'
    BY <1>1, <1>3, <1>17, <1>18, <2>1 DEF TypeOK, TreeTyped
  <2>3. CallTyped'
    BY <1>1 DEF TypeOK, CallTyped, Allocating
  <2> QED
    BY <2>2, <2>3, TypedIs
<1>21. Contents'
  <2>1. \A c \in Blocks : /\ kind'[c] # "dir" => ent'[c] = ErasedDir /\ link[c] = None
                          /\ kind'[c] \notin {"seq", "indir"} => refs'[c] = <<>>
                          /\ kind'[c] = "seq" => Len(refs'[c]) <= SeqEntries
                          /\ kind'[c] = "indir" => Len(refs'[c]) <= IndirEntries
    <3> SUFFICES ASSUME NEW c \in Blocks
                 PROVE  /\ kind'[c] # "dir" => ent'[c] = ErasedDir /\ link[c] = None
                        /\ kind'[c] \notin {"seq", "indir"} => refs'[c] = <<>>
                        /\ kind'[c] = "seq" => Len(refs'[c]) <= SeqEntries
                        /\ kind'[c] = "indir" => Len(refs'[c]) <= IndirEntries
      OBVIOUS
    <3>1. CASE c = b
      <4>1. ent'[c] = ErasedDir
        BY <1>3, <1>9, <1>17, <3>1
      <4>2. Len(refs'[c]) = 1 /\ link[c] = None /\ kind'[c] = "indir"
        BY <1>3, <1>18, <3>1
      <4>3. 1 <= IndirEntries
        BY <1>7, Given
      <4> QED
        BY <4>1, <4>2, <4>3
    <3>2. CASE c # b
      <4>1. kind'[c] = kind[c] /\ refs'[c] = refs[c] /\ (kind[c] # "dir" => ent'[c] = ent[c])
        BY <1>3, <1>9, <1>17, <1>18, <3>2
      <4> QED
        BY <1>5, <4>1 DEF Contents
    <3> QED
      BY <3>1, <3>2
  <2>2. \A c \in Blocks, i \in Idx :
           /\ ~ent'[c][i].used => ent'[c][i] = BlankEntry
           /\ ent'[c][i].committed => ent'[c][i].path # Blank
           /\ ent'[c][i].path = Zeroed => ent'[c][i].reclaimable
    BY <1>5, <1>16, <1>17 DEF Contents, Sound
  <2> QED
    BY <1>1, <2>1, <2>2 DEF Contents
<1>22. NoCycle'
  <2>1. \A c \in Blocks : Kids(c)' \subseteq Kids(c) \cup {b}
    BY <1>1, <1>17 DEF Kids
  <2>2. \A i \in Idx : To(b, i)' = None
    BY <1>3, <1>9, <1>17
  <2>3. Kids(b)' = {}
    BY <1>1, <1>3, <2>2, NoKids
  <2> QED
    BY <1>5, <2>1, <2>3, CyclesLeaf
<1>23. One' /\ \A y \in Blocks : Alone(y) /\ y # b => Alone(y)'
  <2>1. root' = root /\ \A c \in Blocks : link'[c] = link[c]
    BY <1>1
  <2>2. One /\ Alone(b) /\ To(d, s) = q
    BY <1>3, <1>5, <1>9
  <2>3. \A c \in Blocks, i \in Idx : To(c, i)' = IF c = d /\ i = s THEN b ELSE To(c, i)
    BY <1>17
  <2> QED
    BY <1>19, <2>1, <2>2, <2>3, OneMoved
<1>24. Linked'
  <2>1. kind'[b] = "indir" /\ kind'[q] = "seq"
    BY <1>3, <1>9
  <2> QED
    BY <1>1, <1>4, <1>19, <2>1 DEF Linked
<1>25. Strict'
  <2>1. kind'[b] = KindOf(e)
    BY <1>3, <1>16
  <2> QED
    BY <1>4, <1>17, <2>1 DEF Strict, KindOf
<1>26. Whole'
  <2> SUFFICES ASSUME NEW c \in Blocks, NEW i \in Idx,
                      ent'[c][i].next # <<>>, ~ent'[c][i].reclaimable,
                      kind'[Last(ent'[c][i].next)] = "indir",
                      NEW top, top = Last(ent'[c][i].next)
               PROVE  refs'[top] # <<>> /\ \A j \in DOMAIN refs'[top] : refs'[top][j] # None
    BY DEF Whole
  <2>1. CASE c = d /\ i = s
    <3>1. top = b /\ refs'[top] = <<q>>
      BY <1>14, <1>15, <1>17, <1>18, <2>1
    <3> QED
      BY <1>9, <1>18, <3>1
  <2>2. CASE ~(c = d /\ i = s)
    <3>1. ent'[c][i] = ent[c][i]
      BY <1>17, <2>2
    <3>2. To(c, i) # None /\ To(c, i) = top
      BY <1>5, <3>1 DEF Shape
    <3>3. kind[top] = "indir" /\ refs'[top] = refs[top]
      BY <1>4, <1>18, <3>2
    <3> QED
      BY <1>5, <3>1, <3>3 DEF Whole
  <2> QED
    BY <2>1, <2>2
<1>27. Owned'
  <2>1. PICK own \in [Blocks -> Dirs \cup {Root}] : OwnedBy(own)
    BY <1>5 DEF Owned
  <2>2. Home[op.path] = own[d]
    BY <1>6, <1>8, <2>1, Given DEF OwnedBy
  <2>3. \A c \in Blocks, i \in Idx :
           /\ ent'[c][i].path \in Paths => Home[ent'[c][i].path] = own[c]
           /\ ent'[c][i].path \in Dirs => own[Last(ent'[c][i].next)] = ent'[c][i].path
    <3> SUFFICES ASSUME NEW c \in Blocks, NEW i \in Idx
                 PROVE  /\ ent'[c][i].path \in Paths => Home[ent'[c][i].path] = own[c]
                        /\ ent'[c][i].path \in Dirs => own[Last(ent'[c][i].next)] = ent'[c][i].path
      OBVIOUS
    <3>1. CASE c = d /\ i = s
      <4>1. ent'[c][i] = e /\ e.path \notin Dirs
        BY <1>15, <1>17, <3>1, Given
      <4> QED
        BY <1>15, <2>2, <3>1, <4>1
    <3>2. CASE ~(c = d /\ i = s)
      <4>1. ent'[c][i] = ent[c][i]
        BY <1>17, <3>2
      <4> QED
        BY <2>1, <4>1 DEF OwnedBy
    <3> QED
      BY <3>1, <3>2
  <2>4. OwnedBy(own)'
    BY <1>1, <2>1, <2>3 DEF OwnedBy
  <2> QED
    BY <2>4 DEF Owned
<1>28. Holds'
  <2>1. OpEntry' = e /\ OpTop' = b
    BY <1>1, <1>8, <1>14, <1>15, <1>17 DEF OpEntry, OpTop
  <2>2. kind'[b] = "indir" /\ refs'[b] = <<q>> /\ Len(refs'[b]) = 1
    BY <1>3, <1>18
  <2>3. LastSeq(OpEntry)' = q
    BY <1>14, <1>15, <1>18, <2>1, <2>2 DEF LastSeq
  <2>4. NoParent(x)'
    BY <1>3, <1>5, <1>7, <1>8, <1>20, <1>23, AloneAfter
  <2>5. NoParent(op.block)'
    BY <1>1, <1>8, <2>4 DEF NoParent
  <2>6. Live(OpEntry)'
    BY <1>15, <2>1 DEF Live
  <2>7. /\ op.dir # None /\ op.seq # None /\ kind'[op.block] = "data"
        /\ kind'[op.dir] = "dir" /\ kind'[op.seq] = "seq"
    BY <1>3, <1>6, <1>7, Given
  <2>8. Appends'
    BY <1>1, <1>6, <1>7, <1>8, <1>15, <2>1, <2>2, <2>3, <2>5, <2>6, <2>7 DEF Appends
  <2>9. MakesEntry'
    BY <1>1 DEF MakesEntry
  <2> QED
    BY <1>1, <2>7, <2>8, <2>9 DEF Holds
<1>29. Collecting' /\ Walks'
  BY <1>1, <1>3, NotCollectingAfter
<1> QED
  BY <1>3, <1>20, <1>21, <1>22, <1>23, <1>24, <1>25, <1>26, <1>27, <1>28, <1>29, AllTyped, After

\* One more entry in sequence or indirection block d
Refers(d, x) == refs' = [refs EXCEPT ![d] = Append(@, x)]
Referred(d, x) ==
    /\ refs' \in [Blocks -> Seq(Blocks \cup {None})]
    /\ \A c \in Blocks : c # d => refs'[c] = refs[c]
    /\ refs'[d] # <<>> /\ Len(refs'[d]) = Len(refs[d]) + 1 /\ Len(refs[d]) \in Nat
    /\ Last(refs'[d]) = x
    /\ DOMAIN refs'[d] = DOMAIN refs[d] \cup {Len(refs[d]) + 1}
    /\ refs'[d][Len(refs[d]) + 1] = x /\ \A j \in DOMAIN refs[d] : refs'[d][j] = refs[d][j]
    /\ \A c \in Blocks, j \in Nat :
          At(c, j)' = IF c = d /\ j = Len(refs[d]) + 1 THEN x ELSE At(c, j)

LEMMA RefMade ==
    ASSUME TypeOK, NEW d \in Blocks, NEW x \in Blocks, Refers(d, x)
    PROVE  Referred(d, x)
<1>1. refs \in [Blocks -> Seq(Blocks \cup {None})]
  BY DEF TypeOK
<1>2. PICK o \in Seq(Blocks \cup {None}) : o = refs[d]
  BY <1>1
<1>3. PICK t : t = Append(o, x)
  OBVIOUS
<1>4. x \in Blocks \cup {None}
  OBVIOUS
<1>5. /\ t \in Seq(Blocks \cup {None}) /\ t # <<>> /\ Len(t) = Len(o) + 1
      /\ DOMAIN t = DOMAIN o \cup {Len(o) + 1} /\ Len(o) + 1 \notin DOMAIN o
      /\ t[Len(o) + 1] = x /\ \A i \in DOMAIN o : t[i] = o[i]
  <2>1. \A y \in Blocks \cup {None} : \A u : u = Append(o, y) =>
           /\ u \in Seq(Blocks \cup {None}) /\ u # <<>> /\ Len(u) = Len(o) + 1
           /\ DOMAIN u = DOMAIN o \cup {Len(o) + 1} /\ Len(o) + 1 \notin DOMAIN o
           /\ u[Len(o) + 1] = y /\ \A i \in DOMAIN o : u[i] = o[i]
    BY Appended
  <2> QED
    BY <1>3, <1>4, <2>1, Zenon
<1>6. Last(t) = x
  BY <1>5 DEF Last
<1>7. Len(o) \in Nat /\ DOMAIN o = 1 .. Len(o)
  BY SeqIs
<1>8. refs' = [refs EXCEPT ![d] = t]
  BY <1>2, <1>3 DEF Refers
<1>9. /\ refs' \in [Blocks -> Seq(Blocks \cup {None})]
      /\ \A c \in Blocks : refs'[c] = IF c = d THEN t ELSE refs[c]
  BY <1>1, <1>5, <1>8
<1>10. \A c \in Blocks, j \in Nat :
          At(c, j)' = IF c = d /\ j = Len(o) + 1 THEN x ELSE At(c, j)
  <2> SUFFICES ASSUME NEW c \in Blocks, NEW j \in Nat
               PROVE  At(c, j)' = IF c = d /\ j = Len(o) + 1 THEN x ELSE At(c, j)
    OBVIOUS
  <2>1. CASE c # d
    BY <1>9, <2>1 DEF At
  <2>2. CASE c = d
    <3>1. At(c, j)' = IF j \in DOMAIN t THEN t[j] ELSE None
      BY <1>9, <2>2 DEF At
    <3>2. At(c, j) = IF j \in DOMAIN o THEN o[j] ELSE None
      BY <1>2, <2>2 DEF At
    <3> QED
      BY <1>5, <2>2, <3>1, <3>2
  <2> QED
    BY <2>1, <2>2
<1> QED
  BY <1>2, <1>5, <1>6, <1>7, <1>9, <1>10 DEF Referred

LEMMA NewSeqKeeps ==
    ASSUME TypeOK, TreeInv, NewSeqBlock PROVE TypeOK' /\ TreeInv'
<1>1. /\ pc = "seq" /\ pc' = "entry" /\ UNCHANGED <<ent, link, root, walk, crashes>>
      /\ pc # "dangling"
  BY DEF NewSeqBlock
<1>2. PICK b \in Blocks : /\ Allocate(b, "seq")
                          /\ refs' = [refs EXCEPT ![OpTop] = Append(@, b)]
                          /\ op' = [op EXCEPT !.seq = b]
  BY DEF NewSeqBlock, EntryOf, OpTop, OpEntry
<1>3. /\ walk = <<>> /\ op.victim = None /\ Strict
      /\ kind' \in [Blocks -> {"erased", "dir", "seq", "indir", "data"}]
      /\ \A c \in Blocks : kind'[c] = IF c = b THEN "seq" ELSE kind[c]
      /\ free' \in Seq(Blocks) /\ FreeErased' /\ Alone(b) /\ b # op.dir /\ b # op.block
      /\ ent[b] = ErasedDir /\ link[b] = None /\ refs[b] = <<>> /\ kind[b] = "erased"
      /\ \A j \in Nat : At(b, j) = None
  BY <1>1, <1>2, Allocated
<1>4. /\ kind'[root] = "dir"
      /\ \A c \in Blocks : link[c] # None => kind'[link[c]] = "dir"
      /\ \A c \in Blocks, j \in Nat : At(c, j) # None =>
            kind'[At(c, j)] = IF kind'[c] = "seq" THEN "data" ELSE "seq"
      /\ \A c \in Blocks, i \in Idx : To(c, i) # None =>
            /\ kind'[To(c, i)] = KindOf(ent[c][i]) /\ To(c, i) \in Blocks
            /\ To(c, i) # b /\ kind'[To(c, i)] = kind[To(c, i)]
  BY <1>1, <1>2, AllocatedKinds
<1>5. /\ Shape /\ Contents /\ NoCycle /\ One /\ Whole /\ Holds /\ Owned
      /\ \A x \in Blocks : NoParent(x) <=> Alone(x)
  BY <1>1, Before
<1>6. /\ op.dir \in Blocks /\ op.slot \in Idx /\ Appends /\ kind[op.dir] = "dir"
      /\ op.path \in Files /\ OpEntry = ent[op.dir][op.slot] /\ Live(OpEntry)
      /\ OpEntry.path = op.path /\ OpTop = To(op.dir, op.slot) /\ OpTop \in Blocks
      /\ OpTop = Last(OpEntry.next)
  BY <1>1, <1>3, AppendIs DEF OpTop
<1>7. /\ kind[OpTop] = "indir" /\ Len(refs[OpTop]) < IndirEntries /\ op.call = "append"
      /\ op.block # None /\ kind[op.block] = "data" /\ NoParent(op.block) /\ op.block \in Blocks
  BY <1>1, <1>6 DEF Appends, TypeOK
<1>8. PICK d \in Blocks, s \in Idx, top \in Blocks, x \in Blocks :
          d = op.dir /\ s = op.slot /\ top = OpTop /\ x = op.block
  BY <1>6, <1>7
<1>9. kind[top] = "indir" /\ top # b /\ kind'[top] = "indir" /\ Len(refs[top]) < IndirEntries
  BY <1>3, <1>7, <1>8
<1>10. /\ refs' \in [Blocks -> Seq(Blocks \cup {None})]
       /\ \A c \in Blocks : c # top => refs'[c] = refs[c]
       /\ refs'[top] # <<>> /\ Len(refs'[top]) = Len(refs[top]) + 1 /\ Len(refs[top]) \in Nat
       /\ Last(refs'[top]) = b
       /\ DOMAIN refs'[top] = DOMAIN refs[top] \cup {Len(refs[top]) + 1}
       /\ refs'[top][Len(refs[top]) + 1] = b
       /\ \A j \in DOMAIN refs[top] : refs'[top][j] = refs[top][j]
       /\ \A c \in Blocks, j \in Nat :
             At(c, j)' = IF c = top /\ j = Len(refs[top]) + 1 THEN b ELSE At(c, j)
  <2>1. Refers(top, b)
    BY <1>2, <1>8 DEF Refers
  <2>2. Referred(top, b)
    BY <2>1, RefMade
  <2> QED
    BY <2>2 DEF Referred
<1>11. \A c \in Blocks, i \in Idx : To(c, i)' = To(c, i)
  BY <1>1 DEF To
<1>12. Len(refs'[top]) <= IndirEntries /\ b # None
  BY <1>9, <1>10, Given
<1>13. /\ op'.call = op.call /\ op'.path = op.path /\ op'.dir = op.dir /\ op'.slot = op.slot
       /\ op'.block = op.block /\ op'.seq = b /\ op'.victim = op.victim
  BY <1>2 DEF TypeOK
<1>14. TypeOK'
  <2>1. Len(refs'[top]) <= MaxRefs
    BY <1>10, <1>12, MostOfTwo, Given
  <2>2. \A c \in Blocks : Len(refs'[c]) <= MaxRefs
    BY <1>10, <2>1 DEF TypeOK
  <2>3. TreeTyped'
    BY <1>1, <1>3, <1>10, <2>2 DEF TypeOK, TreeTyped
  <2>4. CallTyped'
    BY <1>1, <1>2 DEF TypeOK, CallTyped, Writing
  <2> QED
    BY <2>3, <2>4, TypedIs
<1>15. Contents'
  <2>1. \A c \in Blocks : /\ kind'[c] # "dir" => ent[c] = ErasedDir /\ link[c] = None
                          /\ kind'[c] \notin {"seq", "indir"} => refs'[c] = <<>>
                          /\ kind'[c] = "seq" => Len(refs'[c]) <= SeqEntries
                          /\ kind'[c] = "indir" => Len(refs'[c]) <= IndirEntries
    <3> SUFFICES ASSUME NEW c \in Blocks
                 PROVE  /\ kind'[c] # "dir" => ent[c] = ErasedDir /\ link[c] = None
                        /\ kind'[c] \notin {"seq", "indir"} => refs'[c] = <<>>
                        /\ kind'[c] = "seq" => Len(refs'[c]) <= SeqEntries
                        /\ kind'[c] = "indir" => Len(refs'[c]) <= IndirEntries
      OBVIOUS
    <3>1. CASE c = b
      <4>1. refs'[c] = <<>> /\ kind'[c] = "seq" /\ 0 <= SeqEntries
        BY <1>3, <1>9, <1>10, <3>1, Given
      <4>2. Len(refs'[c]) = 0
        BY <4>1
      <4> QED
        BY <1>3, <3>1, <4>1, <4>2
    <3>2. CASE c = top
      BY <1>5, <1>9, <1>12, <3>2 DEF Contents
    <3>3. CASE c # b /\ c # top
      <4>1. kind'[c] = kind[c] /\ refs'[c] = refs[c]
        BY <1>3, <1>10, <3>3
      <4> QED
        BY <1>5, <4>1 DEF Contents
    <3> QED
      BY <3>1, <3>2, <3>3
  <2> QED
    BY <1>1, <1>5, <2>1 DEF Contents
<1>16. NoCycle'
  <2>1. \A c \in Blocks : Kids(c)' \subseteq Kids(c)
    BY <1>1, <1>11 DEF Kids
  <2> QED
    BY <1>5, <2>1, CyclesFewer
<1>17. One' /\ \A y \in Blocks : Alone(y) /\ y # b => Alone(y)'
  <2>1. root' = root /\ \A c \in Blocks : link'[c] = link[c]
    BY <1>1
  <2>2. PICK n \in Nat : n = Len(refs[top]) + 1
    BY <1>10
  <2>3. \A c \in Blocks, j \in Nat : At(c, j)' = IF c = top /\ j = n THEN b ELSE At(c, j)
    BY <1>10, <2>2
  <2> QED
    BY <1>3, <1>5, <1>11, <2>1, <2>3, OneMoreRef
<1>18. Linked'
  <2>1. kind'[b] = "seq"
    BY <1>3
  <2> QED
    BY <1>1, <1>4, <1>9, <1>10, <2>1 DEF Linked
<1>19. Strict'
  BY <1>1, <1>4, <1>11 DEF Strict, KindOf
<1>20. Whole'
  <2> SUFFICES ASSUME NEW c \in Blocks, NEW i \in Idx,
                      ent[c][i].next # <<>>, ~ent[c][i].reclaimable,
                      kind'[Last(ent[c][i].next)] = "indir",
                      NEW t, t = Last(ent[c][i].next)
               PROVE  refs'[t] # <<>> /\ \A j \in DOMAIN refs'[t] : refs'[t][j] # None
    BY <1>1 DEF Whole
  <2>1. To(c, i) # None /\ To(c, i) = t
    BY <1>5 DEF Shape
  <2>2. kind[t] = "indir" /\ t \in Blocks
    BY <1>4, <2>1
  <2>3. refs[t] # <<>> /\ \A j \in DOMAIN refs[t] : refs[t][j] # None
    BY <1>5, <2>2 DEF Whole
  <2>4. CASE t = top
    BY <1>10, <1>12, <2>3, <2>4
  <2>5. CASE t # top
    BY <1>10, <2>2, <2>3, <2>5
  <2> QED
    BY <2>4, <2>5
<1>21. Owned'
  BY <1>1, <1>5 DEF Owned, OwnedBy
<1>22. Holds'
  <2>1. OpEntry' = OpEntry /\ OpTop' = top
    BY <1>1, <1>8, <1>13 DEF OpEntry, OpTop
  <2>2. LastSeq(OpEntry)' = b
    BY <1>6, <1>8, <1>9, <1>10, <2>1 DEF LastSeq
  <2>3. NoParent(x)'
    BY <1>3, <1>5, <1>7, <1>8, <1>14, <1>17, AloneAfter
  <2>4. NoParent(op.block)'
    BY <1>8, <1>13, <2>3 DEF NoParent
  <2>5. Live(OpEntry)'
    BY <1>6, <2>1 DEF Live
  <2>6. ~SeqFull(op.seq)'
    <3>1. refs'[b] = <<>>
      BY <1>3, <1>9, <1>10
    <3>2. Len(refs'[b]) = 0 /\ SeqEntries # 0
      BY <3>1, Given
    <3> QED
      BY <1>13, <3>2 DEF SeqFull
  <2>7. /\ op.dir # None /\ b # None /\ kind'[op.block] = "data"
        /\ kind'[op.dir] = "dir" /\ kind'[b] = "seq"
    BY <1>3, <1>6, <1>7, Given
  <2>8. Appends'
    BY <1>1, <1>6, <1>7, <1>13, <2>1, <2>2, <2>4, <2>5, <2>6, <2>7 DEF Appends
  <2>9. MakesEntry'
    BY <1>1 DEF MakesEntry
  <2> QED
    BY <1>1, <1>13, <2>7, <2>8, <2>9 DEF Holds
<1>23. Collecting' /\ Walks'
  BY <1>1, <1>3, <1>13, NotCollectingAfter
<1> QED
  BY <1>3, <1>14, <1>15, <1>16, <1>17, <1>18, <1>19, <1>20, <1>21, <1>22, <1>23, AllTyped, After

LEMMA RecordKeeps ==
    ASSUME TypeOK, TreeInv, RecordData PROVE TypeOK' /\ TreeInv'
<1>1. /\ pc = "entry" /\ pc' = "idle" /\ op' = NoOp
      /\ UNCHANGED <<kind, ent, link, free, root, walk, crashes>> /\ pc # "dangling"
  BY DEF RecordData, Return
<1>2. Collecting /\ walk = <<>>
  BY <1>1, Before DEF Collecting, Allocating
<1>3. /\ Shape /\ Contents /\ FreeErased /\ NoCycle /\ Linked /\ One /\ Whole /\ Holds /\ Owned
      /\ \A x \in Blocks : NoParent(x) <=> Alone(x)
  BY <1>1, Before
<1>4. /\ Strict /\ Appends /\ op.seq \in Blocks /\ kind[op.seq] = "seq"
  BY <1>1, <1>2, AppendIs
<1>5. /\ op.block # None /\ kind[op.block] = "data" /\ NoParent(op.block) /\ op.block \in Blocks
      /\ ~SeqFull(op.seq)
  BY <1>1, <1>4 DEF Appends, TypeOK
<1>6. PICK q \in Blocks, x \in Blocks : q = op.seq /\ x = op.block
  BY <1>4, <1>5
<1>7. Alone(x) /\ kind[q] = "seq" /\ kind[x] = "data" /\ Len(refs[q]) # SeqEntries
  BY <1>3, <1>4, <1>5, <1>6 DEF SeqFull
<1>8. Refers(q, x)
  BY <1>6 DEF RecordData, Refers
<1>9. /\ refs' \in [Blocks -> Seq(Blocks \cup {None})]
      /\ \A c \in Blocks : c # q => refs'[c] = refs[c]
      /\ Len(refs'[q]) = Len(refs[q]) + 1 /\ Len(refs[q]) \in Nat
      /\ \A c \in Blocks, j \in Nat :
            At(c, j)' = IF c = q /\ j = Len(refs[q]) + 1 THEN x ELSE At(c, j)
  <2>1. Referred(q, x)
    BY <1>8, RefMade
  <2> QED
    BY <2>1 DEF Referred
<1>10. Len(refs'[q]) <= SeqEntries
  <2>1. Len(refs[q]) <= SeqEntries
    BY <1>3, <1>7 DEF Contents
  <2> QED
    BY <1>7, <1>9, <2>1, Given
<1>11. \A c \in Blocks, i \in Idx : To(c, i)' = To(c, i)
  BY <1>1 DEF To
<1>12. TypeOK'
  <2>1. Len(refs'[q]) <= MaxRefs
    BY <1>9, <1>10, MostOfTwo, Given
  <2>2. \A c \in Blocks : Len(refs'[c]) <= MaxRefs
    BY <1>9, <2>1 DEF TypeOK
  <2>3. TreeTyped'
    BY <1>1, <1>9, <2>2 DEF TypeOK, TreeTyped
  <2>4. CallTyped'
    BY <1>1, Given DEF TypeOK, CallTyped, NoOp
  <2> QED
    BY <2>3, <2>4, TypedIs
<1>13. Contents' /\ FreeErased'
  <2>1. \A c \in Blocks : /\ kind[c] # "dir" => ent[c] = ErasedDir /\ link[c] = None
                          /\ kind[c] \notin {"seq", "indir"} => refs'[c] = <<>>
                          /\ kind[c] = "seq" => Len(refs'[c]) <= SeqEntries
                          /\ kind[c] = "indir" => Len(refs'[c]) <= IndirEntries
    BY <1>3, <1>7, <1>9, <1>10 DEF Contents
  <2> QED
    BY <1>1, <1>3, <2>1 DEF Contents, FreeErased
<1>14. NoCycle'
  <2>1. \A c \in Blocks : Kids(c)' \subseteq Kids(c)
    BY <1>1, <1>11 DEF Kids
  <2> QED
    BY <1>3, <2>1, CyclesFewer
<1>15. One'
  <2>1. root' = root /\ \A c \in Blocks : link'[c] = link[c]
    BY <1>1
  <2>2. PICK n \in Nat : n = Len(refs[q]) + 1
    BY <1>9
  <2>3. \A c \in Blocks, j \in Nat : At(c, j)' = IF c = q /\ j = n THEN x ELSE At(c, j)
    BY <1>9, <2>2
  <2> QED
    BY <1>3, <1>7, <1>11, <2>1, <2>3, OneMoreRef
<1>16. Linked' /\ Strict'
  <2>1. \A c \in Blocks, j \in Nat : At(c, j)' # None =>
           kind[At(c, j)'] = IF kind[c] = "seq" THEN "data" ELSE "seq"
    BY <1>3, <1>7, <1>9 DEF Linked
  <2>2. kind' = kind /\ link' = link /\ root' = root /\ ent' = ent
    BY <1>1
  <2>3. Linked'
    BY <1>3, <2>1, <2>2 DEF Linked
  <2>4. Strict'
    BY <1>4, <1>11, <2>2 DEF Strict, KindOf
  <2> QED
    BY <2>3, <2>4
<1>17. Whole'
  <2> SUFFICES ASSUME NEW c \in Blocks, NEW i \in Idx,
                      ent[c][i].next # <<>>, ~ent[c][i].reclaimable,
                      kind[Last(ent[c][i].next)] = "indir",
                      NEW t, t = Last(ent[c][i].next)
               PROVE  refs'[t] # <<>> /\ \A j \in DOMAIN refs'[t] : refs'[t][j] # None
    BY <1>1 DEF Whole
  <2>1. t \in Blocks
    BY <1>3 DEF Shape, Optional
  <2>2. refs'[t] = refs[t]
    BY <1>7, <1>9, <2>1
  <2> QED
    BY <1>3, <2>2 DEF Whole
<1>18. Owned'
  BY <1>1, <1>3 DEF Owned, OwnedBy
<1>19. Holds' /\ op'.victim = None
  BY <1>1 DEF Holds, NoOp, MakesEntry, Appends
<1>20. Collecting' /\ Walks'
  BY <1>1, <1>2, <1>19, NotCollectingAfter
<1> QED
  BY <1>12, <1>13, <1>14, <1>15, <1>16, <1>17, <1>18, <1>19, <1>20, AllTyped, After

-----------------------------------------------------------------------------
(***************************************************************************)
(* Steps of the collector at a removed file.                               *)
(***************************************************************************)
LEMMA VictimIs ==
    ASSUME TypeOK, TreeInv, AtVictim
    PROVE  /\ walk # <<>> /\ pc \in Allocating /\ pc # "dangling"
           /\ Top.dir \in Blocks /\ Top.at \in Idx /\ TopEntry = ent[Top.dir][Top.at]
           /\ VictimTop = To(Top.dir, Top.at) /\ VictimTop \in Blocks
           /\ TopEntry.reclaimable /\ kind[VictimTop] # "dir" /\ kind[Top.dir] = "dir"
           /\ TopEntry.next # <<>>
           /\ ~TopFreed => Strict /\ kind[VictimTop] \in {"seq", "indir"}
<1>1. walk # <<>> /\ Top.at > 0
  BY DEF AtVictim, AtEntry
<1>2. pc \in Allocating /\ Top \in Frames /\ Top.at \in Idx
  BY <1>1, InWalk
<1>3. pc # "dangling" /\ Top.dir \in Blocks
  BY <1>2 DEF Allocating, Frames
<1>4. Shape /\ Contents /\ (~Emptied => Strict)
  BY <1>3, Before
<1>5. TopEntry.reclaimable /\ HasNext /\ ~NextIsDir /\ TopEntry = ent[Top.dir][Top.at]
  BY DEF AtVictim, TopEntry
<1>6. PICK d \in Blocks, s \in Idx : d = Top.dir /\ s = Top.at
  BY <1>2, <1>3
<1>7. ent[d][s].next # <<>> /\ VictimTop = Last(ent[d][s].next) /\ TopEntry.next # <<>>
  BY <1>5, <1>6 DEF HasNext, VictimTop
<1>8. /\ To(d, s) # None /\ To(d, s) = Last(ent[d][s].next) /\ To(d, s) \in Optional
  BY <1>4, <1>7 DEF Shape
<1>9. VictimTop = To(Top.dir, Top.at) /\ VictimTop \in Blocks
  BY <1>6, <1>7, <1>8 DEF Optional
<1>10. kind[VictimTop] # "dir"
  BY <1>5 DEF NextIsDir, VictimTop
<1>11. kind[Top.dir] = "dir"
  BY <1>4, <1>6, <1>8, NoEntries
<1>12. ASSUME ~TopFreed PROVE Strict /\ kind[VictimTop] \in {"seq", "indir"}
  <2>1. Strict
    BY <1>4, <1>12 DEF Emptied
  <2>2. kind[To(d, s)] = KindOf(ent[d][s])
    BY <1>8, <2>1 DEF Strict
  <2> QED
    BY <1>7, <1>8, <1>10, <2>1, <2>2 DEF KindOf
<1> QED
  BY <1>1, <1>2, <1>3, <1>5, <1>7, <1>9, <1>10, <1>11, <1>12

\* Entry m of sequence or indirection block s is zeroed.
Erases(s, m) == refs' = [refs EXCEPT ![s][m] = None]
Erased(s, m) ==
    /\ refs' \in [Blocks -> Seq(Blocks \cup {None})]
    /\ \A c \in Blocks : Len(refs'[c]) = Len(refs[c]) /\ (c # s => refs'[c] = refs[c])
    /\ \A c \in Blocks, j \in Nat :
          At(c, j)' = IF c = s /\ j = m THEN None ELSE At(c, j)

LEMMA RefErased ==
    ASSUME TypeOK, NEW s \in Blocks, NEW m \in DOMAIN refs[s], Erases(s, m)
    PROVE  Erased(s, m)
<1>1. refs \in [Blocks -> Seq(Blocks \cup {None})]
  BY DEF TypeOK
<1>2. PICK o \in Seq(Blocks \cup {None}) : o = refs[s]
  BY <1>1
<1>3. PICK t : t = [o EXCEPT ![m] = None]
  OBVIOUS
<1>4. m \in 1 .. Len(o) /\ None \in Blocks \cup {None} /\ DOMAIN o = 1 .. Len(o)
  BY <1>2, SeqIs
<1>5. /\ t \in Seq(Blocks \cup {None}) /\ Len(t) = Len(o)
      /\ \A j \in 1 .. Len(o) : t[j] = IF j = m THEN None ELSE o[j]
  BY <1>3, <1>4, ExceptSeq
<1>6. DOMAIN t = DOMAIN o
  BY <1>3
<1>7. refs' = [refs EXCEPT ![s] = t]
  BY <1>2, <1>3 DEF Erases
<1>8. /\ refs' \in [Blocks -> Seq(Blocks \cup {None})]
      /\ \A c \in Blocks : refs'[c] = IF c = s THEN t ELSE refs[c]
  BY <1>1, <1>5, <1>7
<1>9. \A c \in Blocks, j \in Nat :
         At(c, j)' = IF c = s /\ j = m THEN None ELSE At(c, j)
  <2> SUFFICES ASSUME NEW c \in Blocks, NEW j \in Nat
               PROVE  At(c, j)' = IF c = s /\ j = m THEN None ELSE At(c, j)
    OBVIOUS
  <2>1. CASE c # s
    BY <1>8, <2>1 DEF At
  <2>2. CASE c = s
    <3>1. At(c, j)' = IF j \in DOMAIN t THEN t[j] ELSE None
      BY <1>8, <2>2 DEF At
    <3>2. At(c, j) = IF j \in DOMAIN o THEN o[j] ELSE None
      BY <1>2, <2>2 DEF At
    <3> QED
      BY <1>4, <1>5, <1>6, <2>2, <3>1, <3>2
  <2> QED
    BY <2>1, <2>2
<1> QED
  BY <1>2, <1>5, <1>8, <1>9 DEF Erased

LEMMA ZeroRefKeeps ==
    ASSUME TypeOK, TreeInv, AtVictim, ~TopFreed, op.victim = None,
           NEW s \in Blocks, NEW m \in DOMAIN refs[s], NEW v \in Blocks, refs[s][m] = v,
           kind[s] = "seq" \/ s = VictimTop, Erases(s, m), op' = [op EXCEPT !.victim = v],
           UNCHANGED <<kind, ent, link, free, root, pc, walk, crashes>>
    PROVE  TypeOK' /\ TreeInv'
<1>1. /\ walk # <<>> /\ pc \in Allocating /\ pc # "dangling"
      /\ Top.dir \in Blocks /\ Top.at \in Idx /\ TopEntry = ent[Top.dir][Top.at]
      /\ VictimTop = To(Top.dir, Top.at) /\ VictimTop \in Blocks
      /\ TopEntry.reclaimable /\ Strict /\ kind[VictimTop] \in {"seq", "indir"}
  BY VictimIs
<1>2. /\ Shape /\ Contents /\ FreeErased /\ NoCycle /\ Owned /\ Collecting
      /\ Linked /\ One /\ Whole /\ Holds /\ Walks
      /\ \A x \in Blocks : NoParent(x) <=> Alone(x)
  BY <1>1, Before
<1>3. /\ refs' \in [Blocks -> Seq(Blocks \cup {None})]
      /\ \A c \in Blocks : Len(refs'[c]) = Len(refs[c]) /\ (c # s => refs'[c] = refs[c])
      /\ \A c \in Blocks, j \in Nat :
            At(c, j)' = IF c = s /\ j = m THEN None ELSE At(c, j)
  <2>1. Erased(s, m)
    BY RefErased
  <2> QED
    BY <2>1 DEF Erased
<1>4. m \in Nat /\ At(s, m) = v /\ v # None /\ refs[s] # <<>>
  <2>1. refs[s] \in Seq(Optional)
    BY <1>2 DEF Shape
  <2>2. DOMAIN refs[s] = 1 .. Len(refs[s]) /\ Len(refs[s]) \in Nat /\ refs[s] # <<>>
    BY <2>1, SeqIs
  <2> QED
    BY <2>2, Given DEF At
<1>5. kind[v] \in {"seq", "data"}
  <2>1. kind[At(s, m)] = IF kind[s] = "seq" THEN "data" ELSE "seq"
    BY <1>2, <1>4 DEF Linked
  <2> QED
    BY <1>4, <2>1
<1>6. kind[s] \in {"seq", "indir"}
  BY <1>1
<1>7. \A c \in Blocks, i \in Idx : To(c, i)' = To(c, i)
  BY DEF To
<1>8. /\ op'.call = op.call /\ op'.path = op.path /\ op'.dir = op.dir /\ op'.slot = op.slot
      /\ op'.block = op.block /\ op'.seq = op.seq /\ op'.victim = v
  BY DEF TypeOK
<1>9. TypeOK'
  <2>1. TreeTyped'
    BY <1>3 DEF TypeOK, TreeTyped
  <2>2. CallTyped'
    BY DEF TypeOK, CallTyped
  <2> QED
    BY <2>1, <2>2, TypedIs
<1>10. Contents' /\ FreeErased'
  <2>1. \A c \in Blocks : /\ kind[c] # "dir" => ent[c] = ErasedDir /\ link[c] = None
                          /\ kind[c] \notin {"seq", "indir"} => refs'[c] = <<>>
                          /\ kind[c] = "seq" => Len(refs'[c]) <= SeqEntries
                          /\ kind[c] = "indir" => Len(refs'[c]) <= IndirEntries
    BY <1>2, <1>3, <1>6 DEF Contents
  <2> QED
    BY <1>2, <2>1 DEF Contents, FreeErased
<1>11. NoCycle'
  <2>1. \A c \in Blocks : Kids(c)' \subseteq Kids(c)
    BY <1>7 DEF Kids
  <2> QED
    BY <1>2, <2>1, CyclesFewer
<1>12. One' /\ \A x \in Blocks : Alone(x) => Alone(x)'
  <2>1. \A c \in Blocks, j \in Nat : At(c, j)' \in {At(c, j), None}
    BY <1>3
  <2> QED
    BY <1>2, <1>7, <2>1, OneFewer
<1>13. Linked' /\ Strict'
  <2>1. \A c \in Blocks, j \in Nat : At(c, j)' # None =>
           kind[At(c, j)'] = IF kind[c] = "seq" THEN "data" ELSE "seq"
    BY <1>2, <1>3 DEF Linked
  <2>2. Linked'
    BY <1>2, <2>1 DEF Linked
  <2>3. Strict'
    BY <1>1, <1>7 DEF Strict, KindOf
  <2> QED
    BY <2>2, <2>3
\* What a live entry refers to is not s, unless that is a sequence block.
<1>14. ASSUME NEW c \in Blocks, NEW i \in Idx, To(c, i) # None, ~ent[c][i].reclaimable,
              kind[To(c, i)] = "indir"
       PROVE  refs'[To(c, i)] = refs[To(c, i)]
  <2>1. To(c, i) # s
    <3> SUFFICES ASSUME To(c, i) = s PROVE FALSE
      OBVIOUS
    <3>1. s = VictimTop
      BY <1>14
    <3>2. c = Top.dir /\ i = Top.at
      BY <1>1, <1>2, <1>14, <3>1 DEF One
    <3> QED
      BY <1>1, <1>14, <3>2
  <2>2. To(c, i) \in Blocks
    BY <1>2, <1>14 DEF Shape, Optional
  <2> QED
    BY <1>3, <2>1, <2>2
<1>15. Whole'
  <2> SUFFICES ASSUME NEW c \in Blocks, NEW i \in Idx,
                      ent[c][i].next # <<>>, ~ent[c][i].reclaimable,
                      kind[Last(ent[c][i].next)] = "indir",
                      NEW t, t = Last(ent[c][i].next)
               PROVE  refs'[t] # <<>> /\ \A j \in DOMAIN refs'[t] : refs'[t][j] # None
    BY DEF Whole
  <2>1. To(c, i) # None /\ To(c, i) = t
    BY <1>2 DEF Shape
  <2>2. refs'[t] = refs[t]
    BY <1>14, <2>1
  <2> QED
    BY <1>2, <2>2 DEF Whole
<1>16. Owned'
  BY <1>2, <1>8 DEF Owned, OwnedBy
<1>17. Alone(v)'
  <2>1. v # root /\ \A c \in Blocks : link[c] # v
    BY <1>2, <1>4, <1>5 DEF Linked
  <2>2. \A c \in Blocks, i \in Idx : To(c, i) # v
    BY <1>2, <1>4 DEF One
  <2>3. \A c \in Blocks, j \in Nat : At(c, j)' # v
    <3>1. \A c \in Blocks, j \in Nat : At(c, j) = v => c = s /\ j = m
      BY <1>2, <1>4 DEF One
    <3> QED
      BY <1>3, <1>4, <3>1
  <2> QED
    BY <1>7, <2>1, <2>2, <2>3 DEF Alone
<1>18. Holds' /\ v # op.block
  <2>1. CASE pc \in {"extend", "block"}
    <3>1. OpEntry' = OpEntry
      BY <1>8 DEF OpEntry
    <3>2. MakesEntry' /\ op.block = None
      BY <1>2, <1>8, <2>1, <3>1 DEF Holds, MakesEntry
    <3>3. Appends'
      BY <2>1 DEF Appends
    <3> QED
      BY <1>2, <1>4, <1>8, <2>1, <3>2, <3>3 DEF Holds
  <2>2. CASE pc \in {"data", "indir", "seq"}
    <3>1. /\ op.dir \in Blocks /\ op.slot \in Idx /\ op.seq \in Blocks /\ Appends
          /\ OpEntry = ent[op.dir][op.slot] /\ Live(OpEntry)
          /\ OpTop = To(op.dir, op.slot) /\ OpTop \in Blocks
          /\ kind[OpTop] = "indir" =>
                op.seq = At(OpTop, Len(refs[OpTop])) /\ refs[OpTop] # <<>>
      BY <1>1, <2>2, AppendIs
    <3>2. OpEntry' = OpEntry /\ OpTop' = OpTop
      BY <1>8 DEF OpEntry, OpTop
    <3>3. kind[OpTop] = "indir" => refs'[OpTop] = refs[OpTop]
      <4>1. PICK c \in Blocks, i \in Idx : c = op.dir /\ i = op.slot
        BY <3>1
      <4> QED
        BY <1>14, <3>1, <4>1, Given DEF Live
    <3>4. LastSeq(OpEntry)' = LastSeq(OpEntry)
      BY <3>2, <3>3 DEF LastSeq, OpTop
    <3>5. SeqFull(op.seq)' <=> SeqFull(op.seq)
      BY <1>3, <1>8, <3>1 DEF SeqFull
    <3>6. Len(refs'[OpTop]) = Len(refs[OpTop])
      BY <1>3, <3>1
    <3>7. op.block # None => NoParent(op.block)' /\ op.block # v
      <4> SUFFICES ASSUME op.block # None PROVE NoParent(op.block)' /\ op.block # v
        OBVIOUS
      <4>1. op.block \in Blocks /\ NoParent(op.block)
        BY <2>2, <3>1 DEF Appends, TypeOK
      <4>2. PICK x \in Blocks : x = op.block
        BY <4>1
      <4>3. Alone(x) /\ Alone(x)'
        BY <1>2, <1>12, <4>1, <4>2
      <4>4. NoParent(x)'
        BY <1>9, <4>3, AloneAfter
      <4>5. x # v
        BY <1>4, <4>3 DEF Alone
      <4> QED
        BY <1>8, <4>2, <4>4, <4>5 DEF NoParent
    <3>8. Live(OpEntry)'
      BY <3>1, <3>2 DEF Live
    <3>9. Appends'
      BY <1>8, <2>2, <3>1, <3>2, <3>4, <3>5, <3>6, <3>7, <3>8 DEF Appends
    <3>10. MakesEntry'
      BY <2>2 DEF MakesEntry
    <3>11. op.block = None => op.block # v
      BY <1>4
    <3> QED
      BY <1>2, <1>8, <2>2, <3>7, <3>9, <3>10, <3>11 DEF Holds
  <2> QED
    BY <1>1, <2>1, <2>2 DEF Allocating
<1>19. Collecting'
  BY <1>1 DEF Collecting
<1>20. Walks'
  <2>1. AtVictim' /\ ~TopFreed'
    BY DEF AtVictim, TopFreed, AtEntry, Top, TopEntry, HasNext, NextIsDir, VictimTop
  <2>2. NoParent(v)'
    BY <1>9, <1>17, AloneAfter
  <2>3. NoParent(op.victim)'
    BY <1>8, <2>2 DEF NoParent
  <2> QED
    BY <1>2, <1>5, <1>8, <1>18, <2>1, <2>3 DEF Walks
<1> QED
  BY <1>9, <1>10, <1>11, <1>12, <1>13, <1>15, <1>16, <1>18, <1>19, <1>20, AllTyped, After

LEMMA VictimSeqsAre ==
    ASSUME TypeOK, TreeInv, AtVictim, ~TopFreed, NEW s \in VictimSeqs
    PROVE  /\ s \in Blocks /\ kind[s] = "seq"
           /\ kind[VictimTop] = "indir" =>
                 /\ Min(SetRefs(VictimTop)) \in DOMAIN refs[VictimTop]
                 /\ refs[VictimTop][Min(SetRefs(VictimTop))] = s
<1>1. /\ VictimTop \in Blocks /\ pc # "dangling" /\ kind[VictimTop] \in {"seq", "indir"}
  BY VictimIs
<1>2. Shape /\ Linked
  BY <1>1, Before
<1>3. CASE kind[VictimTop] # "indir"
  BY <1>1, <1>3 DEF VictimSeqs
<1>4. CASE kind[VictimTop] = "indir"
  <2>1. PICK t \in Blocks : t = VictimTop
    BY <1>1
  <2>2. PICK i \in SetRefs(t) : i = Min(SetRefs(t)) /\ s = refs[t][i]
    BY <1>4, <2>1 DEF VictimSeqs
  <2>3. i \in DOMAIN refs[t] /\ s # None
    BY <2>2 DEF SetRefs
  <2>4. refs[t] \in Seq(Optional)
    BY <1>2 DEF Shape
  <2>5. i \in Nat /\ s \in Optional
    BY <2>2, <2>3, <2>4, SeqIs
  <2>6. At(t, i) = s
    BY <2>2, <2>3 DEF At
  <2>7. kind[At(t, i)] = "seq"
    BY <1>2, <1>4, <2>1, <2>3, <2>5, <2>6 DEF Linked
  <2> QED
    BY <2>1, <2>2, <2>3, <2>5, <2>6, <2>7 DEF Optional
<1> QED
  BY <1>3, <1>4

LEMMA FirstSetRef ==
    ASSUME TypeOK, NEW b \in Blocks, SetRefs(b) # {}
    PROVE  /\ Min(SetRefs(b)) \in DOMAIN refs[b] /\ refs[b][Min(SetRefs(b))] \in Blocks
<1>1. refs[b] \in Seq(Optional)
  BY ShapeHolds DEF Shape
<1>2. DOMAIN refs[b] \subseteq Nat /\ \A j \in DOMAIN refs[b] : refs[b][j] \in Optional
  BY <1>1, SeqIs
<1>3. SetRefs(b) \subseteq Nat
  BY <1>2 DEF SetRefs
<1>4. Min(SetRefs(b)) \in SetRefs(b)
  BY <1>3, LeastElement
<1> QED
  BY <1>2, <1>4 DEF SetRefs, Optional

\* A file has no data reference left when its first block has been freed.
LEMMA DataRefBelow ==
    ASSUME TypeOK, TreeInv, ZeroDataRef PROVE AtVictim /\ ~TopFreed
<1>1. AtVictim /\ \E s \in VictimSeqs : SetRefs(s) # {}
  BY DEF ZeroDataRef
<1> SUFFICES ASSUME TopFreed PROVE FALSE
  BY <1>1
<1>2. VictimTop \in Blocks /\ kind[VictimTop] = "erased" /\ pc # "dangling"
  BY <1>1, VictimIs DEF TopFreed
<1>3. refs[VictimTop] = <<>>
  BY <1>2, Before DEF Contents
<1>4. VictimSeqs = {VictimTop}
  BY <1>2 DEF VictimSeqs
<1> QED
  BY <1>1, <1>3, <1>4 DEF SetRefs

LEMMA ZeroDataRefKeeps ==
    ASSUME TypeOK, TreeInv, ZeroDataRef PROVE TypeOK' /\ TreeInv'
<1>1. /\ AtVictim /\ op.victim = None
      /\ UNCHANGED <<kind, ent, link, free, root, pc, walk, crashes>>
  BY DEF ZeroDataRef
<1>2. PICK s \in VictimSeqs :
         /\ SetRefs(s) # {}
         /\ refs' = [refs EXCEPT ![s][Min(SetRefs(s))] = None]
         /\ op' = [op EXCEPT !.victim = refs[s][Min(SetRefs(s))]]
  BY DEF ZeroDataRef
<1>3. ~TopFreed
  BY DataRefBelow
<1>4. s \in Blocks /\ kind[s] = "seq"
  BY <1>1, <1>3, VictimSeqsAre
<1>5. Min(SetRefs(s)) \in DOMAIN refs[s] /\ refs[s][Min(SetRefs(s))] \in Blocks
  BY <1>2, <1>4, FirstSetRef
<1>6. PICK m \in DOMAIN refs[s], v \in Blocks : m = Min(SetRefs(s)) /\ v = refs[s][m]
  BY <1>5
<1>7. Erases(s, m) /\ op' = [op EXCEPT !.victim = v]
  BY <1>2, <1>6 DEF Erases
<1> QED
  BY <1>1, <1>3, <1>4, <1>6, <1>7, ZeroRefKeeps

LEMMA ZeroSeqRefKeeps ==
    ASSUME TypeOK, TreeInv, ZeroSeqRef PROVE TypeOK' /\ TreeInv'
<1>1. /\ AtVictim /\ op.victim = None /\ kind[VictimTop] = "indir"
      /\ UNCHANGED <<kind, ent, link, free, root, pc, walk, crashes>>
  BY DEF ZeroSeqRef
<1>2. PICK v \in VictimSeqs :
         /\ refs' = [refs EXCEPT ![VictimTop][Min(SetRefs(VictimTop))] = None]
         /\ op' = [op EXCEPT !.victim = v]
  BY DEF ZeroSeqRef
<1>3. ~TopFreed
  BY <1>1 DEF TopFreed
<1>4. /\ v \in Blocks /\ Min(SetRefs(VictimTop)) \in DOMAIN refs[VictimTop]
      /\ refs[VictimTop][Min(SetRefs(VictimTop))] = v /\ VictimTop \in Blocks
  BY <1>1, <1>3, VictimSeqsAre, VictimIs
<1>5. PICK s \in Blocks : s = VictimTop
  BY <1>4
<1>5a. PICK m \in DOMAIN refs[s] : m = Min(SetRefs(VictimTop)) /\ refs[s][m] = v
  BY <1>4, <1>5
<1>6. Erases(s, m)
  BY <1>2, <1>5, <1>5a DEF Erases
<1> QED
  BY <1>1, <1>2, <1>3, <1>4, <1>5, <1>5a, <1>6, ZeroRefKeeps

\* The queue with one more block, which was not in it
LEMMA Enqueued ==
    ASSUME NEW S, NEW q \in Seq(S), IsInjective(q), NEW x \in S, x \notin ToSet(q),
           NEW t, t = Append(q, x)
    PROVE  t \in Seq(S) /\ IsInjective(t) /\ \A b \in ToSet(t) : b = x \/ b \in ToSet(q)
<1>1. /\ t \in Seq(S) /\ DOMAIN t = DOMAIN q \cup {Len(q) + 1} /\ Len(q) + 1 \notin DOMAIN q
      /\ t[Len(q) + 1] = x /\ \A i \in DOMAIN q : t[i] = q[i]
  BY Appended
<1>2. \A i \in DOMAIN q : q[i] \in ToSet(q)
  BY DEF ToSet
<1>3. \A i, j \in DOMAIN t : t[i] = t[j] => i = j
  BY <1>1, <1>2 DEF IsInjective
<1>4. \A b \in ToSet(t) : b = x \/ b \in ToSet(q)
  BY <1>1, <1>2 DEF ToSet
<1> QED
  BY <1>1, <1>3, <1>4 DEF IsInjective

\* Whole, of the entries of an unchanged directory, with a name for each top
LEMMA WholeAfter ==
    ASSUME UNCHANGED ent,
           \A c \in Blocks, i \in Idx : \A t :
              /\ t = Last(ent[c][i].next) /\ ent[c][i].next # <<>> /\ ~ent[c][i].reclaimable
              /\ kind'[t] = "indir"
              => refs'[t] # <<>> /\ \A j \in DOMAIN refs'[t] : refs'[t][j] # None
    PROVE  Whole'
BY DEF Whole

\* What a call refers to in the middle of an allocation, no collection frees.
LEMMA FreedKeeps ==
    ASSUME TypeOK, TreeInv, walk # <<>>, Strict, NEW x \in Blocks, kind[x] \notin {"dir", "erased"},
           \A c \in Blocks, j \in Nat : At(c, j) # x,
           \A c \in Blocks, i \in Idx : To(c, i) = x =>
              ent[c][i].reclaimable /\ Emptied' /\ c = Top.dir /\ i = Top.at,
           x # op.block, Free(x), refs' = [refs EXCEPT ![x] = <<>>],
           op' = [op EXCEPT !.victim = None], UNCHANGED <<ent, link, root, pc, walk, crashes>>
    PROVE  TypeOK' /\ TreeInv'
<1>1. pc \in Allocating /\ pc # "dangling" /\ WayDown(walk) /\ DOMAIN walk = 1 .. Len(walk)
  BY InWalk DEF Allocating
<1>2. /\ Shape /\ Contents /\ FreeErased /\ NoCycle /\ Owned /\ Collecting
      /\ Linked /\ One /\ Whole /\ Holds /\ Walks
      /\ \A y \in Blocks : NoParent(y) <=> Alone(y)
  BY <1>1, Before
<1>3. /\ kind' \in [Blocks -> {"erased", "dir", "seq", "indir", "data"}]
      /\ \A c \in Blocks : kind'[c] = IF c = x THEN "erased" ELSE kind[c]
  BY DEF TypeOK, Free
<1>4. /\ refs' \in [Blocks -> Seq(Blocks \cup {None})]
      /\ \A c \in Blocks : refs'[c] = IF c = x THEN <<>> ELSE refs[c]
  BY DEF TypeOK
<1>5. /\ free' \in Seq(Blocks) /\ IsInjective(free')
      /\ \A b \in ToSet(free') : b = x \/ b \in ToSet(free)
  <2>1. free \in Seq(Blocks) /\ IsInjective(free) /\ x \notin ToSet(free)
    BY <1>2 DEF TypeOK, FreeErased
  <2>2. free' = Append(free, x)
    BY DEF Free
  <2> QED
    BY <2>1, <2>2, Enqueued
<1>6. /\ op'.call = op.call /\ op'.path = op.path /\ op'.dir = op.dir /\ op'.slot = op.slot
      /\ op'.block = op.block /\ op'.seq = op.seq /\ op'.victim = None
  BY DEF TypeOK
<1>7. \A c \in Blocks, i \in Idx : To(c, i)' = To(c, i)
  BY DEF To
<1>8. \A c \in Blocks, j \in Nat : At(c, j)' = IF c = x THEN None ELSE At(c, j)
  BY <1>4 DEF At
<1>9. TypeOK'
  <2>1. Len(<<>>) = 0 /\ 0 <= MaxRefs
    BY MostOfTwo
  <2>2. \A c \in Blocks : Len(refs'[c]) <= MaxRefs
    BY <1>4, <2>1 DEF TypeOK
  <2>3. TreeTyped'
    BY <1>3, <1>4, <1>5, <2>2 DEF TypeOK, TreeTyped
  <2>4. CallTyped'
    BY DEF TypeOK, CallTyped
  <2> QED
    BY <2>3, <2>4, TypedIs
<1>10. Contents' /\ FreeErased'
  <2>1. \A c \in Blocks : /\ kind'[c] # "dir" => ent[c] = ErasedDir /\ link[c] = None
                          /\ kind'[c] \notin {"seq", "indir"} => refs'[c] = <<>>
                          /\ kind'[c] = "seq" => Len(refs'[c]) <= SeqEntries
                          /\ kind'[c] = "indir" => Len(refs'[c]) <= IndirEntries
    BY <1>2, <1>3, <1>4 DEF Contents
  <2>2. \A b \in ToSet(free') : kind'[b] = "erased"
    <3>1. \A b \in ToSet(free) : b \in Blocks /\ kind[b] = "erased"
      <4>1. free \in Seq(Blocks)
        BY DEF TypeOK
      <4>2. \A i \in DOMAIN free : free[i] \in Blocks
        BY <4>1, SeqIs
      <4> QED
        BY <1>2, <4>2 DEF FreeErased, ToSet
    <3> QED
      BY <1>3, <1>5, <3>1
  <2> QED
    BY <1>2, <1>5, <2>1, <2>2 DEF Contents, FreeErased
<1>11. NoCycle'
  <2>1. \A c \in Blocks : Kids(c)' \subseteq Kids(c)
    BY <1>7 DEF Kids
  <2> QED
    BY <1>2, <2>1, CyclesFewer
<1>12. One' /\ \A y \in Blocks : Alone(y) => Alone(y)'
  <2>1. \A c \in Blocks, j \in Nat : At(c, j)' \in {At(c, j), None}
    BY <1>8
  <2> QED
    BY <1>2, <1>7, <2>1, OneFewer
<1>13. Linked'
  <2>1. \A c \in Blocks, j \in Nat : At(c, j)' # None =>
           kind'[At(c, j)'] = IF kind'[c] = "seq" THEN "data" ELSE "seq"
    <3> SUFFICES ASSUME NEW c \in Blocks, NEW j \in Nat, At(c, j)' # None
                 PROVE  kind'[At(c, j)'] = IF kind'[c] = "seq" THEN "data" ELSE "seq"
      OBVIOUS
    <3>1. c # x /\ At(c, j)' = At(c, j) /\ At(c, j) # x /\ At(c, j) \in Blocks
      <4>1. c # x /\ At(c, j)' = At(c, j) /\ At(c, j) # x
        BY <1>8
      <4>2. At(c, j) \in Optional
        BY <1>2 DEF Shape
      <4> QED
        BY <4>1, <4>2 DEF Optional
    <3>2. kind[At(c, j)] = IF kind[c] = "seq" THEN "data" ELSE "seq"
      BY <1>2, <3>1, Given DEF Linked
    <3> QED
      BY <1>3, <3>1, <3>2
  <2>2. \A c \in Blocks : link[c] # None => kind'[link[c]] = "dir"
    BY <1>2, <1>3 DEF Linked, Shape, Optional
  <2>3. kind'[root] = "dir"
    BY <1>2, <1>3 DEF Linked, TypeOK
  <2> QED
    BY <2>1, <2>2, <2>3 DEF Linked
<1>14. Typed'
  <2>1. \A c \in Blocks, i \in Idx : To(c, i) # None =>
           kind'[To(c, i)] = KindOf(ent[c][i]) \/ (Emptied' /\ c = Top.dir /\ i = Top.at)
    <3> SUFFICES ASSUME NEW c \in Blocks, NEW i \in Idx, To(c, i) # None, To(c, i) # x
                 PROVE  kind'[To(c, i)] = KindOf(ent[c][i])
      OBVIOUS
    <3>1. To(c, i) \in Blocks
      BY <1>2 DEF Shape, Optional
    <3> QED
      BY <1>3, <3>1 DEF Strict
  <2>2. Top' = Top
    BY DEF Top
  <2> QED
    BY <1>7, <1>13, <2>1, <2>2 DEF Typed, KindOf
\* What a live entry refers to is not x.
<1>15. ASSUME NEW c \in Blocks, NEW i \in Idx, To(c, i) # None, ~ent[c][i].reclaimable
       PROVE  kind'[To(c, i)] = kind[To(c, i)] /\ refs'[To(c, i)] = refs[To(c, i)]
  <2>1. To(c, i) # x
    BY <1>15
  <2>2. To(c, i) \in Blocks
    BY <1>2, <1>15 DEF Shape, Optional
  <2> QED
    BY <1>3, <1>4, <2>1, <2>2
<1>16. Whole'
  <2>1. ASSUME NEW c \in Blocks, NEW i \in Idx, NEW t, t = Last(ent[c][i].next),
               ent[c][i].next # <<>>, ~ent[c][i].reclaimable, kind'[t] = "indir"
        PROVE  refs'[t] # <<>> /\ \A j \in DOMAIN refs'[t] : refs'[t][j] # None
    <3>1. To(c, i) # None /\ To(c, i) = t
      BY <1>2, <2>1 DEF Shape
    <3>2. refs'[t] = refs[t] /\ kind[t] = "indir"
      BY <1>15, <2>1, <3>1
    <3>3. refs[t] # <<>> /\ \A j \in DOMAIN refs[t] : refs[t][j] # None
      BY <1>2, <2>1, <3>2 DEF Whole
    <3> QED
      BY <3>2, <3>3
  <2> QED
    BY <2>1, WholeAfter
<1>17. Owned'
  BY <1>2, <1>6 DEF Owned, OwnedBy
<1>18. Holds'
  <2>1. op.dir # None => kind'[op.dir] = "dir"
    BY <1>2, <1>3 DEF Holds, TypeOK
  <2>2. op.block # None => kind'[op.block] \in {"dir", "seq", "data"}
    BY <1>2, <1>3 DEF Holds, TypeOK
  <2>3. CASE pc \in {"extend", "block"}
    <3>1. OpEntry' = OpEntry
      BY <1>6 DEF OpEntry
    <3>2. MakesEntry' /\ op.seq = None
      BY <1>2, <1>6, <2>3, <3>1 DEF Holds, MakesEntry
    <3>3. Appends'
      BY <2>3 DEF Appends
    <3> QED
      BY <1>6, <2>1, <2>2, <2>3, <3>2, <3>3 DEF Holds
  <2>4. CASE pc \in {"data", "indir", "seq"}
    <3>1. /\ op.dir \in Blocks /\ op.slot \in Idx /\ op.seq \in Blocks /\ Appends
          /\ OpEntry = ent[op.dir][op.slot] /\ Live(OpEntry) /\ kind[op.seq] = "seq"
          /\ OpTop = To(op.dir, op.slot) /\ OpTop \in Blocks
          /\ kind[OpTop] = IF Len(OpEntry.next) = 1 THEN "seq" ELSE "indir"
          /\ kind[OpTop] = "seq" => op.seq = OpTop
          /\ kind[OpTop] = "indir" =>
                op.seq = At(OpTop, Len(refs[OpTop])) /\ refs[OpTop] # <<>>
      BY <1>1, <2>4, AppendIs
    <3>2. OpEntry' = OpEntry /\ OpTop' = OpTop
      BY <1>6 DEF OpEntry, OpTop
    <3>3. kind'[OpTop] = kind[OpTop] /\ refs'[OpTop] = refs[OpTop]
      <4>1. PICK c \in Blocks, i \in Idx : c = op.dir /\ i = op.slot
        BY <3>1
      <4> QED
        BY <1>15, <3>1, <4>1, Given DEF Live
    <3>4. op.seq # x
      <4>1. CASE kind[OpTop] = "seq"
        BY <1>3, <3>1, <3>3, <4>1
      <4>2. CASE kind[OpTop] = "indir"
        <5>1. refs[OpTop] \in Seq(Optional)
          BY <1>2, <3>1 DEF Shape
        <5>2. Len(refs[OpTop]) \in Nat
          BY <5>1, SeqIs
        <5> QED
          BY <3>1, <4>2, <5>2
      <4> QED
        BY <3>1, <4>1, <4>2
    <3>5. kind'[op.seq] = "seq" /\ refs'[op.seq] = refs[op.seq]
      BY <1>3, <1>4, <3>1, <3>4
    <3>6. LastSeq(OpEntry)' = LastSeq(OpEntry)
      BY <3>2, <3>3 DEF LastSeq, OpTop
    <3>7. SeqFull(op.seq)' <=> SeqFull(op.seq)
      BY <1>6, <3>5 DEF SeqFull
    <3>8. op.block # None => NoParent(op.block)' /\ kind'[op.block] = kind[op.block]
      <4> SUFFICES ASSUME op.block # None
                   PROVE  NoParent(op.block)' /\ kind'[op.block] = kind[op.block]
        OBVIOUS
      <4>1. op.block \in Blocks /\ NoParent(op.block)
        BY <2>4, <3>1 DEF Appends, TypeOK
      <4>2. PICK y \in Blocks : y = op.block
        BY <4>1
      <4>3. NoParent(y)'
        BY <1>2, <1>9, <1>12, <4>1, <4>2, AloneAfter
      <4> QED
        BY <1>3, <1>6, <4>2, <4>3 DEF NoParent
    <3>9. Live(OpEntry)'
      BY <3>1, <3>2 DEF Live
    <3>10. Appends'
      BY <1>6, <2>4, <3>1, <3>2, <3>3, <3>6, <3>7, <3>8, <3>9 DEF Appends
    <3>11. MakesEntry'
      BY <2>4 DEF MakesEntry
    <3> QED
      BY <1>6, <2>1, <2>2, <2>4, <3>5, <3>10, <3>11 DEF Holds
  <2> QED
    BY <1>1, <2>3, <2>4 DEF Allocating
<1>19. Collecting'
  BY <1>1 DEF Collecting
<1>20. Walks'
  <2>1. walk[1].dir = root /\ DOMAIN walk = 1 .. Len(walk)
    BY <1>1 DEF WayDown
  <2>2. ASSUME NEW i \in DOMAIN walk, i < Len(walk)
        PROVE  LET e == ent[walk[i].dir][walk[i].at] IN
               /\ walk[i].at > 0 /\ e.next # <<>> /\ ~e.reclaimable
               /\ Last(e.next) = walk[i + 1].dir /\ kind'[walk[i + 1].dir] = "dir"
    <3>1. LET e == ent[walk[i].dir][walk[i].at] IN
          /\ walk[i].at > 0 /\ e.next # <<>> /\ ~e.reclaimable
          /\ Last(e.next) = walk[i + 1].dir /\ kind[walk[i + 1].dir] = "dir"
      BY <1>1, <2>2 DEF WayDown
    <3>2. walk[i + 1].dir \in Blocks
      <4>1. Len(walk) \in Nat /\ \A j \in DOMAIN walk : walk[j] \in Frames
        BY InWalk
      <4>2. i + 1 \in DOMAIN walk
        BY <2>1, <2>2, <4>1
      <4> QED
        BY <4>1, <4>2 DEF Frames
    <3> QED
      BY <1>3, <3>1, <3>2
  <2> QED
    BY <1>6, <2>1, <2>2 DEF Walks
<1> QED
  BY <1>9, <1>10, <1>11, <1>12, <1>14, <1>16, <1>17, <1>18, <1>19, <1>20, After

LEMMA FreeVictimKeeps ==
    ASSUME TypeOK, TreeInv, FreeVictim PROVE TypeOK' /\ TreeInv'
<1>1. /\ op.victim # None /\ Free(op.victim) /\ refs' = [refs EXCEPT ![op.victim] = <<>>]
      /\ op' = [op EXCEPT !.victim = None] /\ UNCHANGED <<ent, link, root, pc, walk, crashes>>
  BY DEF FreeVictim
<1>2. Collecting
  BY DEF TreeInv
<1>3. walk # <<>>
  BY <1>1, <1>2 DEF Collecting
<1>4. pc # "dangling" /\ Walks
  BY <1>3, InWalk DEF Allocating
<1>5. PICK x \in Blocks : x = op.victim
  BY <1>1 DEF TypeOK
<1>6. AtVictim /\ ~TopFreed /\ x # op.block /\ kind[x] \in {"seq", "data"} /\ NoParent(x)
  BY <1>1, <1>4, <1>5 DEF Walks
<1>7. Alone(x) /\ Strict
  BY <1>4, <1>6, Before, VictimIs
<1>8. /\ \A c \in Blocks, j \in Nat : At(c, j) # x
      /\ \A c \in Blocks, i \in Idx : To(c, i) # x
  BY <1>7 DEF Alone
<1>9. Free(x) /\ refs' = [refs EXCEPT ![x] = <<>>]
  BY <1>1, <1>5
<1> QED
  BY <1>1, <1>3, <1>6, <1>7, <1>8, <1>9, FreedKeeps

LEMMA FreeTopKeeps ==
    ASSUME TypeOK, TreeInv, FreeTop PROVE TypeOK' /\ TreeInv'
<1>1. /\ AtVictim /\ ~TopFreed /\ op.victim = None /\ Free(VictimTop)
      /\ refs' = [refs EXCEPT ![VictimTop] = <<>>]
      /\ UNCHANGED <<ent, link, root, pc, op, walk, crashes>>
  BY DEF FreeTop
<1>2. /\ walk # <<>> /\ pc \in Allocating /\ pc # "dangling"
      /\ Top.dir \in Blocks /\ Top.at \in Idx /\ TopEntry = ent[Top.dir][Top.at]
      /\ VictimTop = To(Top.dir, Top.at) /\ VictimTop \in Blocks
      /\ TopEntry.reclaimable /\ Strict /\ kind[VictimTop] \in {"seq", "indir"}
  BY <1>1, VictimIs
<1>3. PICK x \in Blocks, d \in Blocks, s \in Idx : x = VictimTop /\ d = Top.dir /\ s = Top.at
  BY <1>2
<1>4. One /\ Holds /\ \A y \in Blocks : NoParent(y) <=> Alone(y)
  BY <1>2, Before
<1>5. To(d, s) = x /\ x # None /\ ent[d][s].reclaimable
  BY <1>2, <1>3, Given
<1>6. /\ \A c \in Blocks, j \in Nat : At(c, j) # x
      /\ \A c \in Blocks, i \in Idx : To(c, i) = x => c = d /\ i = s
  BY <1>4, <1>5 DEF One
<1>7. Emptied'
  <2>1. Top' = Top /\ TopEntry' = TopEntry /\ VictimTop' = VictimTop
    BY <1>1 DEF Top, TopEntry, VictimTop
  <2>2. kind'[VictimTop] = "erased"
    BY <1>1, <1>2 DEF Free, TypeOK
  <2>3. AtVictim'
    BY <1>1, <2>1, <2>2 DEF AtVictim, AtEntry, HasNext, NextIsDir, VictimTop
  <2> QED
    BY <1>1, <2>1, <2>2, <2>3 DEF Emptied, TopFreed
<1>8. x # op.block
  <2>1. CASE pc \in {"extend", "block", "data"}
    BY <1>4, <1>5, <2>1 DEF Holds, MakesEntry, Appends
  <2>2. CASE pc \in {"indir", "seq"}
    <3>1. kind[op.block] = "data"
      BY <1>4, <2>2 DEF Holds, Appends
    <3> QED
      BY <1>2, <1>3, <3>1
  <2> QED
    BY <1>2, <2>1, <2>2 DEF Allocating
<1>9. op' = [op EXCEPT !.victim = None]
  BY <1>1 DEF TypeOK
<1>10. /\ Free(x) /\ refs' = [refs EXCEPT ![x] = <<>>]
       /\ UNCHANGED <<ent, link, root, pc, walk, crashes>>
  BY <1>1, <1>3
<1>11. \A c \in Blocks, i \in Idx : To(c, i) = x =>
          ent[c][i].reclaimable /\ Emptied' /\ c = Top.dir /\ i = Top.at
  BY <1>3, <1>5, <1>6, <1>7
<1>12. kind[x] \notin {"dir", "erased"}
  BY <1>2, <1>3
<1> QED
  BY <1>2, <1>6, <1>8, <1>9, <1>10, <1>11, <1>12, FreedKeeps

LEMMA ZeroEntryKeeps ==
    ASSUME TypeOK, TreeInv, ZeroEntry PROVE TypeOK' /\ TreeInv'
<1>1. /\ TopFreed /\ AtVictim /\ ent' = [ent EXCEPT ![Top.dir][Top.at] = ZeroedEntry(@)]
      /\ walk' = <<>> /\ UNCHANGED <<kind, link, refs, free, root, pc, op, crashes>>
  BY DEF ZeroEntry, TopFreed
<1>2. /\ walk # <<>> /\ pc \in Allocating /\ pc # "dangling"
      /\ Top.dir \in Blocks /\ Top.at \in Idx /\ TopEntry = ent[Top.dir][Top.at]
      /\ TopEntry.reclaimable /\ kind[Top.dir] = "dir" /\ TopEntry.next # <<>>
  BY <1>1, VictimIs
<1>3. /\ Shape /\ Contents /\ FreeErased /\ NoCycle /\ Owned
      /\ Typed /\ Linked /\ One /\ Whole /\ Holds /\ Walks
      /\ \A x \in Blocks : NoParent(x) <=> Alone(x)
  BY <1>2, Before
<1>4. op.victim = None
  BY <1>1, <1>3 DEF Walks
<1>5. PICK d \in Blocks, s \in Idx : d = Top.dir /\ s = Top.at
  BY <1>2
<1>6. kind[d] = "dir" /\ ent[d][s].reclaimable /\ ent[d][s].next # <<>> /\ ent[d][s] \in Entry
  BY <1>2, <1>3, <1>5 DEF Shape
<1>7. PICK e : e = ZeroedEntry(ent[d][s])
  OBVIOUS
<1>8. /\ e.used = ent[d][s].used /\ e.committed = ent[d][s].committed
      /\ e.reclaimable = ent[d][s].reclaimable /\ e.path = Zeroed /\ e.next = <<>> /\ e \in Entry
  <2>1. PICK o \in Entry : o = ent[d][s]
    BY <1>6
  <2>2. <<>> \in Seq(Blocks)
    OBVIOUS
  <2>3. e = [o EXCEPT !.path = Zeroed, !.next = <<>>]
    BY <1>7, <2>1 DEF ZeroedEntry
  <2>4. /\ e.used = o.used /\ e.committed = o.committed /\ e.reclaimable = o.reclaimable
        /\ e.path = Zeroed /\ e.next = <<>> /\ e \in Entry
    BY <2>2, <2>3 DEF Entry
  <2> QED
    BY <2>1, <2>4
<1>9. Sound(e) /\ Target(e) = None
  <2>1. ent[d][s].used
    BY <1>3, <1>6 DEF Contents, BlankEntry
  <2> QED
    BY <1>6, <1>8, <2>1, Given DEF Sound, Target
<1>10. Writes(d, s, e)
  BY <1>1, <1>5, <1>7 DEF Writes
<1>11. /\ TreeTyped' /\ Contents' /\ FreeErased' /\ Linked'
       /\ \A b \in Blocks, j \in Nat : At(b, j)' = At(b, j)
  BY <1>1, <1>3, <1>6, <1>9, <1>10, EntryChanged
<1>12. /\ \A b \in Blocks, i \in Idx : ent'[b][i] = IF b = d /\ i = s THEN e ELSE ent[b][i]
       /\ \A b \in Blocks, i \in Idx : To(b, i)' = IF b = d /\ i = s THEN None ELSE To(b, i)
  BY <1>9, <1>10, EntryWritten
<1>13. TypeOK'
  <2>1. CallTyped'
    BY <1>1 DEF TypeOK, CallTyped
  <2> QED
    BY <1>11, <2>1, TypedIs
<1>14. NoCycle'
  <2>1. \A b \in Blocks : Kids(b)' \subseteq Kids(b)
    BY <1>1, <1>12, Given DEF Kids
  <2> QED
    BY <1>3, <2>1, CyclesFewer
<1>15. One' /\ \A x \in Blocks : Alone(x) => Alone(x)'
  BY <1>1, <1>3, <1>11, <1>12, OneFewer
<1>16. Strict'
  <2> SUFFICES ASSUME NEW b \in Blocks, NEW i \in Idx, To(b, i)' # None
               PROVE  kind[To(b, i)'] = KindOf(ent'[b][i])
    BY <1>1 DEF Strict, KindOf
  <2>1. ~(b = d /\ i = s) /\ To(b, i)' = To(b, i) /\ ent'[b][i] = ent[b][i]
    BY <1>12
  <2> QED
    BY <1>3, <1>5, <2>1 DEF Typed, KindOf
<1>17. Whole'
  <2> SUFFICES ASSUME NEW b \in Blocks, NEW i \in Idx,
                      ent'[b][i].next # <<>>, ~ent'[b][i].reclaimable,
                      kind[Last(ent'[b][i].next)] = "indir"
               PROVE  LET top == Last(ent'[b][i].next) IN
                      refs[top] # <<>> /\ \A j \in DOMAIN refs[top] : refs[top][j] # None
    BY <1>1 DEF Whole
  <2>1. ent'[b][i] = ent[b][i]
    BY <1>8, <1>12
  <2> QED
    BY <1>3, <2>1 DEF Whole
<1>18. Owned'
  <2>1. PICK own \in [Blocks -> Dirs \cup {Root}] : OwnedBy(own)
    BY <1>3 DEF Owned
  <2>2. \A b \in Blocks, i \in Idx :
          /\ ent'[b][i].path \in Paths => Home[ent'[b][i].path] = own[b]
          /\ ent'[b][i].path \in Dirs => own[Last(ent'[b][i].next)] = ent'[b][i].path
    BY <1>8, <1>12, <2>1, Given DEF OwnedBy
  <2>3. OwnedBy(own)'
    BY <1>1, <2>1, <2>2 DEF OwnedBy
  <2> QED
    BY <2>3 DEF Owned
<1>19. Holds'
  <2>1. CASE pc \in {"extend", "block"}
    <3>1. pc = "block" => OpEntry' = BlankEntry
      <4> SUFFICES ASSUME pc = "block" PROVE OpEntry' = BlankEntry
        OBVIOUS
      <4>1. OpEntry = BlankEntry /\ op.dir \in Blocks /\ op.slot \in Idx
        BY <1>3 DEF Holds, MakesEntry, TypeOK
      <4>2. ~(op.dir = d /\ op.slot = s)
        BY <1>6, <4>1 DEF OpEntry, BlankEntry
      <4> QED
        BY <1>1, <1>12, <4>1, <4>2 DEF OpEntry
    <3>2. MakesEntry'
      BY <1>1, <1>3, <2>1, <3>1 DEF Holds, MakesEntry
    <3>3. Appends'
      BY <1>1, <2>1 DEF Appends
    <3> QED
      BY <1>1, <1>3, <3>2, <3>3 DEF Holds
  <2>2. CASE pc \in {"data", "indir", "seq"}
    <3>1. op.dir \in Blocks /\ op.slot \in Idx /\ Appends /\ Live(OpEntry)
      BY <1>3, <2>2 DEF Holds, Appends, TypeOK
    <3>2. ~(op.dir = d /\ op.slot = s)
      BY <1>6, <3>1 DEF OpEntry, Live
    <3>3. OpEntry' = OpEntry
      BY <1>1, <1>12, <3>1, <3>2 DEF OpEntry
    <3>4. OpTop' = OpTop /\ LastSeq(OpEntry)' = LastSeq(OpEntry) /\ Live(OpEntry)'
      BY <1>1, <3>1, <3>3 DEF OpTop, LastSeq, Live
    <3>5. op.block # None => NoParent(op.block)'
      <4> SUFFICES ASSUME op.block # None PROVE NoParent(op.block)'
        OBVIOUS
      <4>1. op.block \in Blocks /\ NoParent(op.block)
        BY <2>2, <3>1 DEF Appends, TypeOK
      <4>2. PICK y \in Blocks : y = op.block
        BY <4>1
      <4>3. NoParent(y)'
        BY <1>3, <1>13, <1>15, <4>1, <4>2, AloneAfter
      <4> QED
        BY <1>1, <4>2, <4>3 DEF NoParent
    <3>6. Appends'
      BY <1>1, <2>2, <3>1, <3>3, <3>4, <3>5 DEF Appends, SeqFull
    <3>7. MakesEntry'
      BY <1>1, <2>2 DEF MakesEntry
    <3> QED
      BY <1>1, <1>3, <3>6, <3>7 DEF Holds
  <2> QED
    BY <1>2, <2>1, <2>2 DEF Allocating
<1>20. Collecting' /\ Walks'
  BY <1>1, <1>4, NotCollectingAfter
<1> QED
  BY <1>11, <1>13, <1>14, <1>15, <1>16, <1>17, <1>18, <1>19, <1>20, AllTyped, After

-----------------------------------------------------------------------------
(***************************************************************************)
(* Steps of the collector that free a block of a directory.                *)
(***************************************************************************)
\* An entry, in use or not, as it may be on the flash
Fit(e) ==
    /\ e \in Entry
    /\ \/ e.path \in {Blank, Zeroed} /\ e.next = <<>>
       \/ e.path \in Paths /\ Len(e.next) \in 1 .. 2
    /\ ~e.used => e = BlankEntry
    /\ e.committed => e.path # Blank
    /\ e.path = Zeroed => e.reclaimable

LEMMA BlankIsFit == Fit(BlankEntry)
<1>1. <<>> \in Seq(Blocks)
  OBVIOUS
<1>2. BlankEntry \in Entry
  BY <1>1 DEF BlankEntry, Entry
<1> QED
  BY <1>2, Given DEF BlankEntry, Fit

LEMMA EntriesFit ==
    ASSUME TypeOK, Contents, NEW b \in Blocks, NEW i \in Idx PROVE Fit(ent[b][i])
<1>1. ent[b][i] \in Entry
  BY DEF TypeOK
<1>2. \/ ent[b][i].path \in {Blank, Zeroed} /\ ent[b][i].next = <<>>
      \/ ent[b][i].path \in Paths /\ Len(ent[b][i].next) \in 1 .. 2
  BY DEF TypeOK
<1> QED
  BY <1>1, <1>2 DEF Fit, Contents

LEMMA DirBlockFreed ==
    ASSUME TypeOK, Contents, FreeErased, NEW b \in Blocks, kind[b] = "dir", FreeDirBlock(b),
           refs' = refs, root' \in Blocks, ent' \in [Blocks -> [Idx -> Entry]], ent'[b] = ErasedDir,
           \A x \in Blocks : kind[x] # "dir" => ent'[x] = ent[x],
           \A x \in Blocks, i \in Idx : Fit(ent'[x][i])
    PROVE  /\ TreeTyped' /\ Contents' /\ FreeErased'
           /\ \A x \in Blocks : kind'[x] = IF x = b THEN "erased" ELSE kind[x]
           /\ \A x \in Blocks : link'[x] = IF x = b THEN None ELSE link[x]
           /\ \A x \in Blocks, j \in Nat : At(x, j)' = At(x, j)
<1>1. /\ kind' \in [Blocks -> {"erased", "dir", "seq", "indir", "data"}]
      /\ \A x \in Blocks : kind'[x] = IF x = b THEN "erased" ELSE kind[x]
  BY DEF FreeDirBlock, Free, TypeOK
<1>2. /\ link' \in [Blocks -> Blocks \cup {None}]
      /\ \A x \in Blocks : link'[x] = IF x = b THEN None ELSE link[x]
  BY DEF FreeDirBlock, TypeOK
<1>3. /\ free' \in Seq(Blocks) /\ IsInjective(free')
      /\ \A x \in ToSet(free') : x = b \/ x \in ToSet(free)
  <2>1. free \in Seq(Blocks) /\ IsInjective(free) /\ b \notin ToSet(free)
    BY DEF TypeOK, FreeErased
  <2>2. free' = Append(free, b)
    BY DEF FreeDirBlock, Free
  <2> QED
    BY <2>1, <2>2, Enqueued
<1>4. TreeTyped'
  <2>1. \A x \in Blocks, i \in Idx :
           \/ ent'[x][i].path \in {Blank, Zeroed} /\ ent'[x][i].next = <<>>
           \/ ent'[x][i].path \in Paths /\ Len(ent'[x][i].next) \in 1 .. 2
    BY DEF Fit
  <2> QED
    BY <1>1, <1>2, <1>3, <2>1 DEF TypeOK, TreeTyped
<1>5. Contents'
  <2>1. \A x \in Blocks : /\ kind'[x] # "dir" => ent'[x] = ErasedDir /\ link'[x] = None
                          /\ kind'[x] \notin {"seq", "indir"} => refs[x] = <<>>
                          /\ kind'[x] = "seq" => Len(refs[x]) <= SeqEntries
                          /\ kind'[x] = "indir" => Len(refs[x]) <= IndirEntries
    BY <1>1, <1>2 DEF Contents
  <2>2. \A x \in Blocks, i \in Idx :
           /\ ~ent'[x][i].used => ent'[x][i] = BlankEntry
           /\ ent'[x][i].committed => ent'[x][i].path # Blank
           /\ ent'[x][i].path = Zeroed => ent'[x][i].reclaimable
    BY DEF Fit
  <2> QED
    BY <2>1, <2>2 DEF Contents
<1>6. FreeErased'
  <2>1. \A x \in ToSet(free) : x \in Blocks /\ kind[x] = "erased"
    <3>1. free \in Seq(Blocks)
      BY DEF TypeOK
    <3>2. \A i \in DOMAIN free : free[i] \in Blocks
      BY <3>1, SeqIs
    <3> QED
      BY <3>2 DEF FreeErased, ToSet
  <2>2. \A x \in ToSet(free') : kind'[x] = "erased"
    BY <1>1, <1>3, <2>1
  <2> QED
    BY <1>3, <2>2 DEF FreeErased
<1>7. \A x \in Blocks, j \in Nat : At(x, j)' = At(x, j)
  BY DEF At
<1> QED
  BY <1>1, <1>2, <1>4, <1>5, <1>6, <1>7

\* The call that runs the collector does not use a directory block that is freed: its
\* entries are all zeroed.
LEMMA CallKept ==
    ASSUME TypeOK, TreeInv, walk # <<>>, Strict, TypeOK', NEW b \in Blocks, kind[b] = "dir",
           link[b] # None, \A i \in Idx : ent[b][i].path = Zeroed, ~Alone(b),
           UNCHANGED <<refs, pc, op>>,
           \A x \in Blocks : kind'[x] = IF x = b THEN "erased" ELSE kind[x],
           \A x \in Blocks : x # b => link'[x] = link[x],
           \A x \in Blocks, i \in Idx :
              x # b /\ ent[x][i].path \notin Dirs => ent'[x][i] = ent[x][i],
           \A x \in Blocks : Alone(x) => Alone(x)'
    PROVE  Holds'
<1>1. pc \in Allocating /\ pc # "dangling"
  BY InWalk DEF Allocating
<1>2. Holds /\ \A y \in Blocks : NoParent(y) <=> Alone(y)
  BY <1>1, Before
<1>3. CASE pc \in {"extend", "block"}
  <2>1. /\ op.dir \in Blocks /\ op.slot \in Idx /\ kind[op.dir] = "dir" /\ MakesEntry
        /\ op.block = None /\ op.seq = None
    BY <1>2, <1>3 DEF Holds, MakesEntry, TypeOK
  <2>2. pc = "block" => OpEntry.path = Blank
    BY <1>3, <2>1 DEF MakesEntry, BlankEntry
  <2>3. op.dir # b
    BY <1>3, <2>1, <2>2, Given DEF MakesEntry, OpEntry
  <2>4. pc = "block" => OpEntry' = OpEntry
    <3>1. PICK x \in Blocks, i \in Idx : x = op.dir /\ i = op.slot
      BY <2>1
    <3>2. Blank \notin Dirs
      BY Given
    <3>3. OpEntry = ent[x][i] /\ OpEntry' = ent'[x][i]
      BY <3>1 DEF OpEntry
    <3> QED
      BY <2>2, <2>3, <3>1, <3>2, <3>3
  <2>5. MakesEntry'
    BY <1>3, <2>1, <2>3, <2>4 DEF MakesEntry
  <2>6. Appends'
    BY <1>3 DEF Appends
  <2> QED
    BY <1>3, <2>1, <2>3, <2>5, <2>6 DEF Holds
<1>4. CASE pc \in {"data", "indir", "seq"}
  <2>1. /\ op.dir \in Blocks /\ op.slot \in Idx /\ op.seq \in Blocks /\ Appends
        /\ OpEntry = ent[op.dir][op.slot] /\ Live(OpEntry) /\ kind[op.seq] = "seq"
        /\ OpEntry.path = op.path /\ op.path \in Files /\ kind[op.dir] = "dir"
        /\ OpTop = To(op.dir, op.slot) /\ OpTop \in Blocks
        /\ kind[OpTop] = IF Len(OpEntry.next) = 1 THEN "seq" ELSE "indir"
    BY <1>1, <1>4, AppendIs
  <2>2. OpEntry.path \notin Dirs /\ OpEntry.path # Zeroed
    BY <2>1, Given
  <2>3. op.dir # b
    BY <2>1, <2>2
  <2>4. OpEntry' = OpEntry /\ OpTop' = OpTop /\ OpTop # b /\ op.seq # b
    BY <2>1, <2>2, <2>3 DEF OpEntry, OpTop
  <2>5. kind'[OpTop] = kind[OpTop] /\ kind'[op.seq] = "seq" /\ kind'[op.dir] = "dir"
    BY <2>1, <2>3, <2>4
  <2>6. LastSeq(OpEntry)' = LastSeq(OpEntry) /\ Live(OpEntry)'
    BY <2>1, <2>4, <2>5 DEF LastSeq, OpTop, Live
  <2>7. op.block # None => NoParent(op.block)' /\ kind'[op.block] = kind[op.block]
    <3> SUFFICES ASSUME op.block # None
                 PROVE  NoParent(op.block)' /\ kind'[op.block] = kind[op.block]
      OBVIOUS
    <3>1. op.block \in Blocks /\ NoParent(op.block)
      BY <1>4, <2>1 DEF Appends, TypeOK
    <3>2. PICK y \in Blocks : y = op.block
      BY <3>1
    <3>3. NoParent(y)' /\ y # b
      BY <1>2, <3>1, <3>2, AloneAfter
    <3> QED
      BY <3>2, <3>3 DEF NoParent
  <2>8. Appends'
    BY <1>4, <2>1, <2>4, <2>5, <2>6, <2>7 DEF Appends, SeqFull
  <2>9. MakesEntry'
    BY <1>4 DEF MakesEntry
  <2>10. op.block # None => kind'[op.block] \in {"dir", "seq", "data"}
    BY <1>2, <2>7 DEF Holds
  <2> QED
    BY <1>4, <2>5, <2>8, <2>9, <2>10 DEF Holds
<1> QED
  BY <1>1, <1>3, <1>4 DEF Allocating

LEMMA AtEndIs ==
    ASSUME TypeOK, TreeInv, AtEnd
    PROVE  /\ walk # <<>> /\ pc \in Allocating /\ pc # "dangling" /\ op.victim = None /\ Strict
           /\ Top.dir \in Blocks
<1>1. walk # <<>> /\ ~AtVictim
  BY DEF AtEnd, AtVictim, AtEntry
<1>2. pc \in Allocating /\ Walks /\ Top.dir \in Blocks
  BY <1>1, InWalk DEF Frames
<1>3. pc # "dangling"
  BY <1>2 DEF Allocating
<1>4. Strict
  BY <1>1, <1>3, Before DEF Emptied, TopFreed
<1> QED
  BY <1>1, <1>2, <1>3, <1>4 DEF Walks

LEMMA NoEntriesLeft ==
    ASSUME TypeOK, NEW b \in Blocks, ~EntriesLeft(b)
    PROVE  \A i \in Idx : ent[b][i].path = Zeroed /\ To(b, i) = None
<1>1. \A i \in Idx : ent[b][i].path = Zeroed
  BY DEF EntriesLeft
<1>2. Shape
  BY ShapeHolds
<1> QED
  BY <1>1, <1>2, Given DEF Shape

LEMMA MigrateRootKeeps ==
    ASSUME TypeOK, TreeInv, MigrateRoot PROVE TypeOK' /\ TreeInv'
<1>1. /\ AtEnd /\ ~EntriesLeft(root) /\ link[root] # None /\ root' = link[root]
      /\ ent' = [ent EXCEPT ![root] = ErasedDir] /\ FreeDirBlock(root) /\ walk' = <<>>
      /\ UNCHANGED <<refs, pc, op, crashes>>
  BY DEF MigrateRoot
<1>2. walk # <<>> /\ pc \in Allocating /\ pc # "dangling" /\ op.victim = None /\ Strict
  BY <1>1, AtEndIs
<1>3. /\ Shape /\ Contents /\ FreeErased /\ NoCycle /\ Owned /\ Linked /\ One /\ Whole
  BY <1>2, Before
<1>4. PICK r \in Blocks, c \in Blocks : r = root /\ c = link[root]
  BY <1>1 DEF TypeOK
<1>5. /\ \A i \in Idx : ent[r][i].path = Zeroed /\ To(r, i) = None
      /\ \A j \in Nat : At(r, j) = None
      /\ link[r] = c /\ c # None /\ c # r /\ kind[r] = "dir" /\ kind[c] = "dir"
  <2>1. kind[r] = "dir" /\ kind[c] = "dir" /\ c # r
    BY <1>1, <1>3, <1>4 DEF Linked, One
  <2>2. \A j \in Nat : At(r, j) = None
    BY <1>3, <2>1, NoRefs
  <2>3. \A i \in Idx : ent[r][i].path = Zeroed /\ To(r, i) = None
    BY <1>1, <1>4, NoEntriesLeft
  <2> QED
    BY <1>1, <1>4, <2>1, <2>2, <2>3
<1>6. /\ ent' \in [Blocks -> [Idx -> Entry]] /\ ent'[r] = ErasedDir
      /\ \A x \in Blocks : x # r => ent'[x] = ent[x]
      /\ \A i \in Idx : ent'[r][i] = BlankEntry
  <2>1. ErasedDir \in [Idx -> Entry]
    BY BlankIsFit DEF Fit, ErasedDir
  <2>2. ent \in [Blocks -> [Idx -> Entry]]
    BY DEF TypeOK
  <2>3. ent' = [ent EXCEPT ![r] = ErasedDir]
    BY <1>1, <1>4
  <2> HIDE DEF ErasedDir, Entry
  <2>4. /\ ent' \in [Blocks -> [Idx -> Entry]] /\ ent'[r] = ErasedDir
        /\ \A x \in Blocks : x # r => ent'[x] = ent[x]
    BY <2>1, <2>2, <2>3
  <2>5. \A i \in Idx : ErasedDir[i] = BlankEntry
    BY DEF ErasedDir
  <2> QED
    BY <2>4, <2>5
<1>7. /\ TreeTyped' /\ Contents' /\ FreeErased'
      /\ \A x \in Blocks : kind'[x] = IF x = r THEN "erased" ELSE kind[x]
      /\ \A x \in Blocks : link'[x] = IF x = r THEN None ELSE link[x]
      /\ \A x \in Blocks, j \in Nat : At(x, j)' = At(x, j)
  <2>1. \A x \in Blocks, i \in Idx : Fit(ent'[x][i])
    BY <1>3, <1>6, BlankIsFit, EntriesFit
  <2>2. FreeDirBlock(r) /\ root' \in Blocks /\ refs' = refs
    BY <1>1, <1>4
  <2>3. \A x \in Blocks : kind[x] # "dir" => ent'[x] = ent[x]
    BY <1>5, <1>6
  <2> QED
    BY <1>3, <1>5, <1>6, <2>1, <2>2, <2>3, DirBlockFreed
<1>8. \A x \in Blocks, i \in Idx : To(x, i)' = To(x, i)
  <2>1. \A i \in Idx : To(r, i)' = None
    BY <1>6 DEF To, BlankEntry
  <2>2. \A x \in Blocks, i \in Idx : x # r => To(x, i)' = To(x, i)
    BY <1>6 DEF To
  <2> QED
    BY <1>5, <2>1, <2>2
<1>9. TypeOK'
  <2>1. CallTyped'
    BY <1>1, EmptySeq DEF TypeOK, CallTyped
  <2> QED
    BY <1>7, <2>1, TypedIs
<1>10. NoCycle'
  <2>1. \A x \in Blocks : Kids(x)' \subseteq Kids(x)
    BY <1>7, <1>8, Given DEF Kids
  <2> QED
    BY <1>3, <2>1, CyclesFewer
<1>11. One' /\ \A x \in Blocks : Alone(x) => Alone(x)'
  <2>1. root' = c /\ root = r
    BY <1>1, <1>4
  <2>2. One'
    BY <1>3, <1>5, <1>7, <1>8, <2>1 DEF One
  <2>3. \A x \in Blocks : Alone(x) => Alone(x)'
    BY <1>5, <1>7, <1>8, <2>1, Given DEF Alone
  <2> QED
    BY <2>2, <2>3
<1>12. \A x \in Blocks : link'[x] # None => link'[x] = link[x] /\ link[x] # r
  BY <1>3, <1>4, <1>7 DEF One
<1>13. Linked'
  <2>1. \A x \in Blocks : link'[x] # None => kind'[link'[x]] = "dir"
    BY <1>3, <1>7, <1>12 DEF Linked, Shape, Optional
  <2>2. \A x \in Blocks, j \in Nat : At(x, j) # None =>
           kind'[At(x, j)] = IF kind'[x] = "seq" THEN "data" ELSE "seq"
    BY <1>3, <1>5, <1>7 DEF Linked, Shape, Optional
  <2>3. kind'[root'] = "dir"
    BY <1>1, <1>4, <1>5, <1>7
  <2> QED
    BY <1>7, <2>1, <2>2, <2>3 DEF Linked
<1>14. ASSUME NEW x \in Blocks, NEW i \in Idx, To(x, i) # None
       PROVE  x # r /\ ent'[x] = ent[x] /\ To(x, i) # r /\ kind'[To(x, i)] = kind[To(x, i)]
  <2>1. To(x, i) \in Blocks /\ To(x, i) # r
    BY <1>3, <1>4, <1>14 DEF Shape, Optional, One
  <2> QED
    BY <1>5, <1>6, <1>7, <1>14, <2>1
<1>15. Strict'
  BY <1>2, <1>8, <1>14 DEF Strict, KindOf
<1>16. Whole'
  <2> SUFFICES ASSUME NEW x \in Blocks, NEW i \in Idx,
                      ent'[x][i].next # <<>>, ~ent'[x][i].reclaimable,
                      kind'[Last(ent'[x][i].next)] = "indir"
               PROVE  LET top == Last(ent'[x][i].next) IN
                      refs[top] # <<>> /\ \A j \in DOMAIN refs[top] : refs[top][j] # None
    BY <1>1 DEF Whole
  <2>1. ent'[x][i] = ent[x][i]
    BY <1>6 DEF BlankEntry
  <2>2. To(x, i) # None /\ To(x, i) = Last(ent[x][i].next)
    BY <1>3, <2>1 DEF Shape
  <2> QED
    BY <1>3, <1>14, <2>1, <2>2 DEF Whole
<1>17. Owned'
  <2>1. PICK own \in [Blocks -> Dirs \cup {Root}] : OwnedBy(own)
    BY <1>3 DEF Owned
  <2>2. own[c] = Root
    BY <1>4, <1>5, <2>1 DEF OwnedBy
  <2>3. \A x \in Blocks, i \in Idx :
          /\ ent'[x][i].path \in Paths => Home[ent'[x][i].path] = own[x]
          /\ ent'[x][i].path \in Dirs => own[Last(ent'[x][i].next)] = ent'[x][i].path
    <3>1. \A i \in Idx : ent'[r][i].path = Blank
      BY <1>6 DEF BlankEntry
    <3>2. \A x \in Blocks, i \in Idx : x # r => ent'[x][i] = ent[x][i]
      BY <1>6
    <3>3. Blank \notin Paths /\ Blank \notin Dirs
      BY Given
    <3> QED
      BY <2>1, <3>1, <3>2, <3>3 DEF OwnedBy
  <2>4. \A x \in Blocks : link'[x] # None => own[link'[x]] = own[x]
    BY <1>12, <2>1 DEF OwnedBy
  <2>5. OwnedBy(own)'
    BY <1>1, <1>4, <2>1, <2>2, <2>3, <2>4 DEF OwnedBy
  <2> QED
    BY <2>5 DEF Owned
<1>18. Holds'
  <2>1. ~Alone(r) /\ UNCHANGED <<refs, pc, op>>
    BY <1>1, <1>4 DEF Alone
  <2>2. link[r] # None /\ \A i \in Idx : ent[r][i].path = Zeroed
    BY <1>5
  <2>3. \A x \in Blocks : x # r => link'[x] = link[x]
    BY <1>7
  <2>4. \A x \in Blocks, i \in Idx : x # r /\ ent[x][i].path \notin Dirs => ent'[x][i] = ent[x][i]
    BY <1>6
  <2> QED
    BY <1>2, <1>5, <1>7, <1>9, <1>11, <2>1, <2>2, <2>3, <2>4, CallKept
<1>19. Collecting' /\ Walks'
  BY <1>1, <1>2, NotCollectingAfter
<1> QED
  BY <1>7, <1>9, <1>10, <1>11, <1>13, <1>15, <1>16, <1>17, <1>18, <1>19, AllTyped, After

\* The entry above block b, as r2f2_migrate_dir_block_in_entry leaves it
Pushes(p, n, e, b) ==
    ent' = [ent EXCEPT ![p][n].next = e, ![b] = ErasedDir]

LEMMA EntryPushed ==
    ASSUME TypeOK, Contents, NEW p \in Blocks, NEW n \in Idx, NEW b \in Blocks, p # b,
           NEW q \in Seq(Blocks), Len(q) \in 1 .. 2, To(p, n) # None, Pushes(p, n, q, b)
    PROVE  /\ ent' \in [Blocks -> [Idx -> Entry]] /\ ent'[b] = ErasedDir
           /\ \A i \in Idx : ent'[b][i] = BlankEntry
           /\ \A x \in Blocks : x # b /\ x # p => ent'[x] = ent[x]
           /\ \A i \in Idx : i # n => ent'[p][i] = ent[p][i]
           /\ ent'[p][n].path = ent[p][n].path /\ ent'[p][n].next = q
           /\ ent'[p][n].reclaimable = ent[p][n].reclaimable
           /\ \A x \in Blocks, i \in Idx : Fit(ent'[x][i])
<1>1. ent \in [Blocks -> [Idx -> Entry]] /\ Shape
  BY ShapeHolds DEF TypeOK
<1>2. PICK o \in Entry : o = ent[p][n]
  BY <1>1
<1>3. PICK e : e = [o EXCEPT !.next = q]
  OBVIOUS
<1>4. /\ e \in Entry /\ e.path = o.path /\ e.next = q /\ e.reclaimable = o.reclaimable
      /\ e.used = o.used /\ e.committed = o.committed
  BY <1>3 DEF Entry
<1>5. ErasedDir \in [Idx -> Entry] /\ \A i \in Idx : ErasedDir[i] = BlankEntry
  BY BlankIsFit DEF Fit, ErasedDir
<1>6. ent' = [ent EXCEPT ![p] = [@ EXCEPT ![n] = e], ![b] = ErasedDir]
  BY <1>1, <1>2, <1>3 DEF Pushes
<1> HIDE DEF ErasedDir, Entry, BlankEntry
<1>7. PICK row \in [Idx -> Entry] : row = [ent[p] EXCEPT ![n] = e]
  BY <1>1, <1>4
<1>8. row[n] = e /\ \A i \in Idx : i # n => row[i] = ent[p][i]
  BY <1>1, <1>7
<1>9. ent' = [[ent EXCEPT ![p] = row] EXCEPT ![b] = ErasedDir]
  BY <1>6, <1>7
<1>10. /\ ent' \in [Blocks -> [Idx -> Entry]] /\ ent'[b] = ErasedDir /\ ent'[p] = row
       /\ \A x \in Blocks : x # b /\ x # p => ent'[x] = ent[x]
  BY <1>1, <1>5, <1>7, <1>9
<1>11. Fit(e)
  <2>1. o.path \in Paths /\ Fit(o) /\ o # BlankEntry
    <3>1. ent[p][n].path \in Paths /\ ent[p][n].next # <<>>
      BY <1>1 DEF Shape
    <3> QED
      BY <1>2, <3>1, EntriesFit DEF BlankEntry
  <2> QED
    BY <1>4, <2>1 DEF Fit
<1>12. \A x \in Blocks, i \in Idx : Fit(ent'[x][i])
  <2> SUFFICES ASSUME NEW x \in Blocks, NEW i \in Idx PROVE Fit(ent'[x][i])
    OBVIOUS
  <2>1. CASE x = b
    BY <1>5, <1>10, <2>1, BlankIsFit
  <2>2. CASE x = p /\ i = n
    BY <1>8, <1>10, <1>11, <2>2
  <2>3. CASE x # b /\ ~(x = p /\ i = n)
    <3>1. ent'[x][i] = ent[x][i]
      BY <1>8, <1>10, <2>3
    <3> QED
      BY <3>1, EntriesFit
  <2> QED
    BY <2>1, <2>2, <2>3
<1> QED
  BY <1>2, <1>4, <1>5, <1>8, <1>10, <1>12

LEMMA MigrateDirKeeps ==
    ASSUME TypeOK, TreeInv, MigrateDir PROVE TypeOK' /\ TreeInv'
<1>1. /\ AtEnd /\ Len(walk) > 1 /\ walk' = <<>> /\ UNCHANGED <<refs, root, op, crashes>>
      /\ link[Top.dir] # None => Len(ent[Above.dir][Above.at].next) < 2
      /\ ent' = [ent EXCEPT
             ![Above.dir][Above.at].next =
                 IF link[Top.dir] = None THEN @ ELSE Append(@, link[Top.dir]),
             ![Top.dir] = ErasedDir]
      /\ FreeDirBlock(Top.dir)
      /\ pc' = IF link[Top.dir] = None \/ EntriesLeft(Top.dir) THEN "dangling" ELSE pc
  BY DEF MigrateDir
<1>2. /\ walk # <<>> /\ pc \in Allocating /\ pc # "dangling" /\ op.victim = None /\ Strict
      /\ Top.dir \in Blocks
  BY <1>1, AtEndIs
<1>3. /\ Shape /\ Contents /\ FreeErased /\ NoCycle /\ Owned /\ Linked /\ One /\ Whole
  BY <1>2, Before
<1>4. /\ Above \in Frames /\ Above.at \in Idx /\ To(Above.dir, Above.at) = Top.dir
      /\ kind[Top.dir] = "dir" /\ ~ent[Above.dir][Above.at].reclaimable
  BY <1>1, <1>2, WayAbove
<1>5. PICK b \in Blocks, p \in Blocks, n \in Idx, c \in Optional :
         b = Top.dir /\ p = Above.dir /\ n = Above.at /\ c = link[b]
  BY <1>2, <1>3, <1>4 DEF Frames, Shape
<1>6. /\ To(p, n) = b /\ b # None /\ kind[b] = "dir" /\ ~ent[p][n].reclaimable /\ link[b] = c
      /\ kind[p] = "dir" /\ (c # None => kind[c] = "dir")
  BY <1>3, <1>4, <1>5, NoEntries, Given DEF Linked
<1>7. p # b /\ c # b
  <2>1. b \in Kids(p) /\ (c # None => c \in Kids(b))
    BY <1>5, <1>6 DEF Kids, Optional
  <2>2. {b} \in SUBSET Blocks /\ {b} # {}
    OBVIOUS
  <2>3. b \notin Kids(b)
    BY <1>3, <2>2 DEF NoCycle
  <2> QED
    BY <1>6, <2>1, <2>3
<1>8. PICK o \in Seq(Blocks) : o = ent[p][n].next
  <2>1. ent[p][n] \in Entry
    BY <1>3 DEF Shape
  <2> QED
    BY <2>1 DEF Entry
<1>9. o # <<>> /\ Last(o) = b /\ Len(o) \in 1 .. 2 /\ (c # None => Len(o) < 2)
  BY <1>1, <1>3, <1>5, <1>6, <1>8 DEF Shape
<1>10. PICK q : q = IF c = None THEN o ELSE Append(o, c)
  OBVIOUS
<1>11. /\ q \in Seq(Blocks) /\ q # <<>> /\ Len(q) \in 1 .. 2
       /\ Last(q) = IF c = None THEN b ELSE c
  <2>1. CASE c = None
    BY <1>9, <1>10, <2>1
  <2>2. CASE c # None
    <3>1. \A y \in Blocks : \A t : t = Append(o, y) =>
             t \in Seq(Blocks) /\ t # <<>> /\ Len(t) = Len(o) + 1 /\ Last(t) = y
      BY Pushed
    <3>2. c \in Blocks /\ q = Append(o, c)
      BY <1>10, <2>2 DEF Optional
    <3>3. q \in Seq(Blocks) /\ q # <<>> /\ Len(q) = Len(o) + 1 /\ Last(q) = c
      BY <3>1, <3>2, Zenon
    <3>4. Len(q) = 2
      BY <1>9, <2>2, <3>3
    <3> QED
      BY <2>2, <3>3, <3>4
  <2> QED
    BY <2>1, <2>2
<1>12. Pushes(p, n, q, b)
  BY <1>1, <1>5, <1>8, <1>10 DEF Pushes
<1>13. /\ ent' \in [Blocks -> [Idx -> Entry]] /\ ent'[b] = ErasedDir
       /\ \A i \in Idx : ent'[b][i] = BlankEntry
       /\ \A x \in Blocks : x # b /\ x # p => ent'[x] = ent[x]
       /\ \A i \in Idx : i # n => ent'[p][i] = ent[p][i]
       /\ ent'[p][n].path = ent[p][n].path /\ ent'[p][n].next = q
       /\ ent'[p][n].reclaimable = ent[p][n].reclaimable
       /\ \A x \in Blocks, i \in Idx : Fit(ent'[x][i])
  BY <1>3, <1>6, <1>7, <1>11, <1>12, EntryPushed
<1>14. /\ TreeTyped' /\ Contents' /\ FreeErased'
       /\ \A x \in Blocks : kind'[x] = IF x = b THEN "erased" ELSE kind[x]
       /\ \A x \in Blocks : link'[x] = IF x = b THEN None ELSE link[x]
       /\ \A x \in Blocks, j \in Nat : At(x, j)' = At(x, j)
  <2>1. FreeDirBlock(b) /\ root' \in Blocks /\ refs' = refs
    BY <1>1, <1>5 DEF TypeOK
  <2>2. \A x \in Blocks : kind[x] # "dir" => ent'[x] = ent[x]
    <3>1. \A x \in Blocks : kind[x] # "dir" => x # b /\ x # p
      BY <1>6
    <3> QED
      BY <1>13, <3>1
  <2> QED
    BY <1>3, <1>6, <1>13, <2>1, <2>2, DirBlockFreed
<1>15. \A x \in Blocks, i \in Idx :
          To(x, i)' = IF x = b THEN None
                      ELSE IF x = p /\ i = n THEN IF c = None THEN b ELSE c ELSE To(x, i)
  <2>1. \A i \in Idx : To(b, i)' = None
    BY <1>13 DEF To, BlankEntry
  <2>2. To(p, n)' = IF c = None THEN b ELSE c
    BY <1>11, <1>13 DEF To
  <2>3. \A x \in Blocks, i \in Idx : x # b /\ ~(x = p /\ i = n) => To(x, i)' = To(x, i)
    BY <1>13 DEF To
  <2> QED
    BY <1>7, <2>1, <2>2, <2>3
<1>16. TypeOK'
  <2>1. CallTyped'
    BY <1>1, EmptySeq DEF TypeOK, CallTyped, Stopped
  <2> QED
    BY <1>14, <2>1, TypedIs
<1>17. NoCycle'
  <2>1. \A x \in Blocks : x # p => Kids(x)' \subseteq Kids(x)
    BY <1>14, <1>15, Given DEF Kids
  <2>2. Kids(b)' = {}
    BY <1>14, <1>15, Given DEF Kids
  <2>3. CASE c = None
    <3>1. Kids(p)' \subseteq Kids(p)
      BY <1>6, <1>7, <1>14, <1>15, <2>3 DEF Kids
    <3> QED
      BY <1>3, <2>1, <3>1, CyclesFewer
  <2>4. CASE c # None
    <3>1. c \in Blocks /\ b \in Kids(p) /\ c \in Kids(b)
      BY <1>6, <2>4 DEF Kids, Optional
    <3>2. Kids(p)' \subseteq Kids(p) \cup {c}
      BY <1>7, <1>14, <1>15, <2>4 DEF Kids
    <3> QED
      BY <1>3, <2>1, <2>2, <3>1, <3>2, CyclesShorter
  <2> QED
    BY <2>3, <2>4
<1>18. ent[p][n].path \in Dirs
  <2>1. kind[To(p, n)] = KindOf(ent[p][n])
    BY <1>2, <1>6 DEF Strict
  <2> QED
    BY <1>6, <2>1 DEF KindOf
<1>19. Owned'
  <2>1. PICK own \in [Blocks -> Dirs \cup {Root}] : OwnedBy(own)
    BY <1>3 DEF Owned
  <2>2. own[b] = ent[p][n].path /\ (c # None => own[c] = own[b])
    <3>1. own[Last(ent[p][n].next)] = ent[p][n].path
      BY <1>18, <2>1 DEF OwnedBy
    <3>2. c # None => own[c] = own[b]
      BY <1>6, <2>1 DEF OwnedBy
    <3> QED
      BY <1>8, <1>9, <3>1, <3>2
  <2>3. ASSUME NEW x \in Blocks, NEW i \in Idx
        PROVE  /\ ent'[x][i].path \in Paths => Home[ent'[x][i].path] = own[x]
               /\ ent'[x][i].path \in Dirs => own[Last(ent'[x][i].next)] = ent'[x][i].path
    <3>1. CASE x = b
      <4>1. ent'[x][i].path = Blank
        BY <1>13, <3>1 DEF BlankEntry
      <4> QED
        BY <4>1, Given
    <3>2. CASE x = p /\ i = n
      <4>1. ent'[x][i].path = ent[p][n].path /\ own[Last(ent'[x][i].next)] = own[b]
        BY <1>11, <1>13, <2>2, <3>2
      <4> QED
        BY <2>1, <2>2, <3>2, <4>1 DEF OwnedBy
    <3>3. CASE x # b /\ ~(x = p /\ i = n)
      <4>1. ent'[x][i] = ent[x][i]
        BY <1>13, <3>3
      <4> QED
        BY <2>1, <4>1 DEF OwnedBy
    <3> QED
      BY <3>1, <3>2, <3>3
  <2>4. \A x \in Blocks : link'[x] # None => own[link'[x]] = own[x]
    BY <1>14, <2>1 DEF OwnedBy
  <2>5. /\ pc' \in {"extend", "block", "use", "write"} => pc' = pc
        /\ pc' \notin {"use", "write"}
    BY <1>1, <1>2 DEF Allocating
  <2>6. /\ pc' \in {"extend", "block", "use", "write"} => own[op'.dir] = Home[op'.path]
        /\ pc' \in {"use", "write"} /\ op'.call = "mkdir" => own[op'.block] = op'.path
    BY <1>1, <2>1, <2>5 DEF OwnedBy
  <2>7. own[root'] = Root
    BY <1>1, <2>1 DEF OwnedBy
  <2>8. OwnedBy(own)'
    BY <2>3, <2>4, <2>6, <2>7 DEF OwnedBy
  <2> QED
    BY <2>8 DEF Owned
<1>20. Collecting' /\ Walks'
  BY <1>1, <1>2, NotCollectingAfter
<1>21. ASSUME pc' # "dangling" PROVE Linked' /\ Strict' /\ One' /\ Whole' /\ Holds'
  <2>1. c # None /\ c \in Blocks /\ ~EntriesLeft(b) /\ pc' = pc
    BY <1>1, <1>5, <1>21 DEF Optional
  <2>2. \A i \in Idx : ent[b][i].path = Zeroed /\ To(b, i) = None
    BY <2>1, NoEntriesLeft
  <2>3. /\ \A x \in Blocks : link[x] = c => x = b
        /\ \A x \in Blocks, i \in Idx : To(x, i) # c
        /\ \A x \in Blocks, j \in Nat : At(x, j) # c
        /\ c # root /\ b # root
        /\ \A x \in Blocks : link[x] # b
        /\ \A x \in Blocks, i \in Idx : To(x, i) = b => x = p /\ i = n
        /\ \A x \in Blocks, j \in Nat : At(x, j) # b
    <3>1. \A x \in Blocks, j \in Nat : At(x, j) # c
      BY <1>3, <1>6, <2>1 DEF Linked
    <3> QED
      BY <1>3, <1>6, <2>1, <3>1 DEF One
  <2>4. One' /\ \A x \in Blocks : Alone(x) => Alone(x)'
    <3>1. root' = root
      BY <1>1
    <3>2. \A x \in Blocks : Alone(x) => Alone(x)'
      BY <1>6, <1>14, <1>15, <2>1, <3>1, Given DEF Alone
    <3>3. \A x \in Blocks, i \in Idx : To(x, i)' # None =>
             \/ x = p /\ i = n /\ To(x, i)' = c
             \/ To(x, i)' = To(x, i) /\ To(x, i) # c /\ ~(x = p /\ i = n)
      BY <1>15, <2>1, <2>3
    <3>4. \A x \in Blocks : link'[x] # None => x # b /\ link'[x] = link[x] /\ link[x] # c
      BY <1>14, <2>3
    <3>5. \A x \in Blocks : link'[x] # None =>
             link'[x] # root' /\ \A y \in Blocks : link'[y] = link'[x] => y = x
      BY <1>3, <3>1, <3>4 DEF One
    <3>6. ASSUME NEW x \in Blocks, NEW i \in Idx, To(x, i)' # None
          PROVE  /\ To(x, i)' # root' /\ \A y \in Blocks : link'[y] # To(x, i)'
                 /\ \A y \in Blocks, j \in Nat : At(y, j)' # To(x, i)'
                 /\ \A y \in Blocks, j \in Idx : To(y, j)' = To(x, i)' => y = x /\ j = i
      <4>1. CASE x = p /\ i = n
        BY <1>14, <2>1, <2>3, <3>1, <3>3, <3>4, <3>6, <4>1
      <4>2. CASE ~(x = p /\ i = n)
        <5>1. To(x, i)' = To(x, i) /\ To(x, i) # c /\ To(x, i) # None
          BY <3>3, <3>6, <4>2
        <5>2. To(x, i) # root /\ \A y \in Blocks : link'[y] # To(x, i)
          BY <1>3, <3>4, <5>1 DEF One
        <5>3. \A y \in Blocks, j \in Nat : At(y, j)' # To(x, i)
          BY <1>3, <1>14, <5>1 DEF One
        <5>4. \A y \in Blocks, j \in Idx : To(y, j)' = To(x, i) => y = x /\ j = i
          BY <1>3, <3>3, <5>1 DEF One
        <5> QED
          BY <3>1, <5>1, <5>2, <5>3, <5>4
      <4> QED
        BY <4>1, <4>2
    <3>7. \A x \in Blocks, i \in Nat : At(x, i)' # None =>
             \A y \in Blocks, j \in Nat : At(y, j)' = At(x, i)' => y = x /\ j = i
      BY <1>3, <1>14 DEF One
    <3>8. One'
      BY <3>5, <3>6, <3>7 DEF One
    <3> QED
      BY <3>2, <3>8
  <2>5. Linked'
    <3>1. \A x \in Blocks : link'[x] # None => kind'[link'[x]] = "dir"
      BY <1>3, <1>14, <2>3 DEF Linked, Shape, Optional
    <3>2. \A j \in Nat : At(b, j) = None
      BY <1>3, <1>6, NoRefs
    <3>3. \A x \in Blocks, j \in Nat : At(x, j) # None =>
             kind'[At(x, j)] = IF kind'[x] = "seq" THEN "data" ELSE "seq"
      BY <1>3, <1>14, <2>3, <3>2 DEF Linked, Shape, Optional
    <3>4. kind'[root'] = "dir"
      BY <1>1, <1>3, <1>14, <2>3 DEF Linked, TypeOK
    <3> QED
      BY <1>14, <3>1, <3>3, <3>4 DEF Linked
  <2>6. ASSUME NEW x \in Blocks, NEW i \in Idx, To(x, i)' # None, ~(x = p /\ i = n)
        PROVE  /\ ent'[x][i] = ent[x][i] /\ To(x, i)' = To(x, i)
               /\ kind'[To(x, i)] = kind[To(x, i)]
    <3>1. x # b /\ To(x, i)' = To(x, i)
      BY <1>15, <2>6
    <3>2. To(x, i) # b /\ To(x, i) \in Blocks
      BY <1>3, <2>3, <2>6, <3>1 DEF Shape, Optional
    <3> QED
      BY <1>13, <1>14, <2>6, <3>1, <3>2
  <2>7. To(p, n)' = c /\ kind'[c] = "dir" /\ KindOf(ent'[p][n]) = "dir"
    <3>1. To(p, n)' = c
      BY <1>7, <1>15, <2>1
    <3>2. kind'[c] = "dir"
      BY <1>6, <1>7, <1>14, <2>1
    <3>3. KindOf(ent'[p][n]) = "dir"
      BY <1>13, <1>18 DEF KindOf
    <3> QED
      BY <3>1, <3>2, <3>3
  <2>8. Strict'
    <3> SUFFICES ASSUME NEW x \in Blocks, NEW i \in Idx, To(x, i)' # None
                 PROVE  kind'[To(x, i)'] = KindOf(ent'[x][i])
      BY DEF Strict, KindOf
    <3> QED
      BY <1>2, <2>6, <2>7 DEF Strict
  <2>9. Whole'
    <3> SUFFICES ASSUME NEW x \in Blocks, NEW i \in Idx,
                        ent'[x][i].next # <<>>, ~ent'[x][i].reclaimable,
                        kind'[Last(ent'[x][i].next)] = "indir"
                 PROVE  LET top == Last(ent'[x][i].next) IN
                        refs[top] # <<>> /\ \A j \in DOMAIN refs[top] : refs[top][j] # None
      BY <1>1 DEF Whole
    <3>1. ~(x = p /\ i = n)
      BY <1>11, <1>13, <2>1, <2>7
    <3>2. To(x, i)' = Last(ent'[x][i].next) /\ To(x, i)' # None
      <4>1. Shape'
        BY <1>16, ShapeNext
      <4> QED
        BY <4>1 DEF Shape
    <3>3. ent'[x][i] = ent[x][i] /\ kind[Last(ent[x][i].next)] = "indir"
      BY <2>6, <3>1, <3>2
    <3> QED
      BY <1>3, <3>3 DEF Whole
  <2>10. Holds'
    <3>1. ~Alone(b) /\ UNCHANGED <<refs, pc, op>>
      BY <1>1, <1>6, <2>1 DEF Alone
    <3>2. link[b] # None /\ \A i \in Idx : ent[b][i].path = Zeroed
      BY <1>6, <2>1, <2>2
    <3>3. \A x \in Blocks : x # b => link'[x] = link[x]
      BY <1>14
    <3>4. \A x \in Blocks, i \in Idx :
             x # b /\ ent[x][i].path \notin Dirs => ent'[x][i] = ent[x][i]
      BY <1>13, <1>18
    <3> QED
      BY <1>2, <1>6, <1>14, <1>16, <2>4, <3>1, <3>2, <3>3, <3>4, CallKept
  <2> QED
    BY <2>4, <2>5, <2>8, <2>9, <2>10
<1> QED
  BY <1>14, <1>16, <1>17, <1>19, <1>20, <1>21, AllTyped, After

-----------------------------------------------------------------------------
(***************************************************************************)
(* Every step keeps the invariant.                                         *)
(***************************************************************************)
LEMMA StutterKeeps ==
    ASSUME TypeOK, TreeInv, UNCHANGED vars PROVE TypeOK' /\ TreeInv'
<1>1. /\ kind' = kind /\ ent' = ent /\ link' = link /\ refs' = refs /\ free' = free
      /\ root' = root /\ pc' = pc /\ op' = op /\ walk' = walk /\ crashes' = crashes
  BY DEF vars, flash
<1>2. TypeOK'
  BY <1>1 DEF TypeOK
<1>3. Contents' /\ FreeErased' /\ Owned' /\ Collecting'
  <2>1. Contents' /\ FreeErased'
    BY <1>1 DEF TreeInv, Contents, FreeErased
  <2>2. Owned'
    BY <1>1 DEF TreeInv, Owned, OwnedBy
  <2>3. Collecting'
    BY <1>1 DEF TreeInv, Collecting
  <2> QED
    BY <2>1, <2>2, <2>3
<1>4. Acyclic'
  <2>1. NoCycle
    BY RelationsHold DEF TreeInv, Relations
  <2>2. NoCycle'
    BY <1>1, <2>1, QuietTree DEF flash
  <2>3. Relations'
    BY <1>2, RelationsNext
  <2> QED
    BY <2>2, <2>3 DEF Relations
<1>5. ASSUME pc # "dangling" PROVE Kinds' /\ OneParent' /\ Whole' /\ Holds' /\ Walks'
  <2>1. TopFreed' <=> TopFreed
    BY <1>1 DEF TopFreed, AtVictim, AtEntry, Top, TopEntry, HasNext, NextIsDir, VictimTop
  <2>2. AtVictim' <=> AtVictim
    BY <1>1 DEF AtVictim, AtEntry, Top, TopEntry, HasNext, NextIsDir
  <2>3. /\ Top' = Top /\ \A x \in Blocks : NoParent(x)' <=> NoParent(x)
        /\ NoParent(op.victim)' <=> NoParent(op.victim)
    BY <1>1 DEF Top, NoParent
  <2>4. Kinds'
    BY <1>1, <1>5, <2>1, <2>3 DEF TreeInv, Kinds
  <2>5. OneParent' /\ Whole'
    BY <1>1, <1>5 DEF TreeInv, OneParent, Whole
  <2>6. Holds'
    BY <1>1, <1>5, QuietCall DEF TreeInv, flash
  <2>7. Walks'
    BY <1>1, <1>5, <2>1, <2>2, <2>3 DEF TreeInv, Walks
  <2> QED
    BY <2>4, <2>5, <2>6, <2>7
<1> QED
  BY <1>1, <1>2, <1>3, <1>4, <1>5 DEF TreeInv

LEMMA CallKeeps ==
    ASSUME TypeOK, TreeInv, ~ShortFsyncs, Call PROVE TypeOK' /\ TreeInv'
<1>1. CASE \E f \in Files : Register(f)
  <2>1. PICK f \in Files : BeginEntry("register", f)
    BY <1>1 DEF Register
  <2> QED
    BY <2>1, BeginEntryKeeps
<1>2. CASE \E d \in Dirs : Mkdir(d)
  <2>1. PICK d \in Dirs : BeginEntry("mkdir", d)
    BY <1>2 DEF Mkdir
  <2> QED
    BY <2>1, BeginEntryKeeps
<1>3. CASE \E p \in Paths : RemovePath(p)
  BY <1>3, RemoveKeeps
<1>4. CASE \E f \in Files, short \in BOOLEAN : (short => ShortFsyncs) /\ BeginAppend(f, short)
  <2>1. PICK f \in Files, short \in BOOLEAN : (short => ShortFsyncs) /\ BeginAppend(f, short)
    BY <1>4
  <2>2. BeginAppend(f, FALSE)
    BY <2>1
  <2> QED
    BY <2>2, BeginAppendKeeps
<1> QED
  BY <1>1, <1>2, <1>3, <1>4 DEF Call

LEMMA StepKeeps ==
    ASSUME TypeOK, TreeInv, Step PROVE TypeOK' /\ TreeInv'
BY ExtendKeeps, TakeBlockKeeps, UseKeeps, WriteKeeps, CommitKeeps,
   TakeDataKeeps, MigrateKeeps, NewSeqKeeps, RecordKeeps DEF Step

LEMMA CollectKeeps ==
    ASSUME TypeOK, TreeInv, Collect PROVE TypeOK' /\ TreeInv'
<1>1. CASE StartGc \/ SkipZeroed \/ KeepEntry \/ Descend \/ LeaveDir
  BY <1>1, StartGcKeeps, SkipKeeps, DescendKeeps, LeaveDirKeeps
<1>2. CASE ZeroDataRef \/ ZeroSeqRef \/ FreeVictim \/ FreeTop \/ ZeroEntry
  BY <1>2, ZeroDataRefKeeps, ZeroSeqRefKeeps, FreeVictimKeeps, FreeTopKeeps, ZeroEntryKeeps
<1>3. CASE NoMemory \/ MigrateRootAllocates \/ MigrateDirNoPtr
  BY <1>3, EndKeeps
<1>4. CASE MigrateRoot \/ MigrateDir
  BY <1>4, MigrateRootKeeps, MigrateDirKeeps
<1> QED
  BY <1>1, <1>2, <1>3, <1>4 DEF Collect

LEMMA NextKeeps ==
    ASSUME TypeOK, TreeInv, ~ShortFsyncs, [Next]_vars PROVE TypeOK' /\ TreeInv'
BY StutterKeeps, CallKeeps, StepKeeps, CollectKeeps, CrashKeeps DEF Next, Halt

\* What r2f2_format leaves
LEMMA InitHolds ==
    ASSUME Init PROVE TypeOK /\ TreeInv
<1>1. /\ kind = [b \in Blocks |-> IF b = FirstRoot THEN "dir" ELSE "erased"]
      /\ ent = [b \in Blocks |-> ErasedDir] /\ link = [b \in Blocks |-> None]
      /\ refs = [b \in Blocks |-> <<>>] /\ root = FirstRoot
      /\ pc = "idle" /\ op = NoOp /\ walk = <<>> /\ crashes = 0
      /\ free \in SetToSeqs(Blocks \ {FirstRoot})
  BY DEF Init
<1>2. /\ free \in Seq(Blocks) /\ IsInjective(free)
      /\ \A b \in ToSet(free) : b \in Blocks /\ b # FirstRoot
  <2>1. PICK n \in Nat : n = Cardinality(Blocks \ {FirstRoot})
    <3>1. IsFiniteSet(Blocks)
      BY TreeAssumption DEF TreeAssumption
    <3>2. IsFiniteSet(Blocks \ {FirstRoot})
      BY <3>1, FS_Subset
    <3> QED
      BY <3>2, FS_CardinalityType
  <2>2. /\ free \in [1 .. n -> Blocks \ {FirstRoot}]
        /\ \A i, j \in 1 .. n : i # j => free[i] # free[j]
    BY <1>1, <2>1 DEF SetToSeqs
  <2>3. free \in Seq(Blocks)
    BY <2>2, SeqDef
  <2>4. DOMAIN free = 1 .. n
    BY <2>2
  <2> QED
    BY <2>2, <2>3, <2>4 DEF IsInjective, ToSet
<1>3. \A b \in Blocks, i \in Idx : ent[b][i] = BlankEntry
  BY <1>1 DEF ErasedDir
<1>4. TypeOK
  <2>1. ErasedDir \in [Idx -> Entry]
    BY BlankIsFit DEF Fit, ErasedDir
  <2>2. ent \in [Blocks -> [Idx -> Entry]]
    BY <1>1, <2>1
  <2>3. \A b \in Blocks, i \in Idx : ent[b][i].path = Blank /\ ent[b][i].next = <<>>
    BY <1>3 DEF BlankEntry
  <2>4. /\ refs \in [Blocks -> Seq(Blocks \cup {None})]
        /\ \A b \in Blocks : refs[b] = <<>>
    <3>1. <<>> \in Seq(Blocks \cup {None})
      OBVIOUS
    <3> QED
      BY <1>1, <3>1
  <2>5. \A b \in Blocks : Len(refs[b]) <= MaxRefs
    <3>1. Len(<<>>) = 0 /\ 0 <= MaxRefs
      BY MostOfTwo
    <3> QED
      BY <2>4, <3>1
  <2>6. kind \in [Blocks -> {"erased", "dir", "seq", "indir", "data"}]
    BY <1>1
  <2>7. link \in [Blocks -> Blocks \cup {None}]
    BY <1>1
  <2>8. op \in [call : {"none", "register", "mkdir", "append"}, path : Paths \cup {Root},
               dir : Blocks \cup {None}, slot : Idx,
               block : Blocks \cup {None}, seq : Blocks \cup {None},
               victim : Blocks \cup {None}]
    BY <1>1, Given DEF NoOp
  <2>9. walk \in Seq([dir : Blocks, at : 0 .. DirEntries, clean : BOOLEAN])
    BY <1>1, EmptySeq
  <2>10. crashes \in 0 .. MaxCrashes /\ root \in Blocks
    BY <1>1, Given
  <2> QED
    BY <1>1, <1>2, <2>2, <2>3, <2>4, <2>5, <2>6, <2>7, <2>8, <2>9, <2>10 DEF TypeOK
<1>5. /\ \A b \in Blocks, i \in Idx : ent[b][i].next = <<>>
      /\ \A b \in Blocks : link[b] = None /\ refs[b] = <<>> /\ DOMAIN refs[b] = {}
  <2>1. \A b \in Blocks : refs[b] = <<>> /\ link[b] = None
    BY <1>1
  <2>2. DOMAIN <<>> = {}
    OBVIOUS
  <2> QED
    BY <1>3, <2>1, <2>2 DEF BlankEntry
<1>6. Contents
  <2>1. Len(<<>>) = 0 /\ 0 <= SeqEntries /\ 0 <= IndirEntries
    BY Given
  <2>2. \A b \in Blocks : ent[b] = ErasedDir
    BY <1>1
  <2>3. \A b \in Blocks, i \in Idx : ~ent[b][i].committed /\ ent[b][i].path # Zeroed
    BY <1>3, Given DEF BlankEntry
  <2> QED
    BY <1>3, <1>5, <2>1, <2>2, <2>3 DEF Contents
<1>7. FreeErased
  BY <1>1, <1>2 DEF FreeErased
<1>8. Acyclic
  <2>1. \A b \in Blocks : DirKids(b) = {}
    BY <1>5 DEF DirKids, EntryRefs
  <2> QED
    BY <2>1 DEF Acyclic
<1>9. Owned
  <2>1. [b \in Blocks |-> Root] \in [Blocks -> Dirs \cup {Root}]
    OBVIOUS
  <2>2. PICK own \in [Blocks -> Dirs \cup {Root}] : \A b \in Blocks : own[b] = Root
    BY <2>1
  <2>3. \A b \in Blocks, i \in Idx : ent[b][i].path \notin Paths /\ ent[b][i].path \notin Dirs
    BY <1>3, Given DEF BlankEntry
  <2>4. OwnedBy(own)
    BY <1>1, <1>5, <2>2, <2>3, Given DEF OwnedBy
  <2> QED
    BY <2>4 DEF Owned
<1>10. Collecting /\ Walks
  <2>1. op.victim = None /\ DOMAIN walk = {}
    BY <1>1 DEF NoOp
  <2> QED
    BY <1>1, <2>1 DEF Collecting, Walks
<1>11. Kinds /\ OneParent /\ Whole
  BY <1>1, <1>5, Given DEF Kinds, OneParent, Whole
<1>12. Holds
  BY <1>1 DEF Holds, MakesEntry, Appends, NoOp
<1> QED
  BY <1>4, <1>6, <1>7, <1>8, <1>9, <1>10, <1>11, <1>12 DEF TreeInv

-----------------------------------------------------------------------------
\* The state is of the types that the code gives it: no call and no collection,
\* wherever power is lost, writes to a block what is not for its kind.
THEOREM Typing == ASSUME ~ShortFsyncs PROVE Spec => []TypeOK
<1>1. Init => TypeOK /\ TreeInv
  BY InitHolds
<1>2. TypeOK /\ TreeInv /\ [Next]_vars => TypeOK' /\ TreeInv'
  BY NextKeeps
<1> QED
  BY <1>1, <1>2, PTL DEF Spec

\* The blocks stay a tree: each has one reference to it, of the right kind, and no
\* cycle, through every call of r2f2.c and r2f2_file.c, every step of r2f2_gc.c and
\* every power loss, until the collector leaves a reference to a block it has freed.
THEOREM StaysTree == ASSUME ~ShortFsyncs PROVE Spec => []TreeInv
<1>1. Init => TypeOK /\ TreeInv
  BY InitHolds
<1>2. TypeOK /\ TreeInv /\ [Next]_vars => TypeOK' /\ TreeInv'
  BY NextKeeps
<1> QED
  BY <1>1, <1>2, PTL DEF Spec

\* The collector frees no block twice and none that is in use, so that what
\* allocate_block takes from the ring is free.
THEOREM FreedIsFree == ASSUME ~ShortFsyncs PROVE Spec => []FreeListSound
<1>1. TypeOK /\ TreeInv => FreeListSound
  BY TreeFreeSound
<1> QED
  BY <1>1, Typing, StaysTree, PTL

\* A reference is to a block of the right kind, and the only one to it: what one
\* file or directory refers to, no other does.
THEOREM ReferencesSole == ASSUME ~ShortFsyncs PROVE Spec => []SoleReferences
<1>1. TreeInv => SoleReferences
  BY DEF TreeInv, SoleReferences
<1> QED
  BY <1>1, StaysTree, PTL

-----------------------------------------------------------------------------
(***************************************************************************)
(* Lookup, wherever the collector has left the tree.                       *)
(***************************************************************************)
LEMMA DirBlockColoured ==
    ASSUME TypeOK, NEW own, OwnedBy(own)
    PROVE  \A d \in Dirs \cup {Root} : DirBlock[d] # None =>
              DirBlock[d] \in Blocks /\ own[DirBlock[d]] = d
<1>1. Shape /\ DirBlockSolved /\ root \in Blocks
  BY ShapeHolds, DirBlockHolds DEF TypeOK
<1> DEFINE Right(d) == DirBlock[d] # None => DirBlock[d] \in Blocks /\ own[DirBlock[d]] = d
           S == {d \in Dirs \cup {Root} : Right(d)}
<1>2. Root \in S
  BY <1>1 DEF DirBlockSolved, OwnedBy
<1>3. ASSUME NEW d \in Dirs, Home[d] \in S PROVE d \in S
  <2> SUFFICES ASSUME DirBlock[d] # None
               PROVE  DirBlock[d] \in Blocks /\ own[DirBlock[d]] = d
    OBVIOUS
  <2> DEFINE b == DirBlock[Home[d]]
  <2>1. DirBlock[d] = DirIn(b, d)
    BY <1>1 DEF DirBlockSolved
  <2>2. b # None /\ EntriesFor(b, d) # {}
    BY <2>1 DEF DirIn
  <2>3. b \in Blocks /\ d \in Paths
    BY <1>3, <2>2, Given
  <2> DEFINE i == Min(EntriesFor(b, d))
  <2> HIDE DEF b
  <2>4. /\ i \in Idx /\ ent[b][i].path = d
        /\ To(b, i) \in Blocks /\ To(b, i) = Last(ent[b][i].next)
    BY <1>1, <2>2, <2>3, EntryFound
  <2>5. DirBlock[d] = Last(ent[b][i].next)
    BY <2>1, <2>2 DEF DirIn
  <2> HIDE DEF i
  <2>6. own[Last(ent[b][i].next)] = d
    BY <2>3, <2>4 DEF OwnedBy
  <2> QED
    BY <2>4, <2>5, <2>6
<1> HIDE DEF S
<1>4. \A d \in Dirs \cup {Root} : d \in S
  BY <1>2, <1>3, HomeInduction
<1> QED
  BY <1>4 DEF S

LEMMA TreeChains ==
    ASSUME TypeOK, TreeInv
    PROVE  /\ Shape /\ Contents /\ NoCycle /\ Owned /\ DirBlockSolved
           /\ link \in Links /\ Founded(link) /\ AreChains(link, Chain)
<1>1. Shape /\ Relations /\ DirBlockSolved
  BY ShapeHolds, RelationsHold, DirBlockHolds
<1>2. Contents /\ NoCycle /\ Owned
  BY <1>1 DEF TreeInv, Relations
<1> QED
  BY <1>1, <1>2, LinkFounded, ChainNow

-----------------------------------------------------------------------------
(***************************************************************************)
(* The place in its directory that a call has found stays where a lookup   *)
(* finds it, until the call has used it.                                   *)
(***************************************************************************)
Making == {"extend", "block", "use"}
Adding == {"data", "indir", "seq", "entry"}
Places ==
    /\ pc \in Making => op.dir \in Chain[DirBlock[Home[op.path]]] /\ link[op.dir] = None
    /\ pc \in Adding => <<op.dir, op.slot>> \in Find(op.path)

\* The entry i of block b is the one that is found for p in the chain from d on.
FoundAt(d, p, b, i) ==
    /\ b \in Chain[d] /\ EntriesFor(b, p) # {} /\ i = Min(EntriesFor(b, p))
    /\ \A c \in Chain[d] : EntriesFor(c, p) # {} => c \in Chain[b]

LookupSolved ==
    /\ DirBlock[Root] = root
    /\ \A d \in Dirs, b \in Optional : DirBlock[Home[d]] = b => DirBlock[d] = DirIn(b, d)
    /\ \A p \in Paths, d \in Blocks, b \in Blocks, i \in Idx :
          DirBlock[Home[p]] = d => (<<b, i>> \in Find(p) <=> FoundAt(d, p, b, i))

LEMMA LookupHolds == TypeOK => LookupSolved
<1> SUFFICES ASSUME TypeOK PROVE LookupSolved
  OBVIOUS
<1>1. DirBlockSolved
  BY DirBlockHolds
<1>2. ASSUME NEW p \in Paths, NEW d \in Blocks, NEW b \in Blocks, NEW i \in Idx, DirBlock[Home[p]] = d
      PROVE  <<b, i>> \in Find(p) <=> FoundAt(d, p, b, i)
  <2>1. \A x : x \in With(p) <=> x \in Chain[d] /\ EntriesFor(x, p) # {}
    BY <1>2 DEF With
  <2>2. <<b, i>> \in Find(p) <=>
           b \in With(p) /\ With(p) \subseteq Chain[b] /\ i = Min(EntriesFor(b, p))
    BY DEF Find
  <2> QED
    BY <2>1, <2>2 DEF FoundAt
<1> QED
  BY <1>1, <1>2 DEF LookupSolved, DirBlockSolved

LEMMA LookupNext == (TypeOK => LookupSolved)'
BY LookupHolds, PTL

\* What a lookup finds, it finds after the step too: but for the blocks Gone, the chain
\* of each directory stays.
LookupStays(Gone) ==
    /\ \A d \in Dirs \cup {Root} : DirBlock[d] # None =>
          DirBlock'[d] \in Blocks /\ Chain'[DirBlock'[d]] = Chain[DirBlock[d]] \ Gone
    /\ \A p \in Paths, b \in Blocks, i \in Idx :
          DirBlock[Home[p]] # None /\ <<b, i>> \in Find(p) => (<<b, i>> \in Find(p))'

\* f gives the block that a chain begins with after the step.
LEMMA FindKept ==
    ASSUME TypeOK, TypeOK', NEW f, NEW Gone \in SUBSET Blocks, f[root] = root',
           \A x \in Blocks : Chain[x] \subseteq Blocks,
           \A x \in Blocks : f[x] \in Blocks /\ Chain'[f[x]] = Chain[x] \ Gone,
           \A x \in Blocks \ Gone : Chain'[x] = Chain[x],
           \A x \in Blocks, d \in Dirs : DirIn(x, d) # None => DirIn(f[x], d)' = f[DirIn(x, d)],
           \A x \in Blocks \ Gone, p \in Paths : EntriesFor(x, p)' = EntriesFor(x, p),
           \A x \in Gone, p \in Paths : EntriesFor(x, p) = {}
    PROVE  LookupStays(Gone)
<1>1. LookupSolved /\ LookupSolved' /\ DirBlockSolved /\ root \in Blocks /\ Root \notin Dirs
  BY LookupHolds, LookupNext, DirBlockHolds, Given DEF TypeOK
<1>2. \A d \in Dirs : Home[d] \in Dirs \cup {Root}
  BY Given
<1> DEFINE S == {d \in Dirs \cup {Root} : DirBlock[d] # None => DirBlock'[d] = f[DirBlock[d]]}
<1>3. Root \in S
  BY <1>1 DEF LookupSolved
<1>4. ASSUME NEW d \in Dirs, Home[d] \in S PROVE d \in S
  <2> SUFFICES ASSUME DirBlock[d] # None PROVE DirBlock'[d] = f[DirBlock[d]]
    OBVIOUS
  <2>1. PICK b \in Optional : b = DirBlock[Home[d]]
    BY <1>1, <1>2 DEF DirBlockSolved
  <2>2. DirBlock[d] = DirIn(b, d)
    BY <1>1, <2>1 DEF LookupSolved
  <2>3. b # None
    BY <2>2 DEF DirIn
  <2>4. b \in Blocks /\ f[b] \in Optional
    BY <2>3 DEF Optional
  <2>5. DirBlock'[Home[d]] = f[b]
    BY <1>4, <2>1, <2>3
  <2>6. DirBlock'[d] = DirIn(f[b], d)'
    BY <1>1, <2>4, <2>5 DEF LookupSolved
  <2> QED
    BY <2>2, <2>4, <2>6
<1> HIDE DEF S
<1>5. \A d \in Dirs \cup {Root} : d \in S
  BY <1>3, <1>4, HomeInduction
<1>6. ASSUME NEW d \in Dirs \cup {Root}, DirBlock[d] # None
      PROVE  /\ DirBlock[d] \in Blocks /\ DirBlock'[d] = f[DirBlock[d]]
             /\ DirBlock'[d] \in Blocks /\ Chain'[DirBlock'[d]] = Chain[DirBlock[d]] \ Gone
  <2>1. DirBlock[d] \in Blocks /\ DirBlock'[d] = f[DirBlock[d]]
    BY <1>1, <1>5, <1>6 DEF S, DirBlockSolved, Optional
  <2> QED
    BY <2>1
<1>7. ASSUME NEW p \in Paths, NEW b \in Blocks, NEW i \in Idx, DirBlock[Home[p]] # None,
             <<b, i>> \in Find(p)
      PROVE  (<<b, i>> \in Find(p))'
  <2>1. Home[p] \in Dirs \cup {Root}
    BY Given
  <2>2. PICK d \in Blocks : d = DirBlock[Home[p]]
    BY <1>6, <1>7, <2>1
  <2>3. PICK e \in Blocks : e = DirBlock'[Home[p]]
    BY <1>6, <1>7, <2>1
  <2>4. Chain'[e] = Chain[d] \ Gone
    BY <1>6, <1>7, <2>1, <2>2, <2>3
  <2>5. FoundAt(d, p, b, i)
    BY <1>1, <1>7, <2>2 DEF LookupSolved
  <2>6. b \notin Gone
    BY <2>5 DEF FoundAt
  <2>7. EntriesFor(b, p)' = EntriesFor(b, p) /\ Chain'[b] = Chain[b]
    BY <2>6
  <2>8. \A c \in Chain'[e] : EntriesFor(c, p)' # {} => c \in Chain'[b]
    <3> SUFFICES ASSUME NEW c \in Chain'[e], EntriesFor(c, p)' # {} PROVE c \in Chain'[b]
      OBVIOUS
    <3>1. c \in Chain[d] /\ c \notin Gone
      BY <2>4
    <3>2. c \in Blocks
      BY <3>1, <2>2
    <3> QED
      BY <2>5, <2>7, <3>1, <3>2 DEF FoundAt
  <2>9. FoundAt(e, p, b, i)'
    BY <2>4, <2>5, <2>6, <2>7, <2>8 DEF FoundAt
  <2> QED
    BY <1>1, <2>3, <2>9 DEF LookupSolved
<1> QED
  BY <1>6, <1>7 DEF LookupStays

ChainsSound == link \in Links /\ Founded(link) /\ AreChains(link, Chain)
LEMMA ChainsHold == TypeOK /\ TreeInv => ChainsSound
BY TreeChains DEF ChainsSound

LEMMA ChainsNext == (TypeOK /\ TreeInv => ChainsSound)'
BY ChainsHold, PTL

\* A step that leaves the directories and what is live in them
LEMMA LookupKept ==
    ASSUME TypeOK, TreeInv, TypeOK', TreeInv', root' = root, \A x \in Blocks : link'[x] = link[x],
           \A x \in Blocks, p \in Paths : EntriesFor(x, p)' = EntriesFor(x, p),
           \A x \in Blocks, d \in Dirs : DirIn(x, d)' = DirIn(x, d)
    PROVE  LookupStays({})
<1>1. link \in Links /\ AreChains(link, Chain) /\ Shape
  BY TreeChains
<1>2. link' \in Links /\ AreChains(link', Chain')
  BY ChainsNext DEF ChainsSound
<1> DEFINE f == [x \in Blocks |-> x]
<1>3. \A x \in Blocks : f[x] = x /\ Chain[x] \subseteq Blocks
  BY <1>1 DEF AreChains
<1>4. \A x \in Blocks : Chain'[x] = Chain[x]
  <2> SUFFICES ASSUME NEW x \in Blocks PROVE Chain'[x] = Chain[x]
    OBVIOUS
  <2>1. \A y \in Chain[x] : link'[y] = link[y]
    BY <1>3
  <2> QED
    BY <1>1, <1>2, <2>1, ChainKept
<1>5. \A x \in Blocks, d \in Dirs : DirIn(x, d) # None => DirIn(x, d) \in Blocks
  <2> SUFFICES ASSUME NEW x \in Blocks, NEW d \in Dirs, DirIn(x, d) # None
               PROVE  DirIn(x, d) \in Blocks
    OBVIOUS
  <2>1. d \in Paths /\ EntriesFor(x, d) # {}
    BY Given DEF DirIn
  <2>2. DirIn(x, d) = Last(ent[x][Min(EntriesFor(x, d))].next)
    BY <2>1, Given DEF DirIn
  <2> QED
    BY <1>1, <2>1, <2>2, EntryFound
<1>6. root \in Blocks
  BY DEF TypeOK
<1>7. /\ f[root] = root'
      /\ \A x \in Blocks : f[x] \in Blocks /\ Chain'[f[x]] = Chain[x] \ {}
      /\ \A x \in Blocks, d \in Dirs : DirIn(x, d) # None => DirIn(f[x], d)' = f[DirIn(x, d)]
  BY <1>3, <1>4, <1>5, <1>6
<1> HIDE DEF f
<1>8. {} \in SUBSET Blocks /\ \A x \in {}, p \in Paths : EntriesFor(x, p) = {}
  OBVIOUS
<1> QED
  BY <1>3, <1>4, <1>7, <1>8, FindKept

\* A place that was found stays, if no step takes its block from its chain.
LEMMA PlacesKept ==
    ASSUME TypeOK, TreeInv, Places, pc # "dangling", NEW Gone \in SUBSET Blocks, LookupStays(Gone),
           op'.path = op.path, op'.dir = op.dir, op'.slot = op.slot,
           pc' \in Making => pc \in Making, pc' \in Adding => pc \in Adding,
           pc \in Making => op.dir \notin Gone /\ link'[op.dir] = None
    PROVE  Places'
<1>1. Holds /\ ChainsSound /\ DirBlockSolved
  BY Before, ChainsHold, DirBlockHolds
<1>2. op.dir \in Optional /\ op.slot \in Idx /\ pc \in Making \cup Adding => op.path \in Paths
  BY <1>1, Given DEF TypeOK, Optional, Holds, MakesEntry, Appends, Making, Adding
<1>3. op.dir \in Optional /\ op.slot \in Idx
  BY DEF TypeOK, Optional
<1>4. ASSUME pc \in Making
      PROVE  op.dir \in Chain'[DirBlock'[Home[op.path]]]
  <2>1. op.dir \in Chain[DirBlock[Home[op.path]]] /\ Home[op.path] \in Dirs \cup {Root}
    BY <1>2, <1>3, <1>4, Given DEF Places
  <2>2. DirBlock[Home[op.path]] # None
    BY <1>1, <2>1 DEF ChainsSound, AreChains
  <2>3. Chain'[DirBlock'[Home[op.path]]] = Chain[DirBlock[Home[op.path]]] \ Gone
    BY <2>1, <2>2 DEF LookupStays
  <2> QED
    BY <1>4, <2>1, <2>3
<1>5. ASSUME pc \in Adding
      PROVE  (<<op.dir, op.slot>> \in Find(op.path))'
  <2>1. PICK p \in Paths, b \in Optional, i \in Idx : p = op.path /\ b = op.dir /\ i = op.slot
    BY <1>2, <1>3, <1>5
  <2>2. <<b, i>> \in Find(p)
    BY <1>5, <2>1 DEF Places
  <2>3. Contents /\ NoCycle
    BY TreeChains
  <2>4. DirBlock[Home[p]] \in Blocks /\ b \in Blocks
    BY <2>2, <2>3, PlaceFound
  <2>5. (<<b, i>> \in Find(p))'
    BY <2>2, <2>4, Given DEF LookupStays
  <2> QED
    BY <2>1, <2>5
<1> QED
  BY <1>4, <1>5 DEF Places

\* The steps that leave the directories
LEMMA PlacesQuiet ==
    ASSUME TypeOK, TreeInv, TypeOK', TreeInv', Places, pc # "dangling", UNCHANGED <<ent, link, root>>,
           op'.path = op.path, op'.dir = op.dir, op'.slot = op.slot,
           pc' \in Making => pc \in Making, pc' \in Adding => pc \in Adding
    PROVE  Places'
<1>1. \A x \in Blocks, p \in Paths : EntriesFor(x, p)' = EntriesFor(x, p)
  BY DEF EntriesFor, Live
<1>2. \A x \in Blocks, d \in Dirs : DirIn(x, d)' = DirIn(x, d)
  <2> SUFFICES ASSUME NEW x \in Blocks, NEW d \in Dirs PROVE DirIn(x, d)' = DirIn(x, d)
    OBVIOUS
  <2>1. EntriesFor(x, d)' = EntriesFor(x, d)
    BY <1>1, Given
  <2> QED
    BY <2>1 DEF DirIn
<1>3. LookupStays({})
  BY <1>1, <1>2, LookupKept
<1>4. pc \in Making => link'[op.dir] = None
  BY DEF Places
<1> QED
  BY <1>3, <1>4, PlacesKept

\* The steps that write one entry
LEMMA EntriesKept ==
    ASSUME Shape, NEW d \in Blocks, NEW s \in Idx,
           \A b \in Blocks, i \in Idx : b # d \/ i # s => ent'[b][i] = ent[b][i],
           ent'[d][s].used = ent[d][s].used, Live(ent'[d][s]) <=> Live(ent[d][s]),
           Live(ent[d][s]) => /\ ent'[d][s].path = ent[d][s].path
                              /\ ent[d][s].path \in Dirs => ent'[d][s].next = ent[d][s].next
    PROVE  /\ \A x \in Blocks, p \in Paths : EntriesFor(x, p)' = EntriesFor(x, p)
           /\ \A x \in Blocks, p \in Dirs : DirIn(x, p)' = DirIn(x, p)
<1>1. \A x \in Blocks, j \in Idx : ent'[x][j].used = ent[x][j].used
  OBVIOUS
<1>2. \A x \in Blocks, i \in Idx, p \in Paths :
         ent'[x][i].path = p /\ Live(ent'[x][i]) <=> ent[x][i].path = p /\ Live(ent[x][i])
  OBVIOUS
<1>3. \A i \in Idx : \A j \in 1 .. i : j \in Idx
  BY Given DEF Idx
<1>4. ASSUME NEW x \in Blocks, NEW p \in Paths PROVE EntriesFor(x, p)' = EntriesFor(x, p)
  <2>1. \A i \in Idx : i \in EntriesFor(x, p)' <=> i \in EntriesFor(x, p)
    BY <1>1, <1>2, <1>3 DEF EntriesFor
  <2> QED
    BY <2>1 DEF EntriesFor
<1>5. ASSUME NEW x \in Blocks, NEW p \in Dirs PROVE DirIn(x, p)' = DirIn(x, p)
  <2>1. p \in Paths /\ x # None
    BY Given
  <2>2. EntriesFor(x, p)' = EntriesFor(x, p)
    BY <1>4, <2>1
  <2>3. ASSUME EntriesFor(x, p) # {}
        PROVE  ent'[x][Min(EntriesFor(x, p))].next = ent[x][Min(EntriesFor(x, p))].next
    <3>1. PICK i \in Idx : i = Min(EntriesFor(x, p)) /\ Live(ent[x][i]) /\ ent[x][i].path = p
      BY <2>1, <2>3, EntryFound
    <3>2. ent'[x][i].next = ent[x][i].next
      BY <3>1
    <3> QED
      BY <3>1, <3>2
  <2> QED
    BY <2>2, <2>3 DEF DirIn
<1> QED
  BY <1>4, <1>5

-----------------------------------------------------------------------------
(***************************************************************************)
(* The places that calls have found, step by step.                         *)
(***************************************************************************)
LEMMA LookupUntouched ==
    ASSUME TypeOK, TreeInv, TypeOK', TreeInv', UNCHANGED <<ent, link, root>>
    PROVE  LookupStays({})
<1>1. \A x \in Blocks, p \in Paths : EntriesFor(x, p)' = EntriesFor(x, p)
  BY DEF EntriesFor, Live
<1>2. \A x \in Blocks, d \in Dirs : DirIn(x, d)' = DirIn(x, d)
  <2> SUFFICES ASSUME NEW x \in Blocks, NEW d \in Dirs PROVE DirIn(x, d)' = DirIn(x, d)
    OBVIOUS
  <2>1. EntriesFor(x, d)' = EntriesFor(x, d)
    BY <1>1, Given
  <2> QED
    BY <2>1 DEF DirIn
<1> QED
  BY <1>1, <1>2, LookupKept

LEMMA BeginEntryPlaces ==
    ASSUME TypeOK, TreeInv, TypeOK', TreeInv', NEW call, NEW p \in Paths, BeginEntry(call, p)
    PROVE  Places'
<1>1. PICK slot :
         /\ DirBlock[Home[p]] # None
         /\ op' = [NoOp EXCEPT !.call = call, !.path = p, !.dir = LastInChain(DirBlock[Home[p]]),
                               !.slot = slot]
         /\ pc' \in {"extend", "block"}
         /\ UNCHANGED <<ent, link, root>>
  BY DEF BeginEntry, flash
<1>2. LookupStays({}) /\ ChainsSound /\ DirBlockSolved /\ Home[p] \in Dirs \cup {Root}
  BY <1>1, LookupUntouched, ChainsHold, DirBlockHolds, Given
<1>3. PICK b \in Blocks : b = DirBlock[Home[p]]
  BY <1>1, <1>2 DEF DirBlockSolved, Optional
<1>4. PICK c : c = LastInChain(b)
  OBVIOUS
<1>5. c \in Chain[b] /\ link[c] = None
  <2>1. \E x \in Chain[b] : link[x] = None
    BY <1>2, ChainHasLast DEF ChainsSound
  <2> QED
    BY <1>4, <2>1 DEF LastInChain
<1>6. Chain'[DirBlock'[Home[p]]] = Chain[b]
  BY <1>1, <1>2, <1>3 DEF LookupStays
<1>7. op'.path = p /\ op'.dir = c
  BY <1>1, <1>3, <1>4 DEF NoOp
<1>8. link' = link
  BY <1>1
<1> QED
  BY <1>1, <1>5, <1>6, <1>7, <1>8 DEF Places, Making, Adding

LEMMA BeginAppendPlaces ==
    ASSUME TypeOK, TreeInv, TypeOK', TreeInv', NEW f \in Files, BeginAppend(f, FALSE)
    PROVE  Places'
<1>1. /\ UNCHANGED <<ent, link, root>> /\ pc' = "data" /\ f \in Paths
  BY Given DEF BeginAppend, flash
<1>2. PICK place \in Find(f) : \E s :
         op' = [NoOp EXCEPT !.call = "append", !.path = f, !.dir = place[1],
                            !.slot = place[2], !.seq = s, !.block = None]
  BY DEF BeginAppend
<1>3. LookupStays({}) /\ Contents /\ NoCycle
  BY <1>1, LookupUntouched, TreeChains
<1>4. PICK b \in Blocks, i \in Idx : place = <<b, i>> /\ DirBlock[Home[f]] \in Blocks
  BY <1>1, <1>3, PlaceFound
<1>5. <<b, i>> \in Find(f) /\ DirBlock[Home[f]] # None
  BY <1>2, <1>4, Given
<1>6. (<<b, i>> \in Find(f))'
  BY <1>1, <1>3, <1>5 DEF LookupStays
<1>7. op'.path = f /\ op'.dir = b /\ op'.slot = i
  BY <1>2, <1>4 DEF NoOp
<1> QED
  BY <1>1, <1>6, <1>7 DEF Places, Making, Adding

\* A chain that becomes longer keeps what it had.
LEMMA ChainLonger ==
    ASSUME NEW f \in Links, NEW g \in Links, NEW C, NEW D, AreChains(f, C), AreChains(g, D),
           Founded(f), NEW c \in Blocks, \A y \in Blocks : y # c => g[y] = f[y],
           NEW x \in Blocks, c \in C[x]
    PROVE  c \in D[x]
<1> DEFINE T == {y \in Blocks : c \in C[y] /\ c \notin D[y]}
<1>1. ASSUME T # {} PROVE FALSE
  <2>1. PICK y \in T : f[y] \notin T
    BY <1>1 DEF Founded
  <2>2. C[y] = {y} \cup C[f[y]] /\ D[y] = {y} \cup D[g[y]] /\ C[None] = {} /\ f[y] \in Optional
    BY DEF AreChains, Links
  <2>3. y # c /\ g[y] = f[y]
    BY <2>2
  <2>4. f[y] \in Blocks /\ c \in C[f[y]]
    BY <2>2, <2>3 DEF Optional
  <2> QED
    BY <2>1, <2>2, <2>3, <2>4
<1> QED
  BY <1>1

LEMMA ExtendPlaces ==
    ASSUME TypeOK, TreeInv, TypeOK', TreeInv', Places, ExtendDir
    PROVE  Places'
<1>1. /\ pc = "extend" /\ pc' = "block" /\ pc # "dangling" /\ UNCHANGED <<ent, root>>
  BY DEF ExtendDir
<1>2. PICK b \in Blocks : /\ Allocate(b, "dir") /\ link' = [link EXCEPT ![op.dir] = b]
                          /\ op' = [op EXCEPT !.dir = b, !.slot = 1]
  BY DEF ExtendDir
<1>3. b # op.dir /\ link[b] = None
  BY <1>1, <1>2, Allocated
<1>4. /\ ChainsSound /\ ChainsSound' /\ DirBlockSolved /\ DirBlockSolved' /\ LookupSolved /\ LookupSolved'
      /\ MakesEntry
  BY <1>1, Before, ChainsHold, ChainsNext, DirBlockHolds, DirBlockNext, LookupHolds, LookupNext DEF Holds
<1>5. PICK c \in Blocks, p \in Paths : c = op.dir /\ p = op.path
  BY <1>1, <1>4, Given DEF MakesEntry, TypeOK
<1>6. link'[b] = None /\ \A y \in Blocks : link'[y] = IF y = c THEN b ELSE link[y]
  BY <1>2, <1>3, <1>5 DEF TypeOK
<1>7. op'.path = p /\ op'.dir = b
  BY <1>2, <1>5 DEF TypeOK
<1>8. c \in Chain[DirBlock[Home[p]]] /\ Home[p] \in Dirs \cup {Root}
  BY <1>1, <1>5, Given DEF Places, Making
<1>9. PICK h \in Blocks : h = DirBlock[Home[p]]
  BY <1>4, <1>8 DEF DirBlockSolved, Optional, ChainsSound, AreChains
<1>10. DirBlock'[Home[p]] = h
  <2> DEFINE S == {d \in Dirs \cup {Root} : DirBlock'[d] = DirBlock[d]}
  <2>1. Root \in S
    BY <1>1, <1>4 DEF LookupSolved
  <2>2. ASSUME NEW d \in Dirs, Home[d] \in S PROVE d \in S
    <3>1. PICK x \in Optional : x = DirBlock[Home[d]] /\ x = DirBlock'[Home[d]]
      BY <1>4, <2>2, Given DEF DirBlockSolved
    <3>2. DirBlock[d] = DirIn(x, d) /\ DirBlock'[d] = DirIn(x, d)'
      BY <1>4, <3>1 DEF LookupSolved
    <3>3. EntriesFor(x, d)' = EntriesFor(x, d)
      BY <1>1 DEF EntriesFor, Live
    <3>4. DirIn(x, d)' = DirIn(x, d)
      BY <1>1, <3>3 DEF DirIn
    <3> QED
      BY <3>2, <3>4
  <2> HIDE DEF S
  <2>3. \A d \in Dirs \cup {Root} : d \in S
    BY <2>1, <2>2, HomeInduction
  <2> QED
    BY <1>8, <1>9, <2>3 DEF S
<1>11. c \in Chain'[h]
  <2>1. c \in Chain[h] /\ \A y \in Blocks : y # c => link'[y] = link[y]
    BY <1>6, <1>8, <1>9
  <2> QED
    BY <1>4, <2>1, ChainLonger DEF ChainsSound
<1>12. b \in Chain'[h]
  <2>1. Closed(link', Chain'[h]) /\ b # None
    BY <1>4, Given DEF ChainsSound, AreChains
  <2> QED
    BY <1>6, <1>11, <2>1 DEF Closed
<1> QED
  BY <1>1, <1>6, <1>7, <1>10, <1>12 DEF Places, Making, Adding

LEMMA ZeroEntryPlaces ==
    ASSUME TypeOK, TreeInv, TypeOK', TreeInv', Places, ZeroEntry
    PROVE  Places'
<1>1. /\ TopFreed /\ AtVictim /\ ent' = [ent EXCEPT ![Top.dir][Top.at] = ZeroedEntry(@)]
      /\ UNCHANGED <<link, root, pc, op>>
  BY DEF ZeroEntry, TopFreed
<1>2. /\ pc # "dangling" /\ Top.dir \in Blocks /\ Top.at \in Idx
      /\ TopEntry = ent[Top.dir][Top.at] /\ TopEntry.reclaimable /\ Shape
  BY <1>1, VictimIs, ShapeHolds
<1>3. PICK d \in Blocks, s \in Idx : d = Top.dir /\ s = Top.at
  BY <1>2
<1>4. PICK o \in Entry : o = ent[d][s] /\ o.reclaimable
  BY <1>2, <1>3 DEF Shape
<1>5. PICK e : e = ZeroedEntry(o)
  OBVIOUS
<1>6. e.used = o.used /\ e.reclaimable = o.reclaimable
  BY <1>5 DEF ZeroedEntry, Entry
<1>7. \A b \in Blocks, i \in Idx : ent'[b][i] = IF b = d /\ i = s THEN e ELSE ent[b][i]
  <2>1. ent' = [ent EXCEPT ![d] = [ent[d] EXCEPT ![s] = e]]
    BY <1>1, <1>3, <1>4, <1>5 DEF TypeOK
  <2>2. PICK row : row = [ent[d] EXCEPT ![s] = e]
    OBVIOUS
  <2>3. ent[d] \in [Idx -> Entry] /\ ent \in [Blocks -> [Idx -> Entry]]
    BY DEF TypeOK
  <2>4. row[s] = e /\ \A i \in Idx : i # s => row[i] = ent[d][i]
    BY <2>2, <2>3
  <2>5. ent'[d] = row /\ \A b \in Blocks : b # d => ent'[b] = ent[b]
    BY <2>1, <2>2, <2>3
  <2> QED
    BY <2>4, <2>5
<1>8. /\ \A b \in Blocks, i \in Idx : b # d \/ i # s => ent'[b][i] = ent[b][i]
      /\ ent'[d][s].used = ent[d][s].used /\ ~Live(ent'[d][s]) /\ ~Live(ent[d][s])
  BY <1>4, <1>6, <1>7 DEF Live
<1>9. /\ \A x \in Blocks, p \in Paths : EntriesFor(x, p)' = EntriesFor(x, p)
      /\ \A x \in Blocks, p \in Dirs : DirIn(x, p)' = DirIn(x, p)
  BY <1>2, <1>8, EntriesKept
<1>10. LookupStays({})
  BY <1>1, <1>9, LookupKept
<1>11. pc \in Making => link'[op.dir] = None
  BY <1>1 DEF Places
<1> QED
  BY <1>1, <1>2, <1>10, <1>11, PlacesKept

LEMMA MigratePlaces ==
    ASSUME TypeOK, TreeInv, TypeOK', TreeInv', Places, Migrate
    PROVE  Places'
<1>1. /\ pc = "indir" /\ pc' = "seq" /\ UNCHANGED <<link, root, op>> /\ pc # "dangling"
  BY DEF Migrate
<1>2. PICK b \in Blocks : /\ Allocate(b, "indir")
                          /\ ent' = [ent EXCEPT ![op.dir][op.slot].next = Append(@, b)]
  BY DEF Migrate
<1>3. Shape /\ Strict /\ walk = <<>>
  BY <1>1, <1>2, Allocated, ShapeHolds
<1>4. /\ op.dir \in Blocks /\ op.slot \in Idx /\ op.path \in Files
      /\ OpEntry = ent[op.dir][op.slot] /\ OpEntry.path = op.path
  BY <1>1, <1>3, AppendIs
<1>5. PICK d \in Blocks, s \in Idx : d = op.dir /\ s = op.slot
  BY <1>4
<1>6. PICK o \in Entry : o = ent[d][s] /\ o.path \notin Dirs
  BY <1>3, <1>4, <1>5, Given DEF Shape
<1>7. PICK e : e = [o EXCEPT !.next = Append(@, b)]
  OBVIOUS
<1>8. e.used = o.used /\ e.committed = o.committed /\ e.reclaimable = o.reclaimable /\ e.path = o.path
  BY <1>7 DEF Entry
<1>9. \A x \in Blocks, i \in Idx : ent'[x][i] = IF x = d /\ i = s THEN e ELSE ent[x][i]
  <2>1. ent' = [ent EXCEPT ![d] = [ent[d] EXCEPT ![s] = e]]
    BY <1>2, <1>5, <1>6, <1>7 DEF TypeOK, Entry
  <2>2. PICK row : row = [ent[d] EXCEPT ![s] = e]
    OBVIOUS
  <2>3. ent[d] \in [Idx -> Entry] /\ ent \in [Blocks -> [Idx -> Entry]]
    BY DEF TypeOK
  <2>4. row[s] = e /\ \A i \in Idx : i # s => row[i] = ent[d][i]
    BY <2>2, <2>3
  <2>5. ent'[d] = row /\ \A x \in Blocks : x # d => ent'[x] = ent[x]
    BY <2>1, <2>2, <2>3
  <2> QED
    BY <2>4, <2>5
<1>10. /\ \A x \in Blocks, i \in Idx : x # d \/ i # s => ent'[x][i] = ent[x][i]
       /\ ent'[d][s].used = ent[d][s].used
       /\ (Live(ent'[d][s]) <=> Live(ent[d][s]))
       /\ ent'[d][s].path = ent[d][s].path /\ ent[d][s].path \notin Dirs
  BY <1>6, <1>8, <1>9 DEF Live
<1>11. /\ \A x \in Blocks, p \in Paths : EntriesFor(x, p)' = EntriesFor(x, p)
       /\ \A x \in Blocks, p \in Dirs : DirIn(x, p)' = DirIn(x, p)
  BY <1>3, <1>10, EntriesKept
<1>12. LookupStays({})
  BY <1>1, <1>11, LookupKept
<1> QED
  BY <1>1, <1>12, PlacesKept DEF Making, Adding

\* What nothing is linked to is in no other chain.
LEMMA NotAfter ==
    ASSUME NEW f \in Links, NEW C, AreChains(f, C), NEW b \in Blocks, \A y \in Blocks : f[y] # b,
           NEW x \in Blocks, x # b
    PROVE  b \notin C[x]
<1> DEFINE S == Blocks \ {b}
<1>1. S \in SUBSET Blocks /\ x \in S
  OBVIOUS
<1>2. Closed(f, S)
  BY DEF Closed, Links, Optional
<1>3. C[x] \subseteq S
  BY <1>1, <1>2 DEF AreChains
<1> QED
  BY <1>3

\* The first block b of a directory, with nothing in it, is taken from its chain.
LEMMA HeadTaken ==
    ASSUME TypeOK, TreeInv, TypeOK', TreeInv', NEW b \in Blocks, NEW c \in Blocks, link[b] = c,
           \A y \in Blocks : link[y] # b, ~EntriesLeft(b),
           \A y \in Blocks : link'[y] = IF y = b THEN None ELSE link[y],
           root' = IF root = b THEN c ELSE root,
           \A x \in Blocks, p \in Paths : x # b => EntriesFor(x, p)' = EntriesFor(x, p),
           \A x \in Blocks, d \in Dirs : x # b /\ DirIn(x, d) # None =>
              DirIn(x, d)' = IF DirIn(x, d) = b THEN c ELSE DirIn(x, d)
    PROVE  LookupStays({b})
<1>1. ChainsSound /\ ChainsSound' /\ Shape /\ b # c
  BY ChainsHold, ChainsNext, ShapeHolds DEF ChainsSound
<1> DEFINE f == [x \in Blocks |-> IF x = b THEN c ELSE x]
<1>2. f[b] = c /\ \A x \in Blocks : x # b => f[x] = x
  OBVIOUS
<1>3. f[root] = root'
  BY DEF TypeOK
<1> HIDE DEF f
<1>4. \A x \in Blocks : Chain[x] \subseteq Blocks /\ Chain[x] = {x} \cup Chain[link[x]]
  BY <1>1 DEF ChainsSound, AreChains
<1>5. \A x \in Blocks : x # b => b \notin Chain[x]
  BY <1>1, NotAfter DEF ChainsSound
<1>6. ASSUME NEW x \in Blocks, x # b PROVE Chain'[x] = Chain[x]
  <2>1. \A y \in Chain[x] : link'[y] = link[y]
    BY <1>4, <1>5, <1>6
  <2> QED
    BY <1>1, <2>1, ChainKept DEF ChainsSound
<1>7. Chain'[c] = Chain[b] \ {b}
  BY <1>1, <1>4, <1>5, <1>6
<1>8. \A x \in Blocks : f[x] \in Blocks /\ Chain'[f[x]] = Chain[x] \ {b}
  BY <1>2, <1>5, <1>6, <1>7
<1>9. \A p \in Paths : EntriesFor(b, p) = {}
  <2>1. \A i \in Idx : ent[b][i].path = Zeroed
    BY NoEntriesLeft
  <2> QED
    BY <2>1, Given DEF EntriesFor
<1>10. ASSUME NEW x \in Blocks, NEW d \in Dirs, DirIn(x, d) # None
       PROVE  DirIn(f[x], d)' = f[DirIn(x, d)]
  <2>1. d \in Paths /\ EntriesFor(x, d) # {}
    BY <1>10, Given DEF DirIn
  <2>2. x # b
    BY <1>9, <2>1
  <2>3. DirIn(x, d) \in Blocks
    <3>1. DirIn(x, d) = Last(ent[x][Min(EntriesFor(x, d))].next)
      BY <2>1, Given DEF DirIn
    <3> QED
      BY <1>1, <2>1, <3>1, EntryFound
  <2>4. DirIn(x, d)' = f[DirIn(x, d)]
    BY <1>2, <1>10, <2>2, <2>3
  <2> QED
    BY <1>2, <2>2, <2>4
<1>11. {b} \in SUBSET Blocks /\ \A x \in Blocks \ {b}, p \in Paths : EntriesFor(x, p)' = EntriesFor(x, p)
  OBVIOUS
<1>12. \A x \in Blocks \ {b} : Chain'[x] = Chain[x]
  BY <1>6
<1>13. \A x \in {b}, p \in Paths : EntriesFor(x, p) = {}
  BY <1>9
<1> QED
  BY <1>3, <1>4, <1>8, <1>10, <1>11, <1>12, <1>13, FindKept

LEMMA MigrateRootPlaces ==
    ASSUME TypeOK, TreeInv, TypeOK', TreeInv', Places, MigrateRoot
    PROVE  Places'
<1>1. /\ AtEnd /\ ~EntriesLeft(root) /\ link[root] # None /\ root' = link[root]
      /\ ent' = [ent EXCEPT ![root] = ErasedDir] /\ link' = [link EXCEPT ![root] = None]
      /\ UNCHANGED <<pc, op>>
  BY DEF MigrateRoot, FreeDirBlock
<1>2. pc # "dangling" /\ One /\ Shape
  BY <1>1, AtEndIs, Before
<1>3. PICK b \in Blocks, c \in Blocks : b = root /\ c = link[b]
  BY <1>1 DEF TypeOK
<1>4. /\ \A y \in Blocks : link[y] # b
      /\ \A x \in Blocks, i \in Idx : To(x, i) # b
  BY <1>2, <1>3, Given DEF One
<1>5. /\ \A y \in Blocks : link'[y] = IF y = b THEN None ELSE link[y]
      /\ \A x \in Blocks : x # b => ent'[x] = ent[x]
  BY <1>1, <1>3 DEF TypeOK
<1>6. ASSUME NEW x \in Blocks, NEW p \in Paths, x # b PROVE EntriesFor(x, p)' = EntriesFor(x, p)
  BY <1>5, <1>6 DEF EntriesFor, Live
<1>7. ASSUME NEW x \in Blocks, NEW d \in Dirs, x # b, DirIn(x, d) # None
      PROVE  DirIn(x, d)' = IF DirIn(x, d) = b THEN c ELSE DirIn(x, d)
  <2>1. d \in Paths /\ EntriesFor(x, d) # {}
    BY <1>7, Given DEF DirIn
  <2>2. DirIn(x, d)' = DirIn(x, d)
    BY <1>5, <1>6, <1>7, <2>1 DEF DirIn
  <2>3. DirIn(x, d) = Last(ent[x][Min(EntriesFor(x, d))].next)
    BY <2>1, Given DEF DirIn
  <2>4. DirIn(x, d) # b
    BY <1>2, <1>4, <2>1, <2>3, EntryFound
  <2> QED
    BY <2>2, <2>4
<1>8. LookupStays({b})
  BY <1>1, <1>3, <1>4, <1>5, <1>6, <1>7, HeadTaken
<1>9. pc \in Making => op.dir \notin {b} /\ link'[op.dir] = None
  <2>1. op.dir \in Optional
    BY DEF TypeOK, Optional
  <2>2. pc \in Making => op.dir # None
    BY <1>2, Before DEF Holds, MakesEntry, Making
  <2> QED
    BY <1>1, <1>3, <1>5, <2>1, <2>2 DEF Places, Optional
<1> QED
  BY <1>1, <1>2, <1>8, <1>9, PlacesKept

LEMMA MigrateDirPlaces ==
    ASSUME TypeOK, TreeInv, TypeOK', TreeInv', Places, MigrateDir
    PROVE  Places'
<1> SUFFICES ASSUME pc' # "dangling" PROVE Places'
  BY DEF Places, Making, Adding
<1>1. /\ AtEnd /\ Len(walk) > 1 /\ UNCHANGED <<root, op>> /\ pc' = pc
      /\ link[Top.dir] # None /\ ~EntriesLeft(Top.dir)
      /\ Len(ent[Above.dir][Above.at].next) < 2
      /\ ent' = [ent EXCEPT ![Above.dir][Above.at].next = Append(@, link[Top.dir]),
                            ![Top.dir] = ErasedDir]
      /\ link' = [link EXCEPT ![Top.dir] = None]
  BY DEF MigrateDir, FreeDirBlock
<1>2. pc # "dangling" /\ One /\ Shape /\ NoCycle /\ Contents /\ walk # <<>> /\ Top.dir \in Blocks
  BY <1>1, AtEndIs, Before
<1>3. Above \in Frames /\ Above.at \in Idx /\ To(Above.dir, Above.at) = Top.dir
  BY <1>1, <1>2, WayAbove
<1>4. PICK b \in Blocks, p \in Blocks, n \in Idx, c \in Blocks :
         b = Top.dir /\ p = Above.dir /\ n = Above.at /\ c = link[b]
  BY <1>1, <1>2, <1>3 DEF Frames, TypeOK
<1>5. To(p, n) = b /\ link[b] = c /\ b # None
  BY <1>3, <1>4, Given
<1>6. p # b
  <2>1. {b} \in SUBSET Blocks /\ {b} # {} /\ b \in Kids(p)
    BY <1>5 DEF Kids
  <2> QED
    BY <1>2, <2>1 DEF NoCycle
<1>7. /\ root # b
      /\ \A y \in Blocks : link[y] # b
      /\ \A x \in Blocks, i \in Idx : To(x, i) = b => x = p /\ i = n
  BY <1>2, <1>5 DEF One
<1>8. PICK o \in Entry : o = ent[p][n] /\ Len(o.next) = 1
  <2>1. ent[p][n] \in Entry /\ Len(ent[p][n].next) \in 1 .. 2 /\ Len(ent[p][n].next) < 2
    BY <1>1, <1>2, <1>4, <1>5 DEF Shape
  <2>2. ent[p][n] \in Entry /\ Len(ent[p][n].next) = 1
    BY <2>1
  <2> QED
    BY <2>2
<1>9. PICK q : q = Append(o.next, c)
  OBVIOUS
<1>10. q \in Seq(Blocks) /\ Last(q) = c
  <2>1. o.next \in Seq(Blocks)
    BY DEF Entry
  <2>2. \A y \in Blocks : \A t : t = Append(o.next, y) =>
           t \in Seq(Blocks) /\ t # <<>> /\ Len(t) = Len(o.next) + 1 /\ Last(t) = y
    BY <2>1, Pushed
  <2> QED
    BY <1>9, <2>2, Zenon
<1>11. PICK e : e = [o EXCEPT !.next = q]
  OBVIOUS
<1>12. /\ e.used = o.used /\ e.committed = o.committed /\ e.reclaimable = o.reclaimable
       /\ e.path = o.path /\ e.next = q
  BY <1>11 DEF Entry
<1>13. /\ \A x \in Blocks : x # b /\ x # p => ent'[x] = ent[x]
       /\ \A i \in Idx : ent'[p][i] = IF i = n THEN e ELSE ent[p][i]
  <2>1. ent' = [ent EXCEPT ![p] = [ent[p] EXCEPT ![n] = e], ![b] = ErasedDir]
    BY <1>1, <1>4, <1>8, <1>9, <1>11 DEF TypeOK, Entry
  <2>2. PICK row : row = [ent[p] EXCEPT ![n] = e]
    OBVIOUS
  <2>3. ent[p] \in [Idx -> Entry] /\ ent \in [Blocks -> [Idx -> Entry]]
    BY DEF TypeOK
  <2>4. row[n] = e /\ \A i \in Idx : i # n => row[i] = ent[p][i]
    BY <2>2, <2>3
  <2>5. ent' = [[ent EXCEPT ![p] = row] EXCEPT ![b] = ErasedDir]
    BY <2>1, <2>2
  <2>6. ent'[p] = row /\ \A x \in Blocks : x # b /\ x # p => ent'[x] = ent[x]
    BY <1>6, <2>3, <2>5
  <2> QED
    BY <2>4, <2>6
<1>14. \A y \in Blocks : link'[y] = IF y = b THEN None ELSE link[y]
  BY <1>1, <1>4 DEF TypeOK
<1>15. \A x \in Blocks, i \in Idx : x # b =>
          /\ ent'[x][i].used = ent[x][i].used /\ ent'[x][i].path = ent[x][i].path
          /\ (Live(ent'[x][i]) <=> Live(ent[x][i]))
  BY <1>8, <1>12, <1>13 DEF Live
<1>16. ASSUME NEW x \in Blocks, NEW a \in Paths, x # b PROVE EntriesFor(x, a)' = EntriesFor(x, a)
  <2>1. \A i \in Idx : \A j \in 1 .. i : j \in Idx
    BY Given DEF Idx
  <2>2. \A i \in Idx : i \in EntriesFor(x, a)' <=> i \in EntriesFor(x, a)
    BY <1>15, <1>16, <2>1 DEF EntriesFor
  <2> QED
    BY <2>2 DEF EntriesFor
<1>17. ASSUME NEW x \in Blocks, NEW d \in Dirs, x # b, DirIn(x, d) # None
       PROVE  DirIn(x, d)' = IF DirIn(x, d) = b THEN c ELSE DirIn(x, d)
  <2>1. d \in Paths /\ EntriesFor(x, d) # {}
    BY <1>17, Given DEF DirIn
  <2>2. PICK i \in Idx : i = Min(EntriesFor(x, d)) /\ To(x, i) = Last(ent[x][i].next)
    BY <1>2, <2>1, EntryFound
  <2>3. DirIn(x, d) = To(x, i)
    BY <2>1, <2>2, Given DEF DirIn
  <2>4. DirIn(x, d)' = Last(ent'[x][i].next)
    BY <1>16, <1>17, <2>1, <2>2, Given DEF DirIn
  <2>5. CASE x = p /\ i = n
    BY <1>5, <1>10, <1>12, <1>13, <2>3, <2>4, <2>5
  <2>6. CASE ~(x = p /\ i = n)
    <3>1. ent'[x][i] = ent[x][i] /\ To(x, i) # b
      BY <1>7, <1>13, <1>17, <2>6
    <3> QED
      BY <2>2, <2>3, <2>4, <3>1
  <2> QED
    BY <2>5, <2>6
<1>18. LookupStays({b})
  BY <1>1, <1>4, <1>5, <1>7, <1>14, <1>16, <1>17, HeadTaken
<1>19. pc \in Making => op.dir \notin {b} /\ link'[op.dir] = None
  <2>1. op.dir \in Optional
    BY DEF TypeOK, Optional
  <2>2. pc \in Making => op.dir # None
    BY <1>2, Before DEF Holds, MakesEntry, Making
  <2> QED
    BY <1>1, <1>5, <1>4, <1>14, <2>1, <2>2, Given DEF Places, Optional
<1> QED
  BY <1>1, <1>2, <1>18, <1>19, PlacesKept

LEMMA QuietCollectPlaces ==
    ASSUME TypeOK, TreeInv, TypeOK', TreeInv', Places,
           StartGc \/ SkipZeroed \/ KeepEntry \/ Descend \/ LeaveDir
    PROVE  Places'
<1>1. UNCHANGED <<ent, link, root, pc, op>> /\ pc # "dangling"
  <2>1. UNCHANGED <<ent, link, root, pc, op>>
    BY DEF StartGc, SkipZeroed, KeepEntry, Descend, LeaveDir, flash
  <2>2. walk # <<>> \/ pc \in Allocating
    BY DEF StartGc, SkipZeroed, KeepEntry, Descend, LeaveDir, AtEntry, AtEnd
  <2> QED
    BY <2>1, <2>2, InWalk DEF Allocating
<1> QED
  BY <1>1, PlacesQuiet

LEMMA FreeingPlaces ==
    ASSUME TypeOK, TreeInv, TypeOK', TreeInv', Places,
           ZeroDataRef \/ ZeroSeqRef \/ FreeVictim \/ FreeTop
    PROVE  Places'
<1>1. UNCHANGED <<ent, link, root, pc>>
  BY DEF ZeroDataRef, ZeroSeqRef, FreeVictim, FreeTop
<1>2. op' = op \/ \E v : op' = [op EXCEPT !.victim = v]
  BY DEF ZeroDataRef, ZeroSeqRef, FreeVictim, FreeTop
<1>3. op'.path = op.path /\ op'.dir = op.dir /\ op'.slot = op.slot
  BY <1>2 DEF TypeOK
<1>4. pc # "dangling"
  <2>1. AtVictim \/ op.victim # None
    BY DEF ZeroDataRef, ZeroSeqRef, FreeVictim, FreeTop
  <2>2. walk # <<>>
    BY <2>1 DEF AtVictim, AtEntry, TreeInv, Collecting
  <2> QED
    BY <2>2, InWalk DEF Allocating
<1> QED
  BY <1>1, <1>3, <1>4, PlacesQuiet

LEMMA TakingPlaces ==
    ASSUME TypeOK, TreeInv, TypeOK', TreeInv', Places, TakeBlock \/ TakeData \/ NewSeqBlock
    PROVE  Places'
<1>1. UNCHANGED <<ent, link, root>>
  BY DEF TakeBlock, TakeData, NewSeqBlock
<1>2. \E b : op' = [op EXCEPT !.block = b] \/ op' = [op EXCEPT !.seq = b]
  BY DEF TakeBlock, TakeData, NewSeqBlock
<1>3. op'.path = op.path /\ op'.dir = op.dir /\ op'.slot = op.slot
  BY <1>2 DEF TypeOK
<1>4. \/ pc = "block" /\ pc' = "use"
      \/ pc \in {"data", "seq"} /\ pc' \in {"entry", "seq", "indir"}
  BY DEF TakeBlock, TakeData, NewSeqBlock, PcForEntry
<1>5. pc # "dangling" /\ (pc' \in Making => pc \in Making) /\ (pc' \in Adding => pc \in Adding)
  BY <1>4 DEF Making, Adding
<1> QED
  BY <1>1, <1>3, <1>5, PlacesQuiet

LEMMA PlacesNext ==
    ASSUME TypeOK, TreeInv, TypeOK', TreeInv', Places, ~ShortFsyncs, [Next]_vars
    PROVE  Places'
<1>1. CASE UNCHANGED vars \/ Halt
  <2>1. UNCHANGED <<ent, link, root, pc, op>>
    BY <1>1 DEF vars, flash, Halt
  <2>2. CASE pc # "dangling"
    BY <2>1, <2>2, PlacesQuiet
  <2>3. CASE pc = "dangling"
    BY <2>1, <2>3 DEF Places, Making, Adding
  <2> QED
    BY <2>2, <2>3
<1>2. CASE Call
  <2>1. CASE \E p \in Paths : RemovePath(p)
    BY <2>1 DEF RemovePath, Places, Making, Adding
  <2>2. CASE \E f \in Files : Register(f)
    BY <2>2, BeginEntryPlaces, Given DEF Register
  <2>3. CASE \E d \in Dirs : Mkdir(d)
    BY <2>3, BeginEntryPlaces, Given DEF Mkdir
  <2>4. CASE \E f \in Files, short \in BOOLEAN : (short => ShortFsyncs) /\ BeginAppend(f, short)
    <3>1. PICK f \in Files, short \in BOOLEAN : (short => ShortFsyncs) /\ BeginAppend(f, short)
      BY <2>4
    <3>2. short = FALSE
      BY <3>1
    <3> QED
      BY <3>1, <3>2, BeginAppendPlaces
  <2> QED
    BY <1>2, <2>1, <2>2, <2>3, <2>4 DEF Call
<1>3. CASE Step
  <2>1. CASE UseEntry \/ WriteEntry \/ CommitEntry \/ RecordData
    <3>1. pc' \in {"write", "commit", "idle"}
      BY <2>1 DEF UseEntry, WriteEntry, CommitEntry, RecordData, Return
    <3> QED
      BY <3>1 DEF Places, Making, Adding
  <2> QED
    BY <1>3, <2>1, ExtendPlaces, MigratePlaces, TakingPlaces DEF Step
<1>4. CASE Collect
  <2>1. CASE NoMemory \/ MigrateRootAllocates \/ MigrateDirNoPtr
    <3>1. pc' \in {"idle", "overflow", "noptr"}
      BY <2>1 DEF NoMemory, MigrateRootAllocates, MigrateDirNoPtr, Return
    <3> QED
      BY <3>1 DEF Places, Making, Adding
  <2> QED
    BY <1>4, <2>1, QuietCollectPlaces, FreeingPlaces, ZeroEntryPlaces, MigrateRootPlaces,
       MigrateDirPlaces DEF Collect
<1>5. CASE Crash
  BY <1>5 DEF Crash, Places, Making, Adding
<1> QED
  BY <1>1, <1>2, <1>3, <1>4, <1>5 DEF Next

LEMMA PlacesRight ==
    ASSUME TypeOK, TreeInv, Places PROVE LocalsStillValid
<1> SUFFICES ASSUME walk = <<>>, pc \in Making \cup Adding
             PROVE  /\ pc \in Making =>
                          /\ op.dir \in Chain[DirBlock[Home[op.path]]]
                          /\ IF pc = "extend" THEN link[op.dir] = None
                             ELSE ent[op.dir][op.slot] = BlankEntry
                    /\ pc \in Adding =>
                          /\ Find(op.path) = {<<op.dir, op.slot>>}
                          /\ LastSeq(EntryOf(<<op.dir, op.slot>>)) = op.seq
  BY DEF LocalsStillValid, Making, Adding
<1>1. pc # "dangling"
  BY DEF Making, Adding
<1>2. MakesEntry /\ Appends /\ ChainsSound /\ Contents /\ NoCycle
  BY <1>1, Before, ChainsHold DEF Holds
<1>3. ASSUME pc \in Making
      PROVE  /\ op.dir \in Chain[DirBlock[Home[op.path]]]
             /\ IF pc = "extend" THEN link[op.dir] = None
                ELSE ent[op.dir][op.slot] = BlankEntry
  BY <1>2, <1>3 DEF Places, MakesEntry, OpEntry, Making
<1>4. ASSUME pc \in Adding
      PROVE  /\ Find(op.path) = {<<op.dir, op.slot>>}
             /\ LastSeq(EntryOf(<<op.dir, op.slot>>)) = op.seq
  <2>1. op.path \in Paths /\ op.dir \in Optional /\ op.slot \in Idx /\ LastSeq(OpEntry) = op.seq
    BY <1>2, <1>4, Given DEF Appends, Adding, TypeOK, Optional
  <2>2. PICK p \in Paths, b \in Optional, i \in Idx : p = op.path /\ b = op.dir /\ i = op.slot
    BY <2>1
  <2>3. <<b, i>> \in Find(p)
    BY <1>4, <2>2 DEF Places
  <2>4. ASSUME NEW x \in Find(p), NEW y \in Find(p) PROVE x = y
    <3>1. PICK c \in With(p) : x = <<c, Min(EntriesFor(c, p))>> /\ With(p) \subseteq Chain[c]
      BY DEF Find
    <3>2. PICK d \in With(p) : y = <<d, Min(EntriesFor(d, p))>> /\ With(p) \subseteq Chain[d]
      BY DEF Find
    <3>3. c \in Blocks /\ d \in Blocks
      <4>1. x[1] = c /\ y[1] = d
        BY <3>1, <3>2
      <4>2. x[1] \in Blocks /\ y[1] \in Blocks
        BY <1>2, PlaceFound
      <4> QED
        BY <4>1, <4>2
    <3>4. c \in Chain[d] /\ d \in Chain[c]
      BY <3>1, <3>2
    <3>5. c = d
      BY <1>2, <3>3, <3>4, ChainOrder DEF ChainsSound
    <3> QED
      BY <3>1, <3>2, <3>5
  <2>5. Find(p) = {<<b, i>>}
    BY <2>3, <2>4
  <2>6. EntryOf(<<op.dir, op.slot>>) = OpEntry
    BY DEF EntryOf, OpEntry
  <2> QED
    BY <2>1, <2>2, <2>5, <2>6
<1> QED
  BY <1>3, <1>4

\* The places that a call chose before allocate_block are the right ones after it,
\* whatever the collector did in between: it takes no block that a call writes an entry
\* to, and moves no entry that a lookup finds.
THEOREM LocalsStayValid == ASSUME ~ShortFsyncs PROVE Spec => []LocalsStillValid
<1>1. Init => TypeOK /\ TreeInv /\ Places
  BY InitHolds DEF Init, Places, Making, Adding
<1>2. TypeOK /\ TreeInv /\ Places /\ [Next]_vars => TypeOK' /\ TreeInv' /\ Places'
  BY NextKeeps, PlacesNext
<1>3. TypeOK /\ TreeInv /\ Places => LocalsStillValid
  BY PlacesRight
<1> QED
  BY <1>1, <1>2, <1>3, PTL DEF Spec

-----------------------------------------------------------------------------
(***************************************************************************)
(* Listing.  A directory whose entry is not in the first block of the one  *)
(* it is in cannot be found as a path segment: it stays empty.             *)
(***************************************************************************)
Later(x) == \E c, b \in Blocks, i \in Idx :
               link[c] = b /\ ent[b][i].path \in Dirs /\ x = To(b, i)
Hollow == \A x \in Blocks : Later(x) => ent[x] = ErasedDir /\ link[x] = None

\* No block is linked to the first block of a directory.
LEMMA HeadUnlinked ==
    ASSUME TypeOK, One, NEW d \in Dirs \cup {Root}, NEW c \in Blocks, DirBlock[d] # None
    PROVE  link[c] # DirBlock[d]
<1>1. Shape /\ DirBlockSolved /\ Root \notin Dirs
  BY ShapeHolds, DirBlockHolds, Given
<1>2. CASE d = Root
  <2>1. DirBlock[d] = root
    BY <1>1, <1>2 DEF DirBlockSolved
  <2> QED
    BY <2>1 DEF One
<1>3. CASE d \in Dirs
  <2>1. PICK b \in Optional : b = DirBlock[Home[d]] /\ DirBlock[d] = DirIn(b, d)
    BY <1>1, <1>3, Given DEF DirBlockSolved
  <2>2. b \in Blocks /\ d \in Paths /\ EntriesFor(b, d) # {}
    BY <1>3, <2>1, Given DEF DirIn, Optional
  <2>3. PICK i \in Idx : To(b, i) = DirIn(b, d) /\ To(b, i) # None
    <3>1. DirIn(b, d) = Last(ent[b][Min(EntriesFor(b, d))].next)
      BY <2>2, Given DEF DirIn
    <3> QED
      BY <1>1, <2>2, <3>1, EntryFound
  <2> QED
    BY <2>1, <2>2, <2>3 DEF One
<1> QED
  BY <1>2, <1>3

\* No block in which a path may be made is that of such a directory.
LEMMA InUseNotLater ==
    ASSUME TypeOK, TreeInv, pc # "dangling", NEW d \in Dirs \cup {Root}, NEW x \in Blocks,
           x \in Chain[DirBlock[d]]
    PROVE  ~Later(x)
<1> SUFFICES ASSUME NEW c \in Blocks, NEW b \in Blocks, NEW i \in Idx,
                    link[c] = b, ent[b][i].path \in Dirs, x = To(b, i)
             PROVE  FALSE
  BY DEF Later
<1>1. One /\ Shape /\ ChainsSound /\ DirBlockSolved /\ x # None /\ b # None
  BY Before, ChainsHold, DirBlockHolds, Given
<1>2. /\ x # root /\ \A y \in Blocks : link[y] # x
      /\ \A y \in Blocks, j \in Idx : To(y, j) = x => y = b
  BY <1>1 DEF One
<1>3. PICK h \in Blocks : h = DirBlock[d]
  BY <1>1 DEF DirBlockSolved, Optional, ChainsSound, AreChains
<1>4. x = h
  BY <1>1, <1>2, <1>3, NotAfter DEF ChainsSound
<1>5. d \in Dirs
  BY <1>1, <1>2, <1>3, <1>4 DEF DirBlockSolved
<1>6. PICK a \in Optional : a = DirBlock[Home[d]] /\ DirBlock[d] = DirIn(a, d)
  BY <1>1, <1>5, Given DEF DirBlockSolved
<1>7. a \in Blocks /\ d \in Paths /\ EntriesFor(a, d) # {}
  BY <1>1, <1>3, <1>4, <1>5, <1>6, Given DEF DirIn, Optional
<1>8. PICK j \in Idx : To(a, j) = DirIn(a, d)
  <2>1. DirIn(a, d) = Last(ent[a][Min(EntriesFor(a, d))].next)
    BY <1>7, Given DEF DirIn
  <2> QED
    BY <1>1, <1>7, <2>1, EntryFound
<1>9. a = b
  BY <1>2, <1>3, <1>4, <1>6, <1>7, <1>8
<1>10. Home[d] \in Dirs \cup {Root} /\ DirBlock[Home[d]] # None
  BY <1>5, <1>6, <1>7, Given
<1>11. link[c] # DirBlock[Home[d]]
  BY <1>1, <1>10, HeadUnlinked
<1> QED
  BY <1>6, <1>9, <1>11

LEMMA WrittenNotLater ==
    ASSUME Hollow, NEW d \in Blocks, NEW s \in Idx, ent[d][s] # BlankEntry
    PROVE  ~Later(d)
BY DEF Hollow, ErasedDir

LEMMA EntryHollow ==
    ASSUME Hollow, link' = link, NEW d \in Blocks, NEW s \in Idx, NEW e,
           \A y \in Blocks, j \in Idx : ent'[y][j] = IF y = d /\ j = s THEN e ELSE ent[y][j],
           \A y \in Blocks : y # d => ent'[y] = ent[y],
           ~Later(d),
           e.path \in Dirs =>
              \/ ent[d][s].path \in Dirs /\ Target(e) = To(d, s)
              \/ Target(e) # d /\ ent[Target(e)] = ErasedDir /\ link[Target(e)] = None
    PROVE  Hollow'
<1> SUFFICES ASSUME NEW x \in Blocks, NEW c \in Blocks, NEW b \in Blocks, NEW i \in Idx,
                    link[c] = b, ent'[b][i].path \in Dirs, x = To(b, i)'
             PROVE  ent'[x] = ErasedDir /\ link[x] = None
  BY DEF Hollow, Later
<1>1. ASSUME Later(x) PROVE ent'[x] = ErasedDir /\ link[x] = None
  BY <1>1 DEF Hollow
<1>2. CASE ~(b = d /\ i = s)
  <2>1. ent'[b][i] = ent[b][i]
    BY <1>2
  <2>2. To(b, i)' = To(b, i)
    BY <2>1 DEF To
  <2>3. Later(x)
    BY <2>1, <2>2 DEF Later
  <2> QED
    BY <1>1, <2>3
<1>3. CASE b = d /\ i = s
  <2>1. ent'[b][i] = e /\ e.path \in Dirs
    BY <1>3
  <2>2. x = Target(e)
    BY <2>1 DEF To, Target
  <2>3. CASE ent[d][s].path \in Dirs /\ Target(e) = To(d, s)
    <3>1. Later(x)
      BY <1>3, <2>2, <2>3 DEF Later
    <3> QED
      BY <1>1, <3>1
  <2>4. CASE Target(e) # d /\ ent[Target(e)] = ErasedDir /\ link[Target(e)] = None
    BY <2>2, <2>4
  <2> QED
    BY <2>1, <2>3, <2>4
<1> QED
  BY <1>2, <1>3

LEMMA UseHollow ==
    ASSUME TypeOK, TreeInv, Places, Hollow, UseEntry
    PROVE  Hollow'
<1>1. /\ pc = "use" /\ pc # "dangling" /\ link' = link
      /\ op.dir \in Blocks /\ op.slot \in Idx /\ op.path \in Paths
      /\ OpEntry = BlankEntry
  BY WritingIs DEF UseEntry, MakesEntry
<1>2. PICK d \in Blocks, s \in Idx, p \in Paths : d = op.dir /\ s = op.slot /\ p = op.path
  BY <1>1
<1>3. PICK e : e = [ent[d][s] EXCEPT !.used = TRUE]
  OBVIOUS
<1>4. e.path = Blank /\ e.path \notin Dirs
  BY <1>1, <1>2, <1>3, Given DEF OpEntry, BlankEntry
<1>5. /\ \A y \in Blocks, j \in Idx : ent'[y][j] = IF y = d /\ j = s THEN e ELSE ent[y][j]
      /\ \A y \in Blocks : y # d => ent'[y] = ent[y]
  BY <1>2, <1>3 DEF UseEntry, TypeOK
<1>6. ~Later(d)
  <2>1. d \in Chain[DirBlock[Home[p]]] /\ Home[p] \in Dirs \cup {Root}
    BY <1>1, <1>2, Given DEF Places, Making
  <2> QED
    BY <1>1, <2>1, InUseNotLater
<1> QED
  BY <1>1, <1>4, <1>5, <1>6, EntryHollow

LEMMA WriteHollow ==
    ASSUME TypeOK, TreeInv, Hollow, WriteEntry
    PROVE  Hollow'
<1>1. /\ pc = "write" /\ link' = link
      /\ op.dir \in Blocks /\ op.slot \in Idx /\ op.block \in Optional
      /\ OpEntry = [BlankEntry EXCEPT !.used = TRUE]
      /\ op.block # op.dir /\ ent[op.block] = ErasedDir /\ link[op.block] = None
  BY WritingIs DEF WriteEntry, MakesEntry
<1>2. PICK d \in Blocks, s \in Idx, x \in Optional : d = op.dir /\ s = op.slot /\ x = op.block
  BY <1>1
<1>3. ent[d][s] = [BlankEntry EXCEPT !.used = TRUE] /\ ent[d][s] \in Entry
  BY <1>1, <1>2 DEF OpEntry, TypeOK
<1>4. PICK e : e = [ent[d][s] EXCEPT !.path = op.path, !.next = <<x>>]
  OBVIOUS
<1>5. Target(e) = x
  <2>1. e.next = <<x>>
    BY <1>3, <1>4 DEF Entry
  <2> QED
    BY <2>1 DEF Target, Last
<1>6. /\ \A y \in Blocks, j \in Idx : ent'[y][j] = IF y = d /\ j = s THEN e ELSE ent[y][j]
      /\ \A y \in Blocks : y # d => ent'[y] = ent[y]
  <2>1. Writes(d, s, e)
    <3>1. ent \in [Blocks -> [Idx -> Entry]] /\ ent[d] \in [Idx -> Entry]
      BY DEF TypeOK
    <3>2. ent' = [ent EXCEPT ![d][s].path = op.path, ![d][s].next = <<x>>]
      BY <1>2 DEF WriteEntry
    <3> QED
      BY <1>3, <1>4, <3>1, <3>2 DEF Entry, Writes
  <2>2. ent \in [Blocks -> [Idx -> Entry]] /\ ent' = [ent EXCEPT ![d] = [ent[d] EXCEPT ![s] = e]]
    BY <2>1 DEF TypeOK, Writes
  <2>3. PICK row : row = [ent[d] EXCEPT ![s] = e]
    OBVIOUS
  <2>4. row[s] = e /\ \A j \in Idx : j # s => row[j] = ent[d][j]
    BY <2>2, <2>3
  <2>5. ent'[d] = row /\ \A y \in Blocks : y # d => ent'[y] = ent[y]
    BY <2>2, <2>3
  <2> QED
    BY <2>4, <2>5
<1>7. ~Later(d)
  <2>1. ent[d][s] # BlankEntry
    BY <1>3 DEF BlankEntry
  <2> QED
    BY <2>1, WrittenNotLater
<1> QED
  BY <1>1, <1>2, <1>5, <1>6, <1>7, EntryHollow

\* The steps that write to an entry that is not blank
LEMMA RewriteHollow ==
    ASSUME TypeOK, TreeInv, Hollow,
           CommitEntry \/ Migrate \/ ZeroEntry \/ \E p \in Paths : RemovePath(p)
    PROVE  Hollow'
<1>1. link' = link
  BY DEF CommitEntry, Migrate, ZeroEntry, RemovePath
<1>2. PICK d \in Blocks, s \in Idx : \E e :
         /\ Writes(d, s, e) /\ ent[d][s] # BlankEntry
         /\ e.path \in Dirs => e.path = ent[d][s].path /\ e.next = ent[d][s].next
  <2>1. CASE CommitEntry
    <3>1. PICK d \in Blocks, s \in Idx : d = op.dir /\ s = op.slot
      BY <2>1, WritingIs DEF CommitEntry
    <3>2. ent[d][s] \in Entry /\ ent[d][s].used
      <4>1. pc = "commit" /\ MakesEntry
        BY <2>1, WritingIs DEF CommitEntry
      <4>2. ent[d][s] = [BlankEntry EXCEPT !.used = TRUE, !.path = op.path, !.next = <<op.block>>]
        BY <3>1, <4>1 DEF MakesEntry, OpEntry
      <4>3. ent[d][s].used
        BY <4>2 DEF BlankEntry
      <4> QED
        BY <3>1, <4>3 DEF TypeOK
    <3>3. PICK e : e = [ent[d][s] EXCEPT !.committed = TRUE]
      OBVIOUS
    <3>4. Writes(d, s, e)
      BY <2>1, <3>1, <3>2, <3>3 DEF CommitEntry, Writes, Entry, TypeOK
    <3>5. ent[d][s] # BlankEntry
      BY <3>2 DEF BlankEntry
    <3>6. e.path = ent[d][s].path /\ e.next = ent[d][s].next
      BY <3>2, <3>3 DEF Entry
    <3> QED
      BY <3>4, <3>5, <3>6
  <2>2. CASE Migrate
    <3>1. PICK b \in Blocks : /\ Allocate(b, "indir")
                              /\ ent' = [ent EXCEPT ![op.dir][op.slot].next = Append(@, b)]
      BY <2>2 DEF Migrate
    <3>2. pc = "indir" /\ pc # "dangling"
      BY <2>2 DEF Migrate
    <3>3. walk = <<>> /\ Strict
      BY <3>1, <3>2, Allocated
    <3>4. /\ op.dir \in Blocks /\ op.slot \in Idx /\ op.path \in Files
          /\ OpEntry = ent[op.dir][op.slot] /\ OpEntry.path = op.path /\ Live(OpEntry)
      BY <3>2, <3>3, AppendIs
    <3>5. PICK d \in Blocks, s \in Idx : d = op.dir /\ s = op.slot
      BY <3>4
    <3>6. PICK o \in Entry : o = ent[d][s] /\ o.path \notin Dirs /\ o.used
      BY <3>4, <3>5, Given DEF TypeOK, Live
    <3>7. PICK e : e = [o EXCEPT !.next = Append(@, b)]
      OBVIOUS
    <3>8. Writes(d, s, e)
      BY <3>1, <3>5, <3>6, <3>7 DEF Writes, Entry, TypeOK
    <3>9. e.path \notin Dirs
      BY <3>6, <3>7 DEF Entry
    <3>10. ent[d][s] # BlankEntry
      BY <3>6 DEF BlankEntry
    <3> QED
      BY <3>8, <3>9, <3>10
  <2>3. CASE ZeroEntry
    <3>1. AtVictim /\ ent' = [ent EXCEPT ![Top.dir][Top.at] = ZeroedEntry(@)]
      BY <2>3 DEF ZeroEntry, TopFreed
    <3>2. /\ Top.dir \in Blocks /\ Top.at \in Idx
          /\ TopEntry = ent[Top.dir][Top.at] /\ TopEntry.reclaimable
      BY <3>1, VictimIs
    <3>3. PICK d \in Blocks, s \in Idx : d = Top.dir /\ s = Top.at
      BY <3>2
    <3>4. PICK o \in Entry : o = ent[d][s] /\ o.reclaimable
      BY <3>2, <3>3 DEF TypeOK
    <3>5. PICK e : e = ZeroedEntry(o)
      OBVIOUS
    <3>6. Writes(d, s, e)
      BY <3>1, <3>3, <3>4, <3>5 DEF Writes, TypeOK
    <3>7. e.path \notin Dirs
      BY <3>4, <3>5, Given DEF ZeroedEntry, Entry
    <3>8. ent[d][s] # BlankEntry
      BY <3>4 DEF BlankEntry
    <3> QED
      BY <3>6, <3>7, <3>8
  <2>4. CASE \E p \in Paths : RemovePath(p)
    <3>1. PICK p \in Paths : RemovePath(p)
      BY <2>4
    <3>2. PICK place \in Find(p) :
             ent' = [ent EXCEPT ![place[1]][place[2]].reclaimable = TRUE]
      BY <3>1 DEF RemovePath
    <3>3. NoCycle /\ Contents
      BY TreeChains
    <3>4. PICK d \in Blocks, s \in Idx :
             d = place[1] /\ s = place[2] /\ ent[d][s].path = p /\ Live(ent[d][s])
      BY <3>3, PlaceFound
    <3>5. PICK o \in Entry : o = ent[d][s] /\ o.used
      BY <3>4 DEF TypeOK, Live
    <3>6. PICK e : e = [o EXCEPT !.reclaimable = TRUE]
      OBVIOUS
    <3>7. Writes(d, s, e)
      BY <3>2, <3>4, <3>5, <3>6 DEF Writes, Entry, TypeOK
    <3>8. e.path = o.path /\ e.next = o.next
      BY <3>6 DEF Entry
    <3>9. ent[d][s] # BlankEntry
      BY <3>5 DEF BlankEntry
    <3> QED
      BY <3>5, <3>7, <3>8, <3>9
  <2> QED
    BY <2>1, <2>2, <2>3, <2>4
<1>3. PICK e : /\ Writes(d, s, e) /\ ent[d][s] # BlankEntry
               /\ e.path \in Dirs => e.path = ent[d][s].path /\ e.next = ent[d][s].next
  BY <1>2
<1>4. /\ \A y \in Blocks, j \in Idx : ent'[y][j] = IF y = d /\ j = s THEN e ELSE ent[y][j]
      /\ \A y \in Blocks : y # d => ent'[y] = ent[y]
  <2>1. ent \in [Blocks -> [Idx -> Entry]] /\ ent' = [ent EXCEPT ![d] = [ent[d] EXCEPT ![s] = e]]
    BY <1>3 DEF TypeOK, Writes
  <2>2. PICK row : row = [ent[d] EXCEPT ![s] = e]
    OBVIOUS
  <2>3. row[s] = e /\ \A j \in Idx : j # s => row[j] = ent[d][j]
    BY <2>1, <2>2
  <2>4. ent'[d] = row /\ \A y \in Blocks : y # d => ent'[y] = ent[y]
    BY <2>1, <2>2
  <2> QED
    BY <2>3, <2>4
<1>5. e.path \in Dirs => ent[d][s].path \in Dirs /\ Target(e) = To(d, s)
  BY <1>3 DEF Target, To
<1>6. ~Later(d)
  BY <1>3, WrittenNotLater
<1> QED
  BY <1>1, <1>4, <1>5, <1>6, EntryHollow

LEMMA ExtendHollow ==
    ASSUME TypeOK, TreeInv, Places, Hollow, ExtendDir
    PROVE  Hollow'
<1>1. pc = "extend" /\ pc # "dangling" /\ ent' = ent
  BY DEF ExtendDir
<1>2. PICK n \in Blocks : Allocate(n, "dir") /\ link' = [link EXCEPT ![op.dir] = n]
  BY DEF ExtendDir
<1>3. \A i \in Idx : ent[n][i] = BlankEntry
  BY <1>1, <1>2, Allocated
<1>4. op.dir # None /\ op.path \in Paths /\ op.dir \in Optional
  BY <1>1, Before, Given DEF Holds, MakesEntry, TypeOK, Optional
<1>5. PICK d \in Blocks, p \in Paths : d = op.dir /\ p = op.path
  BY <1>4 DEF Optional
<1>6. ~Later(d)
  <2>1. d \in Chain[DirBlock[Home[p]]] /\ Home[p] \in Dirs \cup {Root}
    BY <1>1, <1>5, Given DEF Places, Making
  <2> QED
    BY <1>1, <2>1, InUseNotLater
<1>7. \A y \in Blocks : link'[y] = IF y = d THEN n ELSE link[y]
  BY <1>2, <1>5 DEF TypeOK
<1> SUFFICES ASSUME NEW x \in Blocks, NEW c \in Blocks, NEW b \in Blocks, NEW i \in Idx,
                    link'[c] = b, ent[b][i].path \in Dirs, x = To(b, i)'
             PROVE  ent[x] = ErasedDir /\ link'[x] = None
  BY <1>1 DEF Hollow, Later
<1>8. c # d
  <2>1. ent[n][i].path \notin Dirs
    BY <1>3, Given DEF BlankEntry
  <2> QED
    BY <1>7, <2>1
<1>9. To(b, i)' = To(b, i)
  BY <1>1 DEF To
<1>10. Later(x)
  BY <1>7, <1>8, <1>9 DEF Later
<1> QED
  BY <1>6, <1>7, <1>10 DEF Hollow

LEMMA MigrateRootHollow ==
    ASSUME TypeOK, TreeInv, Hollow, MigrateRoot
    PROVE  Hollow'
<1>1. AtEnd /\ ent' = [ent EXCEPT ![root] = ErasedDir] /\ link' = [link EXCEPT ![root] = None]
  BY DEF MigrateRoot, FreeDirBlock
<1>2. One /\ root \in Blocks /\ None \notin Blocks
  BY <1>1, AtEndIs, Before, Given DEF TypeOK
<1>3. \A y \in Blocks : /\ ent'[y] = IF y = root THEN ErasedDir ELSE ent[y]
                        /\ link'[y] = IF y = root THEN None ELSE link[y]
  BY <1>1, <1>2 DEF TypeOK
<1> SUFFICES ASSUME NEW x \in Blocks, NEW c \in Blocks, NEW b \in Blocks, NEW i \in Idx,
                    link'[c] = b, ent'[b][i].path \in Dirs, x = To(b, i)'
             PROVE  ent'[x] = ErasedDir /\ link'[x] = None
  BY DEF Hollow, Later
<1>4. link[c] = b /\ b # root
  BY <1>2, <1>3 DEF One
<1>5. ent[b][i].path \in Dirs /\ To(b, i)' = To(b, i)
  BY <1>3, <1>4 DEF To
<1>6. Later(x)
  BY <1>4, <1>5 DEF Later
<1> QED
  BY <1>3, <1>6 DEF Hollow

LEMMA MigrateDirHollow ==
    ASSUME TypeOK, TreeInv, Hollow, MigrateDir
    PROVE  Hollow'
<1>1. /\ AtEnd /\ Len(walk) > 1
      /\ ent' = [ent EXCEPT
             ![Above.dir][Above.at].next = IF link[Top.dir] = None THEN @ ELSE Append(@, link[Top.dir]),
             ![Top.dir] = ErasedDir]
      /\ link' = [link EXCEPT ![Top.dir] = None]
  BY DEF MigrateDir, FreeDirBlock
<1>2. One /\ Shape /\ NoCycle /\ walk # <<>> /\ Top.dir \in Blocks /\ None \notin Blocks
  BY <1>1, AtEndIs, Before, Given
<1>3. Above \in Frames /\ Above.at \in Idx /\ To(Above.dir, Above.at) = Top.dir
  BY <1>1, <1>2, WayAbove
<1>4. PICK t \in Blocks, p \in Blocks, n \in Idx : t = Top.dir /\ p = Above.dir /\ n = Above.at
  BY <1>2, <1>3 DEF Frames
<1>5. To(p, n) = t /\ t # None
  BY <1>2, <1>3, <1>4
<1>6. p # t
  <2>1. {t} \in SUBSET Blocks /\ {t} # {} /\ t \in Kids(p)
    BY <1>5 DEF Kids
  <2> QED
    BY <1>2, <2>1 DEF NoCycle
<1>7. \A y \in Blocks : link[y] # t
  BY <1>2, <1>5 DEF One
<1>8. PICK o \in Entry : o = ent[p][n] /\ o.path \in Paths
  BY <1>2, <1>5 DEF Shape
<1>9. PICK q : q = IF link[t] = None THEN o.next ELSE Append(o.next, link[t])
  OBVIOUS
<1>10. PICK e : e = [o EXCEPT !.next = q]
  OBVIOUS
<1>11. e.path = o.path /\ e.next = q
  BY <1>10 DEF Entry
<1>12. /\ \A y \in Blocks : y # t /\ y # p => ent'[y] = ent[y]
       /\ \A i \in Idx : ent'[p][i] = IF i = n THEN e ELSE ent[p][i]
       /\ ent'[t] = ErasedDir
  <2>1. ent' = [ent EXCEPT ![p] = [ent[p] EXCEPT ![n] = e], ![t] = ErasedDir]
    BY <1>1, <1>4, <1>8, <1>9, <1>10 DEF TypeOK, Entry
  <2>2. PICK row : row = [ent[p] EXCEPT ![n] = e]
    OBVIOUS
  <2>3. ent[p] \in [Idx -> Entry] /\ ent \in [Blocks -> [Idx -> Entry]]
    BY DEF TypeOK
  <2>4. row[n] = e /\ \A i \in Idx : i # n => row[i] = ent[p][i]
    BY <2>2, <2>3
  <2>5. ent' = [[ent EXCEPT ![p] = row] EXCEPT ![t] = ErasedDir]
    BY <2>1, <2>2
  <2>6. ent'[p] = row /\ ent'[t] = ErasedDir /\ \A y \in Blocks : y # t /\ y # p => ent'[y] = ent[y]
    BY <1>6, <2>3, <2>5
  <2> QED
    BY <2>4, <2>6
<1>13. \A y \in Blocks : link'[y] = IF y = t THEN None ELSE link[y]
  BY <1>1, <1>4 DEF TypeOK
<1> SUFFICES ASSUME NEW x \in Blocks, NEW c \in Blocks, NEW b \in Blocks, NEW i \in Idx,
                    link'[c] = b, ent'[b][i].path \in Dirs, x = To(b, i)'
             PROVE  ent'[x] = ErasedDir /\ link'[x] = None
  BY DEF Hollow, Later
<1>14. link[c] = b /\ b # t
  BY <1>2, <1>7, <1>13
<1>15. ~Later(p)
  <2>1. ent[p][n] # BlankEntry
    BY <1>8, Given DEF BlankEntry
  <2> QED
    BY <2>1, WrittenNotLater
<1>16. ASSUME Later(x) PROVE ent'[x] = ErasedDir /\ link'[x] = None
  <2>1. ent[x] = ErasedDir /\ link[x] = None /\ x # p
    BY <1>15, <1>16 DEF Hollow
  <2> QED
    BY <1>12, <1>13, <2>1
<1>17. CASE ~(b = p /\ i = n)
  <2>1. ent'[b][i] = ent[b][i]
    BY <1>12, <1>14, <1>17
  <2>2. To(b, i)' = To(b, i)
    BY <2>1 DEF To
  <2> QED
    BY <1>14, <1>16, <2>1, <2>2 DEF Later
<1>18. CASE b = p /\ i = n
  <2>1. ent[p][n].path \in Dirs
    BY <1>8, <1>11, <1>12, <1>18
  <2>2. Later(t)
    BY <1>5, <1>14, <1>18, <2>1 DEF Later
  <2>3. link[t] = None
    BY <2>2 DEF Hollow
  <2>4. ent'[p][n].next = ent[p][n].next
    BY <1>8, <1>9, <1>11, <1>12, <2>3
  <2>5. To(p, n)' = To(p, n)
    BY <2>4 DEF To
  <2>6. x = t
    BY <1>5, <1>18, <2>5
  <2> QED
    BY <1>16, <2>2, <2>6
<1> QED
  BY <1>17, <1>18

LEMMA HollowNext ==
    ASSUME TypeOK, TreeInv, Places, Hollow, [Next]_vars
    PROVE  Hollow'
<1>1. CASE UNCHANGED <<ent, link>>
  BY <1>1 DEF Hollow, Later, To
<1>2. CASE Call
  <2>1. CASE \E p \in Paths : RemovePath(p)
    BY <2>1, RewriteHollow
  <2>2. CASE ~\E p \in Paths : RemovePath(p)
    <3>1. UNCHANGED <<ent, link>>
      BY <1>2, <2>2 DEF Call, Register, Mkdir, BeginEntry, BeginAppend, flash
    <3> QED
      BY <1>1, <3>1
  <2> QED
    BY <2>1, <2>2
<1>3. CASE Step
  <2>1. CASE TakeBlock \/ TakeData \/ NewSeqBlock \/ RecordData
    <3>1. UNCHANGED <<ent, link>>
      BY <2>1 DEF TakeBlock, TakeData, NewSeqBlock, RecordData
    <3> QED
      BY <1>1, <3>1
  <2> QED
    BY <1>3, <2>1, ExtendHollow, UseHollow, WriteHollow, RewriteHollow DEF Step
<1>4. CASE Collect
  <2>1. CASE StartGc \/ SkipZeroed \/ KeepEntry \/ Descend \/ LeaveDir \/ NoMemory
             \/ MigrateRootAllocates \/ MigrateDirNoPtr
    <3>1. UNCHANGED <<ent, link>>
      BY <2>1 DEF StartGc, SkipZeroed, KeepEntry, Descend, LeaveDir, NoMemory,
                  MigrateRootAllocates, MigrateDirNoPtr, flash
    <3> QED
      BY <1>1, <3>1
  <2>2. CASE ZeroDataRef \/ ZeroSeqRef \/ FreeVictim \/ FreeTop
    <3>1. UNCHANGED <<ent, link>>
      BY <2>2 DEF ZeroDataRef, ZeroSeqRef, FreeVictim, FreeTop
    <3> QED
      BY <1>1, <3>1
  <2> QED
    BY <1>4, <2>1, <2>2, RewriteHollow, MigrateRootHollow, MigrateDirHollow DEF Collect
<1>5. CASE Crash \/ Halt \/ UNCHANGED vars
  <2>1. UNCHANGED <<ent, link>>
    BY <1>5 DEF Crash, Halt, vars, flash
  <2> QED
    BY <1>1, <2>1
<1> QED
  BY <1>2, <1>3, <1>4, <1>5 DEF Next

\* The directory whose path is found at the entry i of block b
LEMMA OpenedAt ==
    ASSUME TypeOK, TreeInv, Hollow, NEW d \in Dirs, NEW place \in Find(d),
           NEW x, x = Last(EntryOf(place).next)
    PROVE  \/ x = DirBlock[d] /\ x # None
           \/ DirBlock[d] = None /\ x \in Blocks /\ ent[x] = ErasedDir /\ link[x] = None
<1>1. NoCycle /\ Contents /\ ChainsSound /\ LookupSolved /\ Shape /\ d \in Paths
  BY TreeChains, ChainsHold, LookupHolds, Given
<1>2. PICK b \in Blocks, i \in Idx, h \in Blocks :
         /\ place = <<b, i>> /\ h = DirBlock[Home[d]] /\ b \in Chain[h]
         /\ ent[b][i].path = d /\ To(b, i) \in Blocks /\ To(b, i) = Last(ent[b][i].next)
  BY <1>1, PlaceFound
<1>3. x = To(b, i) /\ x \in Blocks /\ x # None
  BY <1>2, Given DEF EntryOf
<1>4. FoundAt(h, d, b, i)
  BY <1>1, <1>2 DEF LookupSolved
<1>5. DirBlock[d] = DirIn(h, d)
  BY <1>1, <1>2 DEF LookupSolved, Optional
<1>6. CASE b = h
  <2>1. DirIn(h, d) = To(b, i)
    BY <1>2, <1>4, <1>6, Given DEF FoundAt, DirIn
  <2> QED
    BY <1>3, <1>5, <2>1
<1>7. CASE b # h
  <2>1. PICK c \in Blocks : link[c] = b
    BY <1>1, <1>2, <1>7, NotAfter DEF ChainsSound
  <2>2. Later(x)
    BY <1>2, <1>3, <2>1 DEF Later
  <2>3. h \notin Chain[b]
    BY <1>1, <1>2, <1>7, ChainOrder DEF ChainsSound
  <2>4. h \in Chain[h]
    BY <1>1 DEF ChainsSound, AreChains
  <2>5. EntriesFor(h, d) = {}
    BY <1>4, <2>3, <2>4 DEF FoundAt
  <2>6. DirBlock[d] = None
    BY <1>5, <2>5 DEF DirIn
  <2> QED
    BY <1>3, <2>2, <2>6 DEF Hollow
<1> QED
  BY <1>6, <1>7

\* A directory that can be found as a path segment
LEMMA HeadListed ==
    ASSUME TypeOK, TreeInv, NEW d \in Dirs \cup {Root}, DirBlock[d] # None
    PROVE  /\ \A p \in Listing(DirBlock[d]) : p \in Paths /\ Home[p] = d /\ Find(p) # {}
           /\ link[DirBlock[d]] = None =>
                 \A p \in Paths : Home[p] = d /\ Find(p) # {} => p \in Listing(DirBlock[d])
<1>1. Shape /\ Contents /\ NoCycle /\ Owned /\ DirBlockSolved /\ AreChains(link, Chain)
  BY TreeChains
<1>2. PICK own \in [Blocks -> Dirs \cup {Root}] : OwnedBy(own)
  BY <1>1 DEF Owned
<1>3. PICK b : b = DirBlock[d]
  OBVIOUS
<1>4. b \in Blocks /\ own[b] = d
  BY <1>2, <1>3, DirBlockColoured
<1>5. b \in Chain[b] /\ Chain[b] = {b} \cup Chain[link[b]] /\ Chain[None] = {}
  BY <1>1, <1>4 DEF AreChains
<1>6. ASSUME NEW p \in Listing(b) PROVE p \in Paths /\ Home[p] = d /\ Find(p) # {}
  <2>1. PICK i \in Idx : /\ Live(ent[b][i]) /\ p = ent[b][i].path
                         /\ \A j \in 1 .. i : ent[b][j].used
    BY DEF Listing
  <2>2. p # Blank /\ p # Zeroed
    BY <1>1, <1>4, <2>1 DEF Contents, Live
  <2>3. p \in Paths
    BY <1>1, <1>4, <2>1, <2>2 DEF Shape
  <2>4. Home[p] = d
    BY <1>2, <1>4, <2>1, <2>3 DEF OwnedBy
  <2>5. i \in EntriesFor(b, p)
    BY <2>1 DEF EntriesFor
  <2>6. b \in With(p) /\ With(p) \subseteq Chain[b]
    BY <1>3, <1>5, <2>4, <2>5 DEF With
  <2>7. <<b, Min(EntriesFor(b, p))>> \in Find(p)
    BY <2>6 DEF Find
  <2> QED
    BY <2>3, <2>4, <2>7
<1>7. ASSUME link[b] = None, NEW p \in Paths, Home[p] = d, Find(p) # {}
      PROVE  p \in Listing(b)
  <2>1. With(p) # {}
    BY <1>7 DEF Find
  <2>2. PICK x \in Chain[b] : EntriesFor(x, p) # {}
    BY <1>3, <1>7, <2>1 DEF With
  <2>3. x = b
    BY <1>5, <1>7, <2>2
  <2>4. PICK i \in Idx : /\ Live(ent[b][i]) /\ ent[b][i].path = p
                         /\ \A j \in 1 .. i : ent[b][j].used
    BY <2>2, <2>3 DEF EntriesFor
  <2> QED
    BY <2>4 DEF Listing
<1> QED
  BY <1>3, <1>6, <1>7

LEMMA ListingAgrees ==
    ASSUME TypeOK, TreeInv, Hollow PROVE ReaddirListsFound
<1> SUFFICES ASSUME NEW d \in Dirs \cup {Root}, NEW x \in Opendir(d)
             PROVE  /\ \A p \in Listing(x) : p \in Paths /\ Home[p] = d /\ Find(p) # {}
                    /\ link[x] = None =>
                          \A p \in Paths : Home[p] = d /\ Find(p) # {} => p \in Listing(x)
  BY DEF ReaddirListsFound
<1>1. \/ x = DirBlock[d] /\ x # None
      \/ DirBlock[d] = None /\ x \in Blocks /\ ent[x] = ErasedDir /\ link[x] = None
  <2>1. CASE d = Root
    <3>1. x = DirBlock[d] /\ x \in Blocks
      BY <2>1, DirBlockHolds DEF Opendir, DirBlockSolved, TypeOK
    <3> QED
      BY <3>1, Given
  <2>2. CASE d # Root
    <3>1. PICK place \in Find(d) : x = Last(EntryOf(place).next)
      BY <2>2 DEF Opendir
    <3> QED
      BY <2>2, <3>1, OpenedAt
  <2> QED
    BY <2>1, <2>2
<1>2. CASE x = DirBlock[d] /\ x # None
  BY <1>2, HeadListed
<1>3. CASE DirBlock[d] = None /\ x \in Blocks /\ ent[x] = ErasedDir /\ link[x] = None
  <2>1. Listing(x) = {}
    <3>1. \A i \in Idx : ~Live(ent[x][i])
      BY <1>3 DEF ErasedDir, BlankEntry, Live
    <3> QED
      BY <3>1 DEF Listing
  <2>2. Chain[None] = {}
    BY ChainsHold DEF ChainsSound, AreChains
  <2>3. \A p \in Paths : Home[p] = d => Find(p) = {}
    BY <1>3, <2>2 DEF Find, With
  <2> QED
    BY <2>1, <2>3
<1> QED
  BY <1>1, <1>2, <1>3

\* r2f2_readdir lists what r2f2_open and r2f2_remove find, and no more, wherever the
\* collector and power losses have left the directories, and in whichever block
\* r2f2_opendir has found the directory.
THEOREM ListingIsLookup == ASSUME ~ShortFsyncs PROVE Spec => []ReaddirListsFound
<1>1. Init => TypeOK /\ TreeInv /\ Places /\ Hollow
  <2> SUFFICES ASSUME Init PROVE TypeOK /\ TreeInv /\ Places /\ Hollow
    OBVIOUS
  <2>1. TypeOK /\ TreeInv /\ Places
    BY InitHolds DEF Init, Places, Making, Adding
  <2>2. \A b \in Blocks : link[b] = None
    BY DEF Init
  <2> QED
    BY <2>1, <2>2, Given DEF Hollow, Later
<1>2. TypeOK /\ TreeInv /\ Places /\ Hollow /\ [Next]_vars
         => TypeOK' /\ TreeInv' /\ Places' /\ Hollow'
  BY NextKeeps, PlacesNext, HollowNext
<1>3. TypeOK /\ TreeInv /\ Hollow => ReaddirListsFound
  BY ListingAgrees
<1> QED
  BY <1>1, <1>2, <1>3, PTL DEF Spec

-----------------------------------------------------------------------------
(***************************************************************************)
(* What the root refers to, directly or through others, in entries that    *)
(* are removed too: the least set that has the root and what its blocks    *)
(* refer to.                                                               *)
(***************************************************************************)
Refs(b) == {x \in Blocks : \/ x = link[b] \/ \E i \in Idx : x = To(b, i)
                           \/ \E j \in Nat : x = At(b, j)}
InTree == Reached(TRUE)
LeastReached ==
    /\ InTree \subseteq Blocks /\ root \in InTree
    /\ \A b \in InTree : Refs(b) \subseteq InTree
    /\ \A S \in SUBSET Blocks :
          root \in S /\ (\A b \in S : Refs(b) \subseteq S) => InTree \subseteq S

LEMMA RefsAre ==
    ASSUME TypeOK, NEW b \in Blocks PROVE RefsOf(b, TRUE) = Refs(b)
<1>1. Shape
  BY ShapeHolds
<1>2. ASSUME NEW x \in RefsOf(b, TRUE) PROVE x \in Refs(b)
  <2>1. /\ x \in Blocks
        /\ \/ x = link[b]
           \/ \E j \in Nat : x = At(b, j)
           \/ \E i \in Idx : x = To(b, i) /\ (ent[b][i].reclaimable => TRUE)
    <3>1. TRUE \in BOOLEAN
      OBVIOUS
    <3> QED
      BY <1>2, <3>1, RefsOfIs
  <2> QED
    BY <2>1 DEF Refs
<1>3. ASSUME NEW x \in Refs(b) PROVE x \in RefsOf(b, TRUE)
  <2>1. x \in Blocks /\ x # None
    BY Given DEF Refs
  <2>2. CASE x = link[b]
    BY <2>1, <2>2 DEF RefsOf
  <2>3. ASSUME NEW i \in Idx, x = To(b, i) PROVE x \in RefsOf(b, TRUE)
    <3>1. ent[b][i].next # <<>> /\ x = Last(ent[b][i].next)
      BY <2>1, <2>3 DEF To
    <3> QED
      BY <3>1 DEF RefsOf, EntryRefs
  <2>4. ASSUME NEW j \in Nat, x = At(b, j) PROVE x \in RefsOf(b, TRUE)
    <3>1. j \in DOMAIN refs[b] /\ x = refs[b][j]
      BY <2>1, <2>4 DEF At
    <3> QED
      BY <2>1, <3>1 DEF RefsOf, ToSet
  <2> QED
    BY <2>2, <2>3, <2>4 DEF Refs
<1> QED
  BY <1>2, <1>3

\* What a block refers to, by its kind
LEMMA RefsByKind ==
    ASSUME TypeOK, TreeInv, pc # "dangling", NEW b \in Blocks
    PROVE  /\ kind[b] \in {"erased", "data"} => Refs(b) = {}
           /\ kind[b] \in {"seq", "indir"} => \A x \in Refs(b) : \E j \in Nat : x = At(b, j)
           /\ kind[b] = "seq" => \A x \in Refs(b) : kind[x] = "data"
           /\ kind[b] = "indir" => \A x \in Refs(b) : kind[x] = "seq"
           /\ kind[b] = "dir" => Refs(b) = Kids(b)
<1>1. Contents /\ Linked
  BY Before
<1>2. None \notin Blocks
  BY Given
<1>3. kind[b] # "dir" => link[b] = None /\ \A i \in Idx : To(b, i) = None
  BY <1>1, NoEntries
<1>4. kind[b] \notin {"seq", "indir"} => \A j \in Nat : At(b, j) = None
  BY <1>1, NoRefs
<1>5. kind[b] \in {"erased", "data"} => Refs(b) = {}
  BY <1>2, <1>3, <1>4 DEF Refs
<1>6. kind[b] \in {"seq", "indir"} => \A x \in Refs(b) : \E j \in Nat : x = At(b, j)
  BY <1>2, <1>3 DEF Refs
<1>7. ASSUME NEW j \in Nat, At(b, j) \in Blocks
      PROVE  kind[At(b, j)] = IF kind[b] = "seq" THEN "data" ELSE "seq"
  BY <1>1, <1>2, <1>7 DEF Linked
<1>8. \A x \in Refs(b) : x \in Blocks
  BY DEF Refs
<1>9. kind[b] = "seq" => \A x \in Refs(b) : kind[x] = "data"
  BY <1>6, <1>7, <1>8
<1>10. kind[b] = "indir" => \A x \in Refs(b) : kind[x] = "seq"
  BY <1>6, <1>7, <1>8
<1>11. kind[b] = "dir" => Refs(b) = Kids(b)
  BY <1>2, <1>4 DEF Refs, Kids
<1> QED
  BY <1>5, <1>6, <1>9, <1>10, <1>11

\* The tree has no cycle.
LEMMA NoRefCycle ==
    ASSUME TypeOK, TreeInv, pc # "dangling"
    PROVE  \A T \in SUBSET Blocks : T # {} => \E b \in T : Refs(b) \cap T = {}
<1> SUFFICES ASSUME NEW T \in SUBSET Blocks, T # {} PROVE \E b \in T : Refs(b) \cap T = {}
  OBVIOUS
<1>1. NoCycle /\ Shape
  BY Before
<1>2. CASE \E b \in T : kind[b] \in {"erased", "data"}
  <2>1. PICK b \in T : kind[b] \in {"erased", "data"}
    BY <1>2
  <2>2. Refs(b) = {}
    BY <2>1, RefsByKind
  <2> QED
    BY <2>2
<1>3. CASE (\A b \in T : kind[b] \notin {"erased", "data"}) /\ \E b \in T : kind[b] = "seq"
  <2>1. PICK b \in T : kind[b] = "seq"
    BY <1>3
  <2>2. \A x \in Refs(b) : kind[x] = "data"
    BY <2>1, RefsByKind
  <2> QED
    BY <1>3, <2>2
<1>4. CASE (\A b \in T : kind[b] \notin {"erased", "data", "seq"}) /\ \E b \in T : kind[b] = "indir"
  <2>1. PICK b \in T : kind[b] = "indir"
    BY <1>4
  <2>2. \A x \in Refs(b) : kind[x] = "seq"
    BY <2>1, RefsByKind
  <2> QED
    BY <1>4, <2>2
<1>5. CASE \A b \in T : kind[b] \notin {"erased", "data", "seq", "indir"}
  <2>1. PICK b \in T : Kids(b) \cap T = {}
    BY <1>1 DEF NoCycle
  <2>2. kind[b] = "dir"
    BY <1>1, <1>5, <2>1 DEF Shape
  <2>3. Refs(b) = Kids(b)
    BY <2>2, RefsByKind
  <2> QED
    BY <2>1, <2>3
<1> QED
  BY <1>2, <1>3, <1>4, <1>5

LEMMA TreeReached ==
    ASSUME TypeOK, TreeInv, pc # "dangling" PROVE LeastReached
<1>1. PICK R, B : /\ \A b \in Blocks : R[b] = RefsOf(b, TRUE) /\ R[b] \subseteq Blocks
                  /\ Reaches(R, B) /\ Reached(TRUE) = B[root]
  <2>1. TRUE \in BOOLEAN
    OBVIOUS
  <2> QED
    BY <2>1, ReachedIs
<1>2. \A b \in Blocks : R[b] = Refs(b)
  BY <1>1, RefsAre
<1>3. ASSUME NEW T \in SUBSET Blocks, T # {} PROVE \E b \in T : R[b] \cap T = {}
  BY <1>2, <1>3, NoRefCycle
<1>4. ASSUME NEW S \in SUBSET Blocks, \A b \in S : Refs(b) \subseteq S
      PROVE  \A b \in S : B[b] \subseteq S
  <2>1. \A b \in S : R[b] \subseteq S
    BY <1>2, <1>4
  <2>2. \A T \in SUBSET S : T # {} => \E b \in T : R[b] \cap T = {}
    BY <1>3
  <2>3. Reaches(R, B)
    BY <1>1
  <2> QED
    BY <2>1, <2>2, <2>3, ReachedWithin, Zenon
<1>5. \A b \in Blocks : B[b] = {b} \cup UNION {B[c] : c \in Refs(b)}
  <2> SUFFICES ASSUME NEW b \in Blocks PROVE B[b] = {b} \cup UNION {B[c] : c \in Refs(b)}
    OBVIOUS
  <2>1. B[b] = {b} \cup UNION {B[c] : c \in R[b]}
    BY <1>1 DEF Reaches
  <2> QED
    BY <1>2, <2>1
<1>6. \A b \in Blocks : B[b] \subseteq Blocks /\ Refs(b) \subseteq Blocks
  <2>1. \A b \in Blocks : Refs(b) \subseteq Blocks
    BY DEF Refs
  <2>2. \A b \in Blocks : B[b] \subseteq Blocks
    BY <1>4, <2>1
  <2> QED
    BY <2>1, <2>2
<1> DEFINE Whole1(b) == \A c \in B[b] : Refs(c) \subseteq B[b]
           T == {b \in Blocks : ~Whole1(b)}
<1>7. T = {}
  <2> SUFFICES ASSUME T # {} PROVE FALSE
    OBVIOUS
  <2>1. PICK b \in T : Refs(b) \cap T = {}
    <3>1. T \in SUBSET Blocks
      OBVIOUS
    <3> HIDE DEF T
    <3> QED
      BY <3>1, NoRefCycle
  <2>2. \A d \in Refs(b) : d \in Blocks /\ B[d] \subseteq B[b] /\ d \in B[d] /\ Whole1(d)
    <3>1. \A d \in Refs(b) : d \in Blocks /\ d \notin T
      BY <1>6, <2>1
    <3>2. \A d \in Refs(b) : B[d] \subseteq B[b]
      BY <1>5, <2>1
    <3>3. \A d \in Blocks : d \in B[d]
      BY <1>5
    <3> QED
      BY <3>1, <3>2, <3>3
  <2>3. ASSUME NEW c \in B[b] PROVE Refs(c) \subseteq B[b]
    <3>1. CASE c = b
      BY <2>2, <3>1
    <3>2. CASE c # b
      <4>1. PICK d \in Refs(b) : c \in B[d]
        BY <1>5, <2>1, <2>3, <3>2
      <4> QED
        BY <2>2, <4>1
    <3> QED
      BY <3>1, <3>2
  <2> QED
    BY <2>1, <2>3
<1>8. root \in Blocks
  BY DEF TypeOK
<1>9. \A c \in B[root] : Refs(c) \subseteq B[root]
  BY <1>7, <1>8
<1>10. root \in B[root] /\ B[root] \subseteq Blocks
  BY <1>5, <1>6, <1>8
<1>11. \A S \in SUBSET Blocks :
          root \in S /\ (\A b \in S : Refs(b) \subseteq S) => B[root] \subseteq S
  BY <1>4
<1>12. InTree = B[root]
  BY <1>1 DEF InTree
<1> QED
  BY <1>9, <1>10, <1>11, <1>12 DEF LeastReached

LEMMA TreeReachedHolds == TypeOK /\ TreeInv /\ pc # "dangling" => LeastReached
BY TreeReached

LEMMA TreeReachedNext == (TypeOK /\ TreeInv /\ pc # "dangling" => LeastReached)'
BY TreeReachedHolds, PTL

\* What is reached before a step is reached after it, but for Y.
LEMMA ReachedStays ==
    ASSUME LeastReached, LeastReached', NEW Y \in SUBSET Blocks, root \in InTree' \cup Y,
           \A b \in InTree \cap (InTree' \cup Y) : Refs(b) \subseteq InTree' \cup Y
    PROVE  InTree \subseteq InTree' \cup Y
<1> DEFINE S == InTree \cap (InTree' \cup Y)
<1>1. S \in SUBSET Blocks /\ root \in S
  BY DEF LeastReached
<1>2. \A b \in S : Refs(b) \subseteq S
  BY DEF LeastReached
<1> HIDE DEF S
<1>3. InTree \subseteq S
  BY <1>1, <1>2 DEF LeastReached
<1> QED
  BY <1>3 DEF S

LEMMA ReachedGrows ==
    ASSUME LeastReached, LeastReached', NEW Y \in SUBSET Blocks, root' = root,
           \A b \in InTree : Refs(b) \subseteq Refs(b)' \cup Y,
           \A b \in Y : Refs(b) = {}
    PROVE  InTree \subseteq InTree' \cup Y
<1>1. root' \in InTree' /\ \A b \in InTree' : Refs(b)' \subseteq InTree'
  BY DEF LeastReached
<1>2. \A b \in InTree \cap (InTree' \cup Y) : Refs(b) \subseteq InTree' \cup Y
  BY <1>1
<1> QED
  BY <1>1, <1>2, ReachedStays

\* A block that nothing refers to is not reached.
LEMMA AloneUnreached ==
    ASSUME LeastReached, TypeOK, NEW x \in Blocks, Alone(x) PROVE x \notin InTree
<1> DEFINE S == Blocks \ {x}
<1>1. S \in SUBSET Blocks /\ root \in S
  BY DEF Alone, TypeOK
<1>2. \A b \in S : Refs(b) \subseteq S
  BY DEF Alone, Refs
<1> HIDE DEF S
<1>3. InTree \subseteq S
  BY <1>1, <1>2 DEF LeastReached
<1> QED
  BY <1>3 DEF S

-----------------------------------------------------------------------------
(***************************************************************************)
(* What a call writes to is in the tree, and what is erased is free, so    *)
(* that a step loses no block.                                             *)
(***************************************************************************)
ErasedFree == \A b \in Blocks : kind[b] = "erased" => b \in ToSet(free)
Grounded == pc \in {"write", "commit"} => op.dir \in InTree
Kept == TypeOK /\ TreeInv /\ Places /\ ErasedFree /\ Grounded

LEMMA DirBlockReached ==
    ASSUME TypeOK, LeastReached, NEW d \in Dirs \cup {Root}, DirBlock[d] # None
    PROVE  DirBlock[d] \in InTree
<1>1. Shape /\ DirBlockSolved
  BY ShapeHolds, DirBlockHolds
<1> DEFINE S == {x \in Dirs \cup {Root} : DirBlock[x] # None => DirBlock[x] \in InTree}
<1>2. Root \in S
  BY <1>1 DEF DirBlockSolved, LeastReached
<1>3. ASSUME NEW x \in Dirs, Home[x] \in S PROVE x \in S
  <2> SUFFICES ASSUME DirBlock[x] # None PROVE DirBlock[x] \in InTree
    OBVIOUS
  <2> DEFINE b == DirBlock[Home[x]]
  <2>1. DirBlock[x] = DirIn(b, x)
    BY <1>1 DEF DirBlockSolved
  <2>2. b # None /\ EntriesFor(b, x) # {}
    BY <2>1 DEF DirIn
  <2>3. b \in InTree /\ b \in Blocks /\ x \in Paths
    BY <1>3, <2>2, Given DEF LeastReached
  <2> DEFINE i == Min(EntriesFor(b, x))
  <2> HIDE DEF b
  <2>4. i \in Idx /\ To(b, i) \in Blocks /\ To(b, i) = Last(ent[b][i].next)
    BY <1>1, <2>2, <2>3, EntryFound
  <2>5. DirBlock[x] = Last(ent[b][i].next)
    BY <2>1, <2>2 DEF DirIn
  <2> HIDE DEF i
  <2>6. To(b, i) \in Refs(b)
    BY <2>4 DEF Refs
  <2> QED
    BY <2>3, <2>4, <2>5, <2>6 DEF LeastReached
<1> HIDE DEF S
<1>4. \A x \in Dirs \cup {Root} : x \in S
  BY <1>2, <1>3, HomeInduction
<1> QED
  BY <1>4 DEF S

\* So is the directory block of the call, until it is done,
LEMMA DirReached ==
    ASSUME Kept, LeastReached, pc \in Making \cup Adding \cup {"write", "commit"}
    PROVE  op.dir \in Blocks /\ op.dir \in InTree
<1>1. TypeOK /\ TreeInv /\ pc # "dangling"
  BY DEF Kept, Making, Adding
<1>2. Contents /\ NoCycle /\ MakesEntry /\ Appends /\ ChainsSound
  BY <1>1, Before, ChainsHold DEF Holds
<1>3. ASSUME NEW p \in Paths, NEW x \in Chain[DirBlock[Home[p]]] PROVE x \in InTree
  <2>1. DirBlockSolved /\ Home[p] \in Dirs \cup {Root}
    BY <1>1, DirBlockHolds, Given
  <2>2. PICK b \in Optional : b = DirBlock[Home[p]]
    BY <2>1 DEF DirBlockSolved
  <2>3. b # None /\ b \in Blocks
    BY <1>2, <1>3, <2>2 DEF ChainsSound, AreChains, Optional
  <2>4. b \in InTree
    BY <1>1, <2>1, <2>2, <2>3, DirBlockReached
  <2>5. InTree \in SUBSET Blocks /\ Closed(link, InTree)
    <3>1. \A y \in InTree : link[y] # None => link[y] \in Refs(y)
      BY <1>2 DEF LeastReached, ChainsSound, Links, Optional, Refs
    <3> QED
      BY <3>1 DEF LeastReached, Closed
  <2>6. Chain[b] \subseteq InTree
    BY <1>2, <2>3, <2>4, <2>5 DEF ChainsSound, AreChains
  <2> QED
    BY <1>3, <2>2, <2>6
<1>4. CASE pc \in Making
  <2>1. op.path \in Paths
    BY <1>2, <1>4, Given DEF MakesEntry, Making
  <2>2. op.dir \in Chain[DirBlock[Home[op.path]]]
    BY <1>4 DEF Kept, Places
  <2> QED
    BY <1>3, <2>1, <2>2 DEF LeastReached
<1>5. CASE pc \in Adding
  <2>1. op.path \in Paths /\ op.dir \in Optional /\ op.slot \in Idx
    BY <1>1, <1>2, <1>5, Given DEF Appends, Adding, TypeOK, Optional
  <2>2. PICK p \in Paths, b \in Optional, i \in Idx : p = op.path /\ b = op.dir /\ i = op.slot
    BY <2>1
  <2>3. <<b, i>> \in Find(p)
    BY <1>5, <2>2 DEF Kept, Places
  <2>4. b \in Chain[DirBlock[Home[p]]]
    <3>1. PICK place \in Find(p) : place = <<b, i>>
      BY <2>3
    <3>2. place[1] = b
      BY <3>1
    <3> QED
      BY <1>1, <1>2, <3>2, PlaceFound
  <2> QED
    BY <1>3, <2>2, <2>4 DEF LeastReached
<1>6. CASE pc \in {"write", "commit"}
  BY <1>6 DEF Kept, Grounded, LeastReached
<1> QED
  BY <1>4, <1>5, <1>6

\* and the sequence block that an append goes on in.
LEMMA SeqReached ==
    ASSUME Kept, LeastReached, pc \in {"seq", "entry"}, walk = <<>>
    PROVE  op.seq \in InTree
<1>1. TypeOK /\ TreeInv
  BY DEF Kept
<1>2. /\ op.dir \in Blocks /\ op.slot \in Idx /\ op.seq \in Blocks
      /\ OpTop = To(op.dir, op.slot) /\ OpTop \in Blocks
      /\ kind[OpTop] \in {"seq", "indir"}
      /\ kind[OpTop] = "seq" => op.seq = OpTop
      /\ kind[OpTop] = "indir" =>
            op.seq = At(OpTop, Len(refs[OpTop])) /\ refs[OpTop] # <<>>
  BY <1>1, AppendIs
<1>3. op.dir \in InTree
  BY DirReached DEF Adding
<1>4. OpTop \in Refs(op.dir)
  BY <1>2 DEF Refs
<1>5. OpTop \in InTree
  BY <1>3, <1>4 DEF LeastReached
<1>6. CASE kind[OpTop] = "seq"
  BY <1>2, <1>5, <1>6
<1>7. CASE kind[OpTop] = "indir"
  <2>1. Len(refs[OpTop]) \in Nat
    <3>1. refs[OpTop] \in Seq(Blocks \cup {None})
      BY <1>1, <1>2 DEF TypeOK
    <3> QED
      BY <3>1, SeqIs
  <2>2. op.seq \in Refs(OpTop)
    BY <1>2, <1>7, <2>1 DEF Refs
  <2> QED
    BY <1>5, <2>2 DEF LeastReached
<1> QED
  BY <1>2, <1>6, <1>7

\* The queue before a block is taken from it, and after one is put back
LEMMA TakenFrom ==
    ASSUME NEW S, NEW q \in Seq(S), q # <<>>
    PROVE  \A x \in ToSet(q) : x = Head(q) \/ x \in ToSet(Tail(q))
<1>1. Len(q) \in Nat /\ DOMAIN q = 1 .. Len(q)
  BY SeqIs
<1>2. /\ Tail(q) \in Seq(S) /\ Len(Tail(q)) = Len(q) - 1 /\ Head(q) = q[1]
      /\ \A i \in 1 .. Len(Tail(q)) : Tail(q)[i] = q[i + 1]
  BY HeadTailProperties
<1>3. DOMAIN Tail(q) = 1 .. Len(Tail(q))
  BY <1>2, SeqIs
<1> SUFFICES ASSUME NEW i \in DOMAIN q, i # 1 PROVE q[i] \in ToSet(Tail(q))
  BY <1>2 DEF ToSet
<1>4. PICK j \in 1 .. Len(Tail(q)) : j + 1 = i
  <2>1. i - 1 \in 1 .. Len(Tail(q)) /\ i - 1 + 1 = i
    BY <1>1, <1>2
  <2> QED
    BY <2>1
<1>5. j \in DOMAIN Tail(q) /\ Tail(q)[j] = q[i]
  BY <1>2, <1>3, <1>4
<1> QED
  BY <1>5 DEF ToSet

LEMMA PutBack ==
    ASSUME NEW S, NEW q \in Seq(S), NEW x \in S
    PROVE  ToSet(q) \cup {x} \subseteq ToSet(Append(q, x))
<1>1. PICK t : t = Append(q, x)
  OBVIOUS
<1>2. /\ DOMAIN t = DOMAIN q \cup {Len(q) + 1}
      /\ t[Len(q) + 1] = x /\ \A i \in DOMAIN q : t[i] = q[i]
  BY <1>1, Appended
<1>3. ToSet(q) \cup {x} \subseteq ToSet(t)
  BY <1>2 DEF ToSet
<1> QED
  BY <1>1, <1>3

LEMMA QueueTaken ==
    ASSUME TypeOK, NEW b, NEW type, Allocate(b, type)
    PROVE  \A x \in ToSet(free) : x = b \/ x \in ToSet(free')
<1>1. free \in Seq(Blocks) /\ free # <<>> /\ b = Head(free) /\ free' = Tail(free)
  BY DEF TypeOK, Allocate
<1> QED
  BY <1>1, TakenFrom

LEMMA QueueGrown ==
    ASSUME TypeOK, NEW b \in Blocks, Free(b)
    PROVE  ToSet(free) \cup {b} \subseteq ToSet(free')
<1>1. free \in Seq(Blocks) /\ free' = Append(free, b)
  BY DEF TypeOK, Free
<1> QED
  BY <1>1, PutBack

\* What is counted, by its parts
LEMMA AllCounted ==
    ASSUME NEW Y, InTree \subseteq InTree' \cup Y, Y \subseteq Accounted',
           ToSet(free) \subseteq Accounted', InHand \subseteq Accounted'
    PROVE  Accounted \subseteq Accounted'
BY DEF Accounted, InTree

LEMMA CountedAfter ==
    /\ ToSet(free') \subseteq Accounted' /\ InTree' \subseteq Accounted'
    /\ \A x \in {op'.dir, op'.block, op'.seq, op'.victim} : x # None => x \in Accounted'
BY DEF Accounted, InTree, InHand, Pending

LEMMA HandIs ==
    \A x \in InHand : x # None /\ x \in {op.dir, op.block, op.seq, op.victim}
BY DEF InHand, Pending

-----------------------------------------------------------------------------
(***************************************************************************)
(* What each step does to what is counted.                                 *)
(***************************************************************************)
LEMMA ReachedBoth ==
    ASSUME Kept, TypeOK', TreeInv', pc # "dangling", pc' # "dangling"
    PROVE  LeastReached /\ LeastReached'
BY TreeReached, TreeReachedNext DEF Kept

\* The references stay, or more are made.
LEMMA UnchangedReached ==
    ASSUME LeastReached, LeastReached', UNCHANGED <<ent, link, refs, root>>
    PROVE  InTree \subseteq InTree'
<1>1. \A b \in Blocks : Refs(b)' = Refs(b)
  BY DEF Refs, To, At
<1>2. /\ root' = root /\ {} \in SUBSET Blocks
      /\ \A b \in InTree : Refs(b) \subseteq Refs(b)' \cup {}
      /\ \A b \in {} : Refs(b) = {}
  BY <1>1 DEF LeastReached
<1>3. InTree \subseteq InTree' \cup {}
  BY <1>2, ReachedGrows
<1> QED
  BY <1>3

LEMMA MoreReached ==
    ASSUME LeastReached, LeastReached', root' = root,
           \A b \in Blocks : link[b] \in Blocks => link'[b] = link[b],
           \A b \in Blocks, i \in Idx : To(b, i) \in Blocks => To(b, i)' = To(b, i),
           \A b \in Blocks, j \in Nat : At(b, j) \in Blocks => At(b, j)' = At(b, j)
    PROVE  InTree \subseteq InTree'
<1>1. \A b \in Blocks : Refs(b) \subseteq Refs(b)'
  BY DEF Refs
<1>2. /\ {} \in SUBSET Blocks
      /\ \A b \in InTree : Refs(b) \subseteq Refs(b)' \cup {}
      /\ \A b \in {} : Refs(b) = {}
  BY <1>1 DEF LeastReached
<1>3. InTree \subseteq InTree' \cup {}
  BY <1>2, ReachedGrows
<1> QED
  BY <1>3

LEMMA EntryReached ==
    ASSUME TypeOK, LeastReached, LeastReached', NEW d \in Blocks, NEW s \in Idx, NEW e,
           Writes(d, s, e), UNCHANGED <<link, refs, root>>,
           ent[d][s].next # <<>> => e.next = ent[d][s].next
    PROVE  InTree \subseteq InTree'
<1>1. \A b \in Blocks, i \in Idx : ent'[b][i] = IF b = d /\ i = s THEN e ELSE ent[b][i]
  <2>1. ent \in [Blocks -> [Idx -> Entry]] /\ ent' = [ent EXCEPT ![d][s] = e]
    BY DEF TypeOK, Writes
  <2> QED
    BY <2>1
<1>2. ASSUME NEW b \in Blocks, NEW i \in Idx, To(b, i) \in Blocks PROVE To(b, i)' = To(b, i)
  <2>1. ent[b][i].next # <<>>
    BY <1>2, Given DEF To
  <2>2. ent'[b][i].next = ent[b][i].next
    BY <1>1, <2>1
  <2> QED
    BY <2>2 DEF To
<1>3. /\ \A b \in Blocks : link'[b] = link[b]
      /\ \A b \in Blocks, j \in Nat : At(b, j)' = At(b, j)
  BY DEF At
<1> QED
  BY <1>2, <1>3, MoreReached

\* Steps that leave the call's variables
LEMMA SameHand ==
    ASSUME InTree \subseteq InTree', ToSet(free) \subseteq ToSet(free'), op' = op
    PROVE  Accounted \subseteq Accounted'
<1>1. InHand' = InHand
  BY DEF InHand, Pending
<1> QED
  BY <1>1 DEF Accounted, InTree

LEMMA QuietCounted ==
    ASSUME Kept, TypeOK', TreeInv', pc # "dangling", pc' # "dangling",
           UNCHANGED <<flash, free, root, op>>
    PROVE  Accounted \subseteq Accounted'
<1>1. UNCHANGED <<ent, link, refs, root, free, op>>
  BY DEF flash
<1> QED
  BY <1>1, ReachedBoth, UnchangedReached, SameHand

LEMMA BeginCounted ==
    ASSUME Kept, TypeOK', TreeInv', pc = "idle", pc' # "dangling", UNCHANGED <<flash, free, root>>
    PROVE  Accounted \subseteq Accounted'
<1>1. UNCHANGED <<ent, link, refs, root, free>>
  BY DEF flash
<1>2. InTree \subseteq InTree'
  BY <1>1, ReachedBoth, UnchangedReached
<1>3. op = NoOp
  BY Before DEF Kept, Holds
<1>4. InHand = {}
  BY <1>3 DEF InHand, Pending, NoOp
<1> QED
  BY <1>1, <1>2, <1>4 DEF Accounted, InTree

LEMMA RemoveCounted ==
    ASSUME Kept, TypeOK', TreeInv', NEW p \in Paths, RemovePath(p)
    PROVE  Accounted \subseteq Accounted'
<1>1. pc = "idle" /\ UNCHANGED <<kind, link, refs, free, root, pc, op, walk, crashes>>
  BY DEF RemovePath
<1>2. PICK place \in Find(p) : ent' = [ent EXCEPT ![place[1]][place[2]].reclaimable = TRUE]
  BY DEF RemovePath
<1>3. TypeOK /\ Shape /\ Contents /\ NoCycle
  BY <1>1, Before DEF Kept
<1>4. PICK d \in Blocks, s \in Idx : d = place[1] /\ s = place[2]
  BY <1>3, PlaceFound
<1>5. PICK e : e = [ent[d][s] EXCEPT !.reclaimable = TRUE]
  OBVIOUS
<1>6. Writes(d, s, e) /\ e.next = ent[d][s].next
  <2>1. ent[d][s] \in Entry
    BY <1>3 DEF Shape
  <2>2. e.next = ent[d][s].next
    BY <1>5, <2>1 DEF Entry
  <2> QED
    BY <1>2, <1>4, <1>5, <2>2 DEF Writes
<1>7. LeastReached /\ LeastReached'
  BY <1>1, ReachedBoth
<1>8. InTree \subseteq InTree'
  BY <1>1, <1>3, <1>6, <1>7, EntryReached
<1> QED
  BY <1>1, <1>8, SameHand

\* The entry of a new path: its directory block is in the tree, and so is what it
\* refers to.
LEMMA UseCounted ==
    ASSUME Kept, TypeOK', TreeInv', UseEntry
    PROVE  Accounted \subseteq Accounted' /\ InTree \subseteq InTree'
<1>1. /\ pc = "use" /\ pc' = "write" /\ UNCHANGED <<kind, link, refs, free, root, op, walk, crashes>>
      /\ ent' = [ent EXCEPT ![op.dir][op.slot].used = TRUE]
  BY DEF UseEntry
<1>2. TypeOK /\ op.dir \in Blocks /\ op.slot \in Idx /\ MakesEntry
  BY <1>1, WritingIs DEF Kept
<1>3. OpEntry = BlankEntry
  BY <1>1, <1>2 DEF MakesEntry
<1>4. PICK d \in Blocks, s \in Idx : d = op.dir /\ s = op.slot
  BY <1>2
<1>5. PICK e : e = [ent[d][s] EXCEPT !.used = TRUE]
  OBVIOUS
<1>6. Writes(d, s, e) /\ ent[d][s].next = <<>>
  BY <1>1, <1>3, <1>4, <1>5 DEF Writes, OpEntry, BlankEntry
<1>7. LeastReached /\ LeastReached'
  BY <1>1, ReachedBoth
<1>8. InTree \subseteq InTree'
  BY <1>1, <1>2, <1>6, <1>7, EntryReached
<1> QED
  BY <1>1, <1>8, SameHand

LEMMA WriteCounted ==
    ASSUME Kept, TypeOK', TreeInv', WriteEntry
    PROVE  Accounted \subseteq Accounted' /\ InTree \subseteq InTree'
<1>1. /\ pc = "write" /\ pc' = "commit"
      /\ UNCHANGED <<kind, link, refs, free, root, op, walk, crashes>>
      /\ ent' = [ent EXCEPT ![op.dir][op.slot].path = op.path,
                            ![op.dir][op.slot].next = <<op.block>>]
  BY DEF WriteEntry
<1>2. TypeOK /\ op.dir \in Blocks /\ op.slot \in Idx /\ MakesEntry
  BY <1>1, WritingIs DEF Kept
<1>3. OpEntry = [BlankEntry EXCEPT !.used = TRUE]
  BY <1>1, <1>2 DEF MakesEntry
<1>4. PICK d \in Blocks, s \in Idx : d = op.dir /\ s = op.slot
  BY <1>2
<1>5. PICK e : e = [ent[d][s] EXCEPT !.path = op.path, !.next = <<op.block>>]
  OBVIOUS
<1>6. Writes(d, s, e) /\ ent[d][s].next = <<>>
  <2>1. ent \in [Blocks -> [Idx -> Entry]] /\ ent[d][s] \in Entry
    BY <1>2 DEF TypeOK
  <2>2. Writes(d, s, e)
    BY <1>1, <1>4, <1>5, <2>1 DEF Entry, Writes
  <2> QED
    BY <1>3, <1>4, <2>2 DEF OpEntry, BlankEntry
<1>7. LeastReached /\ LeastReached'
  BY <1>1, ReachedBoth
<1>8. InTree \subseteq InTree'
  BY <1>1, <1>2, <1>6, <1>7, EntryReached
<1> QED
  BY <1>1, <1>8, SameHand

LEMMA CommitCounted ==
    ASSUME Kept, TypeOK', TreeInv', CommitEntry PROVE Accounted \subseteq Accounted'
<1>1. /\ pc = "commit" /\ pc' = "idle" /\ UNCHANGED <<kind, link, refs, free, root, walk, crashes>>
      /\ ent' = [ent EXCEPT ![op.dir][op.slot].committed = TRUE]
  BY DEF CommitEntry, Return
<1>2. /\ TypeOK /\ Shape /\ op.victim = None /\ op.dir \in Blocks /\ op.slot \in Idx /\ MakesEntry
      /\ op.block \in Optional
  BY <1>1, WritingIs, ShapeHolds DEF Kept
<1>3. /\ op.seq = None
      /\ OpEntry = [BlankEntry EXCEPT !.used = TRUE, !.path = op.path, !.next = <<op.block>>]
  BY <1>1, <1>2 DEF MakesEntry
<1>4. PICK d \in Blocks, s \in Idx : d = op.dir /\ s = op.slot
  BY <1>2
<1>5. PICK e : e = [ent[d][s] EXCEPT !.committed = TRUE]
  OBVIOUS
<1>6. Writes(d, s, e) /\ e.next = ent[d][s].next
  <2>1. ent[d][s] \in Entry
    BY <1>2 DEF Shape
  <2>2. e.next = ent[d][s].next
    BY <1>5, <2>1 DEF Entry
  <2> QED
    BY <1>1, <1>4, <1>5, <2>2 DEF Writes
<1>7. LeastReached /\ LeastReached' /\ d \in InTree
  BY <1>1, <1>4, ReachedBoth, DirReached
<1>8. InTree \subseteq InTree'
  BY <1>1, <1>2, <1>6, <1>7, EntryReached
<1>9. To(d, s) = op.block
  <2>1. ent[d][s].next = <<op.block>>
    BY <1>3, <1>4 DEF OpEntry, BlankEntry
  <2>2. <<op.block>> # <<>> /\ Last(<<op.block>>) = op.block
    BY DEF Last
  <2> QED
    BY <2>1, <2>2 DEF To
<1>10. op.block # None => op.block \in InTree
  <2>1. op.block # None => op.block \in Refs(d)
    BY <1>2, <1>9 DEF Refs, Optional
  <2> QED
    BY <1>7, <2>1 DEF LeastReached
<1>11. InHand \subseteq InTree
  BY <1>2, <1>3, <1>4, <1>7, <1>10, HandIs
<1> QED
  BY <1>1, <1>8, <1>11, CountedAfter DEF Accounted, InTree

\* A block that is taken from the queue is in hand, or in the tree.
LEMMA TakenCounted ==
    ASSUME TypeOK, NEW b, NEW type, Allocate(b, type), b \in Accounted',
           InTree \subseteq InTree', InHand \subseteq Accounted'
    PROVE  Accounted \subseteq Accounted'
<1>1. \A x \in ToSet(free) : x \in Accounted'
  BY QueueTaken, CountedAfter
<1> QED
  BY <1>1, CountedAfter DEF Accounted, InTree

LEMMA ExtendCounted ==
    ASSUME Kept, TypeOK', TreeInv', ExtendDir PROVE Accounted \subseteq Accounted'
<1>1. pc = "extend" /\ pc' = "block" /\ UNCHANGED <<ent, refs, root>>
  BY DEF ExtendDir
<1>2. PICK b \in Blocks : /\ Allocate(b, "dir") /\ link' = [link EXCEPT ![op.dir] = b]
                          /\ op' = [op EXCEPT !.dir = b, !.slot = 1]
  BY DEF ExtendDir
<1>3. LeastReached /\ LeastReached'
  BY <1>1, ReachedBoth
<1>4. TypeOK /\ link[op.dir] = None /\ op.dir \in Blocks /\ op.dir \in InTree
  BY <1>1, <1>3, DirReached DEF Kept, Places, Making
<1>5. InTree \subseteq InTree'
  <2>1. \A x \in Blocks : link[x] \in Blocks => link'[x] = link[x]
    BY <1>2, <1>4, Given DEF TypeOK
  <2>2. /\ \A x \in Blocks, i \in Idx : To(x, i)' = To(x, i)
        /\ \A x \in Blocks, j \in Nat : At(x, j)' = At(x, j)
    BY <1>1 DEF To, At
  <2> QED
    BY <1>1, <1>3, <2>1, <2>2, MoreReached
<1>6. /\ op'.dir = b /\ op'.block = op.block /\ op'.seq = op.seq /\ op'.victim = op.victim
  BY <1>2, <1>4 DEF TypeOK
<1>7. b \in Accounted' /\ op.dir \in Accounted'
  <2>1. b # None
    BY <1>2, Given
  <2> QED
    BY <1>4, <1>5, <1>6, <2>1, CountedAfter
<1>8. InHand \subseteq Accounted'
  BY <1>6, <1>7, HandIs, CountedAfter
<1> QED
  BY <1>2, <1>4, <1>5, <1>7, <1>8, TakenCounted

LEMMA TakeBlockCounted ==
    ASSUME Kept, TypeOK', TreeInv', pc' # "dangling", TakeBlock \/ TakeData
    PROVE  Accounted \subseteq Accounted'
<1>1. PICK b \in Blocks, type \in {"dir", "seq", "data"} :
         Allocate(b, type) /\ op' = [op EXCEPT !.block = b]
  BY DEF TakeBlock, TakeData
<1>2. UNCHANGED <<ent, link, refs, root>> /\ pc \in {"block", "data"} /\ pc # "dangling"
  BY DEF TakeBlock, TakeData
<1>3. TypeOK /\ op.block = None
  BY <1>2, Before DEF Kept, Holds, MakesEntry, Appends
<1>4. InTree \subseteq InTree'
  BY <1>2, ReachedBoth, UnchangedReached
<1>5. op'.dir = op.dir /\ op'.block = b /\ op'.seq = op.seq /\ op'.victim = op.victim
  BY <1>1, <1>3 DEF TypeOK
<1>6. b \in Accounted' /\ InHand \subseteq Accounted'
  <2>1. b # None
    BY Given
  <2> QED
    BY <1>3, <1>5, <2>1, HandIs, CountedAfter
<1> QED
  BY <1>1, <1>3, <1>4, <1>6, TakenCounted

\* The sequence block of the file goes below the new indirection block.
LEMMA MigrateCounted ==
    ASSUME Kept, TypeOK', TreeInv', Migrate PROVE Accounted \subseteq Accounted'
<1>1. pc = "indir" /\ pc' = "seq" /\ UNCHANGED <<link, root, op>>
  BY DEF Migrate
<1>2. PICK b \in Blocks : /\ Allocate(b, "indir")
                          /\ refs' = [refs EXCEPT ![b] = <<op.seq>>]
                          /\ ent' = [ent EXCEPT ![op.dir][op.slot].next = Append(@, b)]
  BY DEF Migrate
<1>3. /\ TypeOK /\ walk = <<>> /\ refs[b] = <<>> /\ \A j \in Nat : At(b, j) = None
  BY <1>1, <1>2, Allocated DEF Kept, Allocate
<1>4. /\ op.dir \in Blocks /\ op.slot \in Idx /\ op.seq \in Blocks /\ Appends
      /\ OpEntry = ent[op.dir][op.slot] /\ OpEntry \in Entry
      /\ OpTop = To(op.dir, op.slot) /\ (kind[OpTop] = "seq" => op.seq = OpTop)
  BY <1>1, <1>3, AppendIs DEF Kept
<1>5. PICK d \in Blocks, s \in Idx, q \in Blocks : d = op.dir /\ s = op.slot /\ q = op.seq
  BY <1>4
<1>6. To(d, s) = q
  BY <1>1, <1>4, <1>5 DEF Appends
<1>7. PICK o \in Seq(Blocks) : o = ent[d][s].next
  BY <1>4, <1>5 DEF Entry
<1>8. PICK n : n = Append(o, b)
  OBVIOUS
<1>9. n # <<>> /\ Last(n) = b
  <2>1. \A y \in Blocks : \A t : t = Append(o, y) =>
           t \in Seq(Blocks) /\ t # <<>> /\ Len(t) = Len(o) + 1 /\ Last(t) = y
    BY Pushed
  <2> QED
    BY <1>8, <2>1, Zenon
<1>10. \A x \in Blocks, i \in Idx :
          ent'[x][i].next = IF x = d /\ i = s THEN n ELSE ent[x][i].next
  <2>1. ent \in [Blocks -> [Idx -> Entry]] /\ ent[d][s] \in Entry
    BY <1>3 DEF TypeOK
  <2>2. ent' = [ent EXCEPT ![d][s] = [ent[d][s] EXCEPT !.next = n]]
    BY <1>2, <1>5, <1>7, <1>8, <2>1
  <2>3. \A x \in Blocks, i \in Idx :
           ent'[x][i] = IF x = d /\ i = s THEN [ent[d][s] EXCEPT !.next = n] ELSE ent[x][i]
    BY <2>1, <2>2
  <2>4. [ent[d][s] EXCEPT !.next = n].next = n
    BY <2>1 DEF Entry
  <2> QED
    BY <2>3, <2>4
<1>11. \A x \in Blocks, i \in Idx : To(x, i)' = IF x = d /\ i = s THEN b ELSE To(x, i)
  BY <1>9, <1>10 DEF To
<1>12. \A x \in Blocks, j \in Nat : At(x, j)' = IF x = b /\ j = 1 THEN q ELSE At(x, j)
  <2>1. refs'[b] = <<q>> /\ \A x \in Blocks : x # b => refs'[x] = refs[x]
    BY <1>2, <1>3, <1>5 DEF TypeOK
  <2>2. \A j \in Nat : At(b, j)' = IF j = 1 THEN q ELSE None
    BY <2>1 DEF At
  <2>3. \A x \in Blocks, j \in Nat : x # b => At(x, j)' = At(x, j)
    BY <2>1 DEF At
  <2> QED
    BY <1>3, <2>2, <2>3
<1>13. LeastReached /\ LeastReached' /\ d \in InTree
  BY <1>1, <1>5, ReachedBoth, DirReached DEF Adding
<1>14. /\ \A x \in Blocks : x # d => Refs(x) \subseteq Refs(x)'
       /\ Refs(d) \subseteq Refs(d)' \cup {q}
  <2>1. \A x \in Blocks : link'[x] = link[x]
    BY <1>1
  <2>2. \A x \in Blocks, i \in Idx : To(x, i)' = To(x, i) \/ (x = d /\ To(x, i) = q)
    BY <1>6, <1>11
  <2>3. \A x \in Blocks, j \in Nat : At(x, j) \in Blocks => At(x, j)' = At(x, j)
    BY <1>3, <1>12, Given
  <2> QED
    BY <2>1, <2>2, <2>3 DEF Refs
<1>15. b \in Refs(d)' /\ q \in Refs(b)'
  <2>1. To(d, s)' = b /\ At(b, 1)' = q
    BY <1>11, <1>12
  <2> QED
    BY <2>1 DEF Refs
<1>16. root' = root /\ root' \in InTree' /\ \A x \in InTree' : Refs(x)' \subseteq InTree'
  BY <1>1, <1>13 DEF LeastReached
<1>17. d \in InTree' => b \in InTree' /\ q \in InTree'
  BY <1>15, <1>16
<1>18. InTree \subseteq InTree' \cup {}
  <2>1. \A x \in InTree \cap (InTree' \cup {}) : Refs(x) \subseteq InTree' \cup {}
    BY <1>13, <1>14, <1>16, <1>17 DEF LeastReached
  <2>2. {} \in SUBSET Blocks
    OBVIOUS
  <2> QED
    BY <1>13, <1>16, <2>1, <2>2, ReachedStays
<1>19. b \in Accounted' /\ InHand \subseteq Accounted'
  <2>1. b \in InTree' /\ InHand' = InHand
    BY <1>1, <1>13, <1>17, <1>18 DEF InHand, Pending
  <2> QED
    BY <2>1, CountedAfter DEF Accounted
<1> QED
  BY <1>2, <1>3, <1>18, <1>19, TakenCounted

LEMMA NewSeqCounted ==
    ASSUME Kept, TypeOK', TreeInv', NewSeqBlock PROVE Accounted \subseteq Accounted'
<1>1. pc = "seq" /\ pc' = "entry" /\ UNCHANGED <<ent, link, root>>
  BY DEF NewSeqBlock
<1>2. PICK b \in Blocks : /\ Allocate(b, "seq")
                          /\ refs' = [refs EXCEPT ![OpTop] = Append(@, b)]
                          /\ op' = [op EXCEPT !.seq = b]
  BY DEF NewSeqBlock, EntryOf, OpTop, OpEntry
<1>3. TypeOK /\ walk = <<>> /\ LeastReached /\ LeastReached'
  BY <1>1, <1>2, ReachedBoth DEF Kept, Allocate
<1>4. OpTop \in Blocks /\ op.seq \in InTree
  BY <1>1, <1>3, AppendIs, SeqReached DEF Kept
<1>5. PICK top \in Blocks : top = OpTop
  BY <1>4
<1>6. \A x \in Blocks, j \in Nat : At(x, j) \in Blocks => At(x, j)' = At(x, j)
  <2>1. Referred(top, b)
    BY <1>2, <1>3, <1>5, RefMade DEF Refers
  <2>2. PICK n : n = Len(refs[top]) + 1
    OBVIOUS
  <2>3. At(top, n) = None
    <3>1. refs[top] \in Seq(Blocks \cup {None})
      BY <1>3 DEF TypeOK
    <3>2. Len(refs[top]) \in Nat /\ DOMAIN refs[top] = 1 .. Len(refs[top])
      BY <3>1, SeqIs
    <3> QED
      BY <2>2, <3>2 DEF At
  <2>4. \A x \in Blocks, j \in Nat : At(x, j)' = IF x = top /\ j = n THEN b ELSE At(x, j)
    BY <2>1, <2>2 DEF Referred
  <2> QED
    BY <2>3, <2>4, Given
<1>7. InTree \subseteq InTree'
  <2>1. \A x \in Blocks, i \in Idx : To(x, i)' = To(x, i)
    BY <1>1 DEF To
  <2> QED
    BY <1>1, <1>3, <1>6, <2>1, MoreReached
<1>8. op'.dir = op.dir /\ op'.block = op.block /\ op'.seq = b /\ op'.victim = op.victim
  BY <1>2, <1>3 DEF TypeOK
<1>9. b \in Accounted' /\ InHand \subseteq Accounted'
  <2>1. b # None
    BY Given
  <2> QED
    BY <1>4, <1>7, <1>8, <2>1, HandIs, CountedAfter
<1> QED
  BY <1>2, <1>3, <1>7, <1>9, TakenCounted

\* The data block goes below the sequence block, and the call is done.
LEMMA RecordCounted ==
    ASSUME Kept, TypeOK', TreeInv', RecordData PROVE Accounted \subseteq Accounted'
<1>1. pc = "entry" /\ pc' = "idle" /\ UNCHANGED <<kind, ent, link, free, root, walk, crashes>>
  BY DEF RecordData, Return
<1>2. TypeOK /\ walk = <<>> /\ op.victim = None /\ LeastReached /\ LeastReached'
  BY <1>1, ReachedBoth DEF Kept, TreeInv, Collecting, Allocating
<1>3. op.dir \in InTree /\ op.seq \in InTree /\ op.block \in Blocks
  BY <1>1, <1>2, Before, DirReached, SeqReached DEF Kept, Holds, Appends, Adding, TypeOK
<1>4. PICK q \in Blocks, x \in Blocks : q = op.seq /\ x = op.block
  BY <1>2, <1>3 DEF LeastReached
<1>5. Referred(q, x)
  BY <1>2, <1>4, RefMade DEF RecordData, Refers
<1>6. Len(refs[q]) \in Nat /\ \A j \in Nat : j = Len(refs[q]) + 1 => At(q, j) = None
  <2>1. refs[q] \in Seq(Blocks \cup {None})
    BY <1>2 DEF TypeOK
  <2>2. Len(refs[q]) \in Nat /\ DOMAIN refs[q] = 1 .. Len(refs[q])
    BY <2>1, SeqIs
  <2> QED
    BY <2>2 DEF At
<1>7. InTree \subseteq InTree'
  <2>1. \A y \in Blocks, i \in Idx : To(y, i)' = To(y, i)
    BY <1>1 DEF To
  <2>2. \A y \in Blocks, j \in Nat : At(y, j) \in Blocks => At(y, j)' = At(y, j)
    BY <1>5, <1>6, Given DEF Referred
  <2> QED
    BY <1>1, <1>2, <2>1, <2>2, MoreReached
<1>8. x \in InTree'
  <2>1. PICK j \in Nat : j = Len(refs[q]) + 1
    BY <1>6
  <2>2. At(q, j)' = x
    BY <1>5, <2>1 DEF Referred
  <2>3. x \in Refs(q)'
    BY <2>2 DEF Refs
  <2>4. q \in InTree'
    BY <1>3, <1>4, <1>7
  <2> QED
    BY <1>2, <2>3, <2>4 DEF LeastReached
<1>9. InHand \subseteq InTree'
  BY <1>2, <1>3, <1>4, <1>7, <1>8, HandIs
<1> QED
  BY <1>1, <1>7, <1>9, CountedAfter DEF Accounted, InTree

\* The collector takes a file apart from below: what it takes out of the tree refers
\* to nothing.
LEMMA ZeroRefCounted ==
    ASSUME Kept, TypeOK', TreeInv', pc # "dangling", NEW s \in Blocks, NEW m \in DOMAIN refs[s],
           NEW v \in Blocks, refs[s][m] = v, Erases(s, m), Refs(v) = {}, op.victim = None,
           op' = [op EXCEPT !.victim = v], UNCHANGED <<kind, ent, link, free, root, pc>>
    PROVE  Accounted \subseteq Accounted'
<1>1. TypeOK /\ LeastReached /\ LeastReached'
  BY ReachedBoth DEF Kept
<1>2. /\ \A c \in Blocks, j \in Nat : At(c, j)' = IF c = s /\ j = m THEN None ELSE At(c, j)
      /\ At(s, m) = v
  BY <1>1, RefErased DEF Erased, At
<1>3. \A x \in Blocks : Refs(x) \subseteq Refs(x)' \cup {v}
  <2>1. \A x \in Blocks, i \in Idx : To(x, i)' = To(x, i)
    BY DEF To
  <2>2. \A x \in Blocks, j \in Nat : At(x, j)' = At(x, j) \/ At(x, j) = v
    BY <1>2
  <2> QED
    BY <2>1, <2>2 DEF Refs
<1>4. InTree \subseteq InTree' \cup {v}
  <2>1. \A x \in InTree : Refs(x) \subseteq Refs(x)' \cup {v}
    BY <1>1, <1>3 DEF LeastReached
  <2>2. {v} \in SUBSET Blocks /\ \A x \in {v} : Refs(x) = {}
    OBVIOUS
  <2> QED
    BY <1>1, <2>1, <2>2, ReachedGrows
<1>5. op'.dir = op.dir /\ op'.block = op.block /\ op'.seq = op.seq /\ op'.victim = v
  BY <1>1 DEF TypeOK
<1>6. {v} \subseteq Accounted' /\ InHand \subseteq Accounted'
  <2>1. v # None
    BY Given
  <2> QED
    BY <1>5, <2>1, HandIs, CountedAfter
<1>7. ToSet(free) \subseteq Accounted'
  BY CountedAfter
<1> QED
  BY <1>4, <1>6, <1>7, AllCounted

LEMMA ZeroDataRefCounted ==
    ASSUME Kept, TypeOK', TreeInv', ZeroDataRef PROVE Accounted \subseteq Accounted'
<1>1. /\ AtVictim /\ op.victim = None /\ UNCHANGED <<kind, ent, link, free, root, pc>>
  BY DEF ZeroDataRef
<1>2. PICK s \in VictimSeqs :
         /\ SetRefs(s) # {}
         /\ refs' = [refs EXCEPT ![s][Min(SetRefs(s))] = None]
         /\ op' = [op EXCEPT !.victim = refs[s][Min(SetRefs(s))]]
  BY DEF ZeroDataRef
<1>3. TypeOK /\ TreeInv /\ pc # "dangling" /\ VictimTop \in Blocks
  BY <1>1, VictimIs DEF Kept
<1>4. Contents /\ Linked
  BY <1>3, Before
<1>5. ~TopFreed
  <2> SUFFICES ASSUME TopFreed PROVE FALSE
    OBVIOUS
  <2>1. refs[VictimTop] = <<>>
    BY <1>3, <1>4 DEF TopFreed, Contents
  <2>2. s = VictimTop
    BY DEF VictimSeqs, TopFreed
  <2> QED
    BY <1>2, <2>1, <2>2 DEF SetRefs
<1>6. s \in Blocks /\ kind[s] = "seq"
  BY <1>1, <1>3, <1>5, VictimSeqsAre
<1>7. Min(SetRefs(s)) \in DOMAIN refs[s] /\ refs[s][Min(SetRefs(s))] \in Blocks
  BY <1>2, <1>3, <1>6, FirstSetRef
<1>8. PICK m \in DOMAIN refs[s], v \in Blocks : m = Min(SetRefs(s)) /\ v = refs[s][m]
  BY <1>7
<1>9. kind[v] = "data"
  <2>1. m \in Nat
    <3>1. refs[s] \in Seq(Blocks \cup {None})
      BY <1>3, <1>6 DEF TypeOK
    <3> QED
      BY <3>1, SeqIs
  <2>2. At(s, m) = v /\ v # None
    BY <1>8, Given DEF At
  <2>3. At(s, m) # None => kind[At(s, m)] = IF kind[s] = "seq" THEN "data" ELSE "seq"
    BY <1>4, <1>6, <2>1 DEF Linked
  <2> QED
    BY <1>6, <2>2, <2>3
<1>10. Refs(v) = {}
  BY <1>3, <1>9, RefsByKind
<1>11. Erases(s, m) /\ op' = [op EXCEPT !.victim = v]
  BY <1>2, <1>8 DEF Erases
<1> QED
  BY <1>1, <1>3, <1>6, <1>8, <1>10, <1>11, ZeroRefCounted

\* A sequence block with no reference left, and an indirection block
LEMMA NothingBelow ==
    ASSUME TypeOK, TreeInv, pc # "dangling", NEW b \in Blocks, kind[b] \in {"seq", "indir"},
           SetRefs(b) = {}
    PROVE  Refs(b) = {}
<1>1. \A j \in Nat : At(b, j) = None
  BY DEF SetRefs, At
<1>2. \A x \in Refs(b) : x \in Blocks /\ \E j \in Nat : x = At(b, j)
  BY RefsByKind DEF Refs
<1> QED
  BY <1>1, <1>2, Given

LEMMA ZeroSeqRefCounted ==
    ASSUME Kept, TypeOK', TreeInv', ZeroSeqRef PROVE Accounted \subseteq Accounted'
<1>1. /\ AtVictim /\ op.victim = None /\ kind[VictimTop] = "indir"
      /\ UNCHANGED <<kind, ent, link, free, root, pc>>
  BY DEF ZeroSeqRef
<1>2. PICK v \in VictimSeqs :
         /\ SetRefs(v) = {}
         /\ refs' = [refs EXCEPT ![VictimTop][Min(SetRefs(VictimTop))] = None]
         /\ op' = [op EXCEPT !.victim = v]
  BY DEF ZeroSeqRef
<1>3. TypeOK /\ TreeInv /\ pc # "dangling" /\ VictimTop \in Blocks /\ ~TopFreed
  BY <1>1, VictimIs DEF Kept, TopFreed
<1>4. /\ v \in Blocks /\ kind[v] = "seq"
      /\ Min(SetRefs(VictimTop)) \in DOMAIN refs[VictimTop]
      /\ refs[VictimTop][Min(SetRefs(VictimTop))] = v
  BY <1>1, <1>3, VictimSeqsAre
<1>5. PICK s \in Blocks : s = VictimTop
  BY <1>3
<1>6. PICK m \in DOMAIN refs[s] : m = Min(SetRefs(VictimTop)) /\ refs[s][m] = v
  BY <1>4, <1>5
<1>7. Erases(s, m)
  BY <1>2, <1>5, <1>6 DEF Erases
<1>8. Refs(v) = {}
  BY <1>2, <1>3, <1>4, NothingBelow
<1> QED
  BY <1>1, <1>2, <1>3, <1>4, <1>6, <1>7, <1>8, ZeroRefCounted

LEMMA EmptyFreed ==
    ASSUME Kept, TypeOK', TreeInv', pc # "dangling", NEW x \in Blocks, Free(x),
           x \notin InTree \/ Refs(x) = {},
           refs' = [refs EXCEPT ![x] = <<>>], UNCHANGED <<ent, link, root, pc>>
    PROVE  InTree \subseteq InTree' /\ ToSet(free) \cup {x} \subseteq ToSet(free')
<1>1. TypeOK /\ LeastReached /\ LeastReached'
  BY ReachedBoth DEF Kept
<1>2. \A b \in Blocks : b # x => Refs(b) \subseteq Refs(b)'
  <2>1. \A b \in Blocks : b # x => refs'[b] = refs[b]
    BY <1>1 DEF TypeOK
  <2>2. \A b \in Blocks, j \in Nat : b # x => At(b, j)' = At(b, j)
    BY <2>1 DEF At
  <2>3. \A b \in Blocks, i \in Idx : To(b, i)' = To(b, i)
    BY DEF To
  <2> QED
    BY <2>2, <2>3 DEF Refs
<1>3. /\ {} \in SUBSET Blocks /\ root' = root
      /\ \A b \in InTree : Refs(b) \subseteq Refs(b)' \cup {}
      /\ \A b \in {} : Refs(b) = {}
  BY <1>1, <1>2 DEF LeastReached
<1>4. InTree \subseteq InTree' \cup {}
  BY <1>1, <1>3, ReachedGrows
<1> QED
  BY <1>1, <1>4, QueueGrown

LEMMA FreeVictimCounted ==
    ASSUME Kept, TypeOK', TreeInv', FreeVictim PROVE Accounted \subseteq Accounted'
<1>1. /\ op.victim # None /\ Free(op.victim) /\ refs' = [refs EXCEPT ![op.victim] = <<>>]
      /\ op' = [op EXCEPT !.victim = None] /\ UNCHANGED <<ent, link, root, pc>>
  BY DEF FreeVictim
<1>2. TypeOK /\ TreeInv /\ walk # <<>>
  BY <1>1 DEF Kept, TreeInv, Collecting
<1>3. pc # "dangling" /\ Walks
  BY <1>2, InWalk DEF Allocating
<1>4. PICK x \in Blocks : x = op.victim
  BY <1>1, <1>2 DEF TypeOK
<1>5. Alone(x)
  BY <1>1, <1>2, <1>3, <1>4, Before DEF Walks
<1>6. x \notin InTree
  BY <1>2, <1>3, <1>5, TreeReached, AloneUnreached
<1>7. Free(x) /\ refs' = [refs EXCEPT ![x] = <<>>] /\ UNCHANGED <<ent, link, root, pc>>
  BY <1>1, <1>4
<1>8. InTree \subseteq InTree' /\ ToSet(free) \cup {x} \subseteq ToSet(free')
  BY <1>3, <1>6, <1>7, EmptyFreed
<1>9. op'.dir = op.dir /\ op'.block = op.block /\ op'.seq = op.seq
  BY <1>1, <1>2 DEF TypeOK
<1>10. InHand \subseteq Accounted'
  BY <1>4, <1>8, <1>9, HandIs, CountedAfter
<1> QED
  BY <1>8, <1>10, CountedAfter DEF Accounted, InTree

LEMMA FreeTopCounted ==
    ASSUME Kept, TypeOK', TreeInv', FreeTop PROVE Accounted \subseteq Accounted'
<1>1. /\ AtVictim /\ ~TopFreed /\ SetRefs(VictimTop) = {} /\ Free(VictimTop)
      /\ refs' = [refs EXCEPT ![VictimTop] = <<>>] /\ UNCHANGED <<ent, link, root, pc, op>>
  BY DEF FreeTop
<1>2. /\ TypeOK /\ TreeInv /\ pc # "dangling" /\ VictimTop \in Blocks
      /\ kind[VictimTop] \in {"seq", "indir"}
  BY <1>1, VictimIs DEF Kept
<1>3. PICK x \in Blocks : x = VictimTop
  BY <1>2
<1>4. Refs(x) = {}
  BY <1>1, <1>2, <1>3, NothingBelow
<1>5. Free(x) /\ refs' = [refs EXCEPT ![x] = <<>>] /\ UNCHANGED <<ent, link, root, pc>>
  BY <1>1, <1>3
<1>6. InTree \subseteq InTree' /\ ToSet(free) \cup {x} \subseteq ToSet(free')
  BY <1>2, <1>4, <1>5, EmptyFreed
<1> QED
  BY <1>1, <1>6, SameHand

\* The entry of a file refers to a block that is free by now.
LEMMA ZeroEntryCounted ==
    ASSUME Kept, TypeOK', TreeInv', ZeroEntry PROVE Accounted \subseteq Accounted'
<1>1. /\ TopFreed /\ AtVictim /\ ent' = [ent EXCEPT ![Top.dir][Top.at] = ZeroedEntry(@)]
      /\ UNCHANGED <<kind, link, refs, free, root, pc, op>>
  BY DEF ZeroEntry, TopFreed
<1>2. /\ TypeOK /\ TreeInv /\ pc # "dangling" /\ VictimTop \in Blocks
      /\ Top.dir \in Blocks /\ Top.at \in Idx /\ VictimTop = To(Top.dir, Top.at)
  BY <1>1, VictimIs DEF Kept
<1>3. PICK d \in Blocks, s \in Idx, x \in Blocks : d = Top.dir /\ s = Top.at /\ x = VictimTop
  BY <1>2
<1>4. kind[x] = "erased" /\ To(d, s) = x /\ x \in ToSet(free)
  BY <1>1, <1>2, <1>3 DEF TopFreed, Kept, ErasedFree
<1>5. Refs(x) = {}
  BY <1>2, <1>4, RefsByKind
<1>6. PICK e : e = ZeroedEntry(ent[d][s])
  OBVIOUS
<1>7. \A c \in Blocks, i \in Idx : (c = d /\ i = s) \/ ent'[c][i] = ent[c][i]
  BY <1>1, <1>2, <1>3 DEF TypeOK
<1>8. \A c \in Blocks : Refs(c) \subseteq Refs(c)' \cup {x}
  <2>1. \A c \in Blocks, i \in Idx : To(c, i)' = To(c, i) \/ To(c, i) = x
    BY <1>4, <1>7 DEF To
  <2>2. \A c \in Blocks, j \in Nat : At(c, j)' = At(c, j)
    BY <1>1 DEF At
  <2> QED
    BY <1>1, <2>1, <2>2 DEF Refs
<1>9. InTree \subseteq InTree' \cup {x}
  <2>1. LeastReached /\ LeastReached'
    BY <1>1, <1>2, ReachedBoth
  <2>2. \A c \in InTree : Refs(c) \subseteq Refs(c)' \cup {x}
    BY <1>8, <2>1 DEF LeastReached
  <2>3. {x} \in SUBSET Blocks /\ \A c \in {x} : Refs(c) = {}
    BY <1>5
  <2> QED
    BY <1>1, <2>1, <2>2, <2>3, ReachedGrows
<1>10. InHand' = InHand /\ free' = free
  BY <1>1 DEF InHand, Pending
<1>11. /\ {x} \subseteq Accounted' /\ ToSet(free) \subseteq Accounted'
       /\ InHand \subseteq Accounted'
  BY <1>4, <1>10, CountedAfter DEF Accounted
<1> QED
  BY <1>9, <1>11, AllCounted

\* A directory block that is given up is free, and what it was linked to stays.
LEMMA MigrateRootCounted ==
    ASSUME Kept, TypeOK', TreeInv', MigrateRoot PROVE Accounted \subseteq Accounted'
<1>1. /\ AtEnd /\ ~EntriesLeft(root) /\ link[root] # None /\ root' = link[root]
      /\ ent' = [ent EXCEPT ![root] = ErasedDir] /\ FreeDirBlock(root)
      /\ UNCHANGED <<refs, pc, op>>
  BY DEF MigrateRoot
<1>2. TypeOK /\ TreeInv /\ pc # "dangling"
  BY <1>1, AtEndIs DEF Kept
<1>3. PICK r \in Blocks, c \in Blocks : r = root /\ c = link[root]
  BY <1>1, <1>2 DEF TypeOK
<1>4. Contents /\ Linked /\ LeastReached /\ LeastReached'
  BY <1>1, <1>2, Before, ReachedBoth
<1>5. Refs(r) \subseteq {c}
  <2>1. \A j \in Nat : At(r, j) = None
    BY <1>2, <1>3, <1>4, NoRefs DEF Linked
  <2>2. \A i \in Idx : To(r, i) = None
    BY <1>1, <1>2, <1>3, NoEntriesLeft
  <2> QED
    BY <1>3, <2>1, <2>2, Given DEF Refs
<1>6. \A x \in Blocks : x # r => Refs(x) \subseteq Refs(x)'
  <2>1. \A x \in Blocks : x # r => ent'[x] = ent[x] /\ link'[x] = link[x]
    BY <1>1, <1>2, <1>3 DEF TypeOK, FreeDirBlock
  <2>2. \A x \in Blocks, i \in Idx : x # r => To(x, i)' = To(x, i)
    BY <2>1 DEF To
  <2>3. \A x \in Blocks, j \in Nat : At(x, j)' = At(x, j)
    BY <1>1 DEF At
  <2> QED
    BY <2>1, <2>2, <2>3 DEF Refs
<1>7. root' \in InTree' /\ root' = c /\ \A x \in InTree' : Refs(x)' \subseteq InTree'
  BY <1>1, <1>3, <1>4 DEF LeastReached
<1>8. InTree \subseteq InTree' \cup {r}
  <2>1. \A x \in InTree \cap (InTree' \cup {r}) : Refs(x) \subseteq InTree' \cup {r}
    <3> SUFFICES ASSUME NEW x \in InTree, x \in InTree' \cup {r}
                 PROVE  Refs(x) \subseteq InTree' \cup {r}
      OBVIOUS
    <3>1. CASE x = r
      BY <1>5, <1>7, <3>1
    <3>2. CASE x # r
      BY <1>4, <1>6, <1>7, <3>2 DEF LeastReached
    <3> QED
      BY <3>1, <3>2
  <2>2. {r} \in SUBSET Blocks /\ root \in InTree' \cup {r}
    BY <1>3
  <2> QED
    BY <1>4, <2>1, <2>2, ReachedStays
<1>9. ToSet(free) \cup {r} \subseteq ToSet(free')
  BY <1>1, <1>2, <1>3, QueueGrown DEF FreeDirBlock
<1>10. InHand' = InHand
  BY <1>1 DEF InHand, Pending
<1>11. /\ {r} \subseteq Accounted' /\ ToSet(free) \subseteq Accounted'
       /\ InHand \subseteq Accounted'
  BY <1>9, <1>10, CountedAfter DEF Accounted
<1> QED
  BY <1>8, <1>11, AllCounted

LEMMA MigrateDirCounted ==
    ASSUME Kept, TypeOK', TreeInv', pc' # "dangling", MigrateDir
    PROVE  Accounted \subseteq Accounted'
<1>1. /\ AtEnd /\ Len(walk) > 1 /\ link[Top.dir] # None /\ ~EntriesLeft(Top.dir)
      /\ ent' = [ent EXCEPT ![Above.dir][Above.at].next = Append(@, link[Top.dir]),
                            ![Top.dir] = ErasedDir]
      /\ FreeDirBlock(Top.dir) /\ UNCHANGED <<refs, root, op>>
  BY DEF MigrateDir
<1>2. /\ TypeOK /\ TreeInv /\ walk # <<>> /\ pc # "dangling" /\ Top.dir \in Blocks
  BY <1>1, AtEndIs DEF Kept
<1>3. /\ Above \in Frames /\ Above.at \in Idx /\ To(Above.dir, Above.at) = Top.dir
      /\ kind[Top.dir] = "dir"
  BY <1>1, <1>2, WayAbove
<1>4. PICK b \in Blocks, p \in Blocks, n \in Idx, c \in Blocks :
         b = Top.dir /\ p = Above.dir /\ n = Above.at /\ c = link[b]
  BY <1>1, <1>2, <1>3 DEF Frames, TypeOK
<1>5. Shape /\ Contents /\ One /\ NoCycle /\ LeastReached /\ LeastReached'
  BY <1>1, <1>2, Before, ReachedBoth
<1>6. /\ To(p, n) = b /\ b # None /\ c # None /\ link[b] = c /\ b # root
      /\ \A x \in Blocks : link[x] # b
      /\ \A x \in Blocks, j \in Nat : At(x, j) # b
      /\ \A x \in Blocks, i \in Idx : To(x, i) = b => x = p /\ i = n
  <2>1. To(p, n) = b /\ b # None /\ c # None
    BY <1>3, <1>4, Given
  <2> QED
    BY <1>4, <1>5, <2>1 DEF One
<1>7. p # b /\ c # b
  <2>1. b \in Kids(p) /\ c \in Kids(b)
    BY <1>6 DEF Kids
  <2>2. {b} \in SUBSET Blocks /\ {b} # {}
    OBVIOUS
  <2>3. b \notin Kids(b)
    BY <1>5, <2>2 DEF NoCycle
  <2> QED
    BY <2>1, <2>3
<1>8. Refs(b) \subseteq {c}
  <2>1. \A j \in Nat : At(b, j) = None
    BY <1>2, <1>3, <1>4, <1>5, NoRefs
  <2>2. \A i \in Idx : To(b, i) = None
    BY <1>1, <1>2, <1>4, NoEntriesLeft
  <2> QED
    BY <1>4, <2>1, <2>2, Given DEF Refs
<1>9. PICK o \in Seq(Blocks) : o = ent[p][n].next
  BY <1>5 DEF Shape, Entry
<1> DEFINE q == Append(o, c)
<1>10. q # <<>> /\ Last(q) = c
  <2>1. \A y \in Blocks : \A t : t = Append(o, y) =>
           t \in Seq(Blocks) /\ t # <<>> /\ Len(t) = Len(o) + 1 /\ Last(t) = y
    BY Pushed
  <2> QED
    BY <1>9, <2>1, Zenon
<1> HIDE DEF q
<1>11. /\ ent'[p][n].next = q
       /\ \A x \in Blocks, i \in Idx : x = b \/ (x = p /\ i = n) \/ ent'[x][i] = ent[x][i]
       /\ \A x \in Blocks : x # b => link'[x] = link[x]
  <2>1. ent \in [Blocks -> [Idx -> Entry]] /\ ent[p][n] \in Entry
    BY <1>2 DEF TypeOK
  <2>2. ent' = [ent EXCEPT ![p][n].next = q, ![b] = ErasedDir]
    BY <1>1, <1>4, <1>9 DEF q
  <2>3. PICK row : row = [ent[p] EXCEPT ![n] = [ent[p][n] EXCEPT !.next = q]]
    OBVIOUS
  <2>4. ent'[p] = row /\ \A x \in Blocks : x # b /\ x # p => ent'[x] = ent[x]
    BY <1>7, <2>1, <2>2, <2>3
  <2>5. row[n].next = q /\ \A i \in Idx : i # n => row[i] = ent[p][i]
    BY <2>1, <2>3 DEF Entry
  <2>6. \A x \in Blocks : x # b => link'[x] = link[x]
    BY <1>1, <1>2, <1>4 DEF TypeOK, FreeDirBlock
  <2> QED
    BY <2>4, <2>5, <2>6
<1>12. To(p, n)' = c /\ \A x \in Blocks, i \in Idx : x = b \/ (x = p /\ i = n) \/ To(x, i)' = To(x, i)
  BY <1>10, <1>11 DEF To
<1>13. \A x \in Blocks : x # b => Refs(x) \subseteq Refs(x)' \cup {b}
  <2>1. \A x \in Blocks, j \in Nat : At(x, j)' = At(x, j)
    BY <1>1 DEF At
  <2> QED
    BY <1>6, <1>11, <1>12, <2>1 DEF Refs
<1>14. \A x \in Blocks : b \in Refs(x) => x = p
  BY <1>6 DEF Refs
<1>15. root' = root /\ root' \in InTree' /\ \A x \in InTree' : Refs(x)' \subseteq InTree'
  BY <1>1, <1>5 DEF LeastReached
<1>16. p \in InTree' => c \in InTree'
  <2>1. c \in Refs(p)'
    BY <1>12 DEF Refs
  <2> QED
    BY <1>15, <2>1
<1> DEFINE S == {x \in InTree : IF x = b THEN c \in InTree' ELSE x \in InTree'}
<1>17. S \in SUBSET Blocks /\ root \in S
  BY <1>5, <1>6, <1>15 DEF LeastReached
<1>18. ASSUME NEW x \in S, NEW y \in Refs(x) PROVE y \in S
  <2>1. x \in Blocks /\ x \in InTree /\ y \in InTree
    BY <1>5, <1>18 DEF LeastReached
  <2>2. CASE x = b
    BY <1>7, <1>8, <1>18, <2>1, <2>2
  <2>3. CASE x # b
    <3>1. x \in InTree'
      BY <1>18, <2>3
    <3>2. CASE y = b
      BY <1>14, <1>16, <1>18, <2>1, <3>1, <3>2
    <3>3. CASE y # b
      BY <1>13, <1>15, <1>18, <2>1, <2>3, <3>1, <3>3
    <3> QED
      BY <3>2, <3>3
  <2> QED
    BY <2>2, <2>3
<1>19. InTree \subseteq InTree' \cup {b}
  <2>1. \A x \in S : Refs(x) \subseteq S
    BY <1>18
  <2> HIDE DEF S
  <2>2. InTree \subseteq S
    BY <1>5, <1>17, <2>1 DEF LeastReached
  <2> QED
    BY <2>2 DEF S
<1>20. ToSet(free) \cup {b} \subseteq ToSet(free')
  BY <1>1, <1>2, <1>4, QueueGrown DEF FreeDirBlock
<1>21. InHand' = InHand
  BY <1>1 DEF InHand, Pending
<1>22. /\ {b} \subseteq Accounted' /\ ToSet(free) \subseteq Accounted'
       /\ InHand \subseteq Accounted'
  BY <1>20, <1>21, CountedAfter DEF Accounted
<1> QED
  BY <1>19, <1>22, AllCounted

\* A call that is given up, and a power loss, lose what was in hand.
LEMMA EndLoses ==
    ASSUME Kept, TypeOK', TreeInv', pc # "dangling", pc' # "dangling", UNCHANGED <<flash, free, root>>
    PROVE  Accounted \ Accounted' \subseteq InHand
<1>1. UNCHANGED <<ent, link, refs, root, free>>
  BY DEF flash
<1>2. InTree \subseteq InTree'
  BY <1>1, ReachedBoth, UnchangedReached
<1> QED
  BY <1>1, <1>2, CountedAfter DEF Accounted, InTree

-----------------------------------------------------------------------------
\* A block is erased when it is freed, and given a header when it is taken.
LEMMA ErasedNext ==
    ASSUME Kept, [Next]_vars PROVE ErasedFree'
<1>1. TypeOK /\ TreeInv /\ ErasedFree
  BY DEF Kept
<1>2. CASE UNCHANGED <<kind, free>>
  BY <1>1, <1>2 DEF ErasedFree
<1>3. ASSUME NEW b \in Blocks, NEW type \in {"dir", "seq", "indir", "data"}, Allocate(b, type)
      PROVE  ErasedFree'
  <2>1. \A x \in ToSet(free) : x = b \/ x \in ToSet(free')
    BY <1>1, <1>3, QueueTaken
  <2>2. \A x \in Blocks : kind'[x] = IF x = b THEN type ELSE kind[x]
    BY <1>1, <1>3 DEF TypeOK, Allocate
  <2> QED
    BY <1>1, <2>1, <2>2 DEF ErasedFree
<1>4. ASSUME NEW b \in Blocks, Free(b) PROVE ErasedFree'
  <2>1. ToSet(free) \cup {b} \subseteq ToSet(free')
    BY <1>1, <1>4, QueueGrown
  <2>2. \A x \in Blocks : kind'[x] = IF x = b THEN "erased" ELSE kind[x]
    BY <1>1, <1>4 DEF TypeOK, Free
  <2> QED
    BY <1>1, <2>1, <2>2 DEF ErasedFree
<1>5. CASE UNCHANGED vars \/ Halt \/ Crash \/ Call
  <2>1. UNCHANGED <<kind, free>>
    BY <1>5 DEF vars, flash, Halt, Crash, Call, Register, Mkdir, BeginEntry, RemovePath, BeginAppend
  <2> QED
    BY <1>2, <2>1
<1>6. CASE Step
  <2>1. CASE UseEntry \/ WriteEntry \/ CommitEntry \/ RecordData
    BY <1>2, <2>1 DEF UseEntry, WriteEntry, CommitEntry, RecordData
  <2>2. CASE ExtendDir \/ TakeBlock \/ TakeData \/ Migrate \/ NewSeqBlock
    <3>1. \E b \in Blocks, type \in {"dir", "seq", "indir", "data"} : Allocate(b, type)
      BY <2>2 DEF ExtendDir, TakeBlock, TakeData, Migrate, NewSeqBlock
    <3> QED
      BY <1>3, <3>1
  <2> QED
    BY <1>6, <2>1, <2>2 DEF Step
<1>7. CASE Collect
  <2>1. CASE \/ StartGc \/ SkipZeroed \/ KeepEntry \/ Descend \/ LeaveDir \/ NoMemory
             \/ MigrateRootAllocates \/ MigrateDirNoPtr
    <3>1. UNCHANGED <<kind, free>>
      BY <2>1 DEF StartGc, SkipZeroed, KeepEntry, Descend, LeaveDir, NoMemory,
         MigrateRootAllocates, MigrateDirNoPtr, flash
    <3> QED
      BY <1>2, <3>1
  <2>2. CASE ZeroDataRef \/ ZeroSeqRef \/ ZeroEntry
    BY <1>2, <2>2 DEF ZeroDataRef, ZeroSeqRef, ZeroEntry
  <2>3. CASE FreeVictim
    <3>1. Free(op.victim) /\ op.victim \in Blocks
      BY <1>1, <2>3 DEF FreeVictim, TypeOK
    <3> QED
      BY <1>4, <3>1
  <2>4. CASE FreeTop
    <3>1. Free(VictimTop) /\ VictimTop \in Blocks
      BY <1>1, <2>4, VictimIs DEF FreeTop
    <3> QED
      BY <1>4, <3>1
  <2>5. CASE MigrateRoot
    <3>1. Free(root) /\ root \in Blocks
      BY <1>1, <2>5 DEF MigrateRoot, FreeDirBlock, TypeOK
    <3> QED
      BY <1>4, <3>1
  <2>6. CASE MigrateDir
    <3>1. Free(Top.dir) /\ Top.dir \in Blocks
      BY <1>1, <2>6, AtEndIs DEF MigrateDir, FreeDirBlock
    <3> QED
      BY <1>4, <3>1
  <2> QED
    BY <1>7, <2>1, <2>2, <2>3, <2>4, <2>5, <2>6 DEF Collect
<1> QED
  BY <1>5, <1>6, <1>7 DEF Next

\* The collector runs in the calls' allocations, and leaves where they stand.
LEMMA CollectPc ==
    ASSUME TypeOK, TreeInv, Collect
    PROVE  pc \in Allocating /\ pc' \in {pc, "idle"} \cup Stopped
<1>1. pc \in Allocating
  <2>1. walk = <<>> => op.victim = None
    BY DEF TreeInv, Collecting
  <2>2. walk # <<>> => pc \in Allocating
    BY InWalk
  <2>3. StartGc \/ walk # <<>>
    BY <2>1 DEF Collect, SkipZeroed, KeepEntry, Descend, ZeroDataRef, ZeroSeqRef, FreeVictim,
       FreeTop, ZeroEntry, LeaveDir, NoMemory, MigrateRoot, MigrateRootAllocates, MigrateDir,
       MigrateDirNoPtr, TopFreed, AtVictim, AtEntry, AtEnd
  <2> QED
    BY <2>2, <2>3 DEF StartGc
<1>2. pc' \in {pc, "idle"} \cup Stopped
  BY DEF Collect, StartGc, SkipZeroed, KeepEntry, Descend, ZeroDataRef, ZeroSeqRef, FreeVictim,
     FreeTop, ZeroEntry, LeaveDir, NoMemory, MigrateRoot, MigrateRootAllocates, MigrateDir,
     MigrateDirNoPtr, Return, Stopped
<1> QED
  BY <1>1, <1>2

LEMMA GroundedNext ==
    ASSUME Kept, TypeOK', TreeInv', [Next]_vars PROVE Grounded'
<1> SUFFICES ASSUME pc' \in {"write", "commit"} PROVE op'.dir \in InTree'
  BY DEF Grounded
<1>1. CASE UseEntry \/ WriteEntry
  <2>1. op' = op /\ pc \in {"use", "write"}
    BY <1>1 DEF UseEntry, WriteEntry
  <2>2. InTree \subseteq InTree'
    BY <1>1, UseCounted, WriteCounted
  <2>3. LeastReached
    BY <2>1, TreeReached DEF Kept
  <2>4. op.dir \in InTree
    BY <2>1, <2>3, DirReached DEF Making
  <2> QED
    BY <2>1, <2>2, <2>4
<1>2. CASE UNCHANGED vars \/ Halt
  <2>1. UNCHANGED <<ent, link, refs, root, pc, op>>
    BY <1>2 DEF Halt, vars, flash
  <2>2. LeastReached /\ LeastReached' /\ op.dir \in InTree
    BY <2>1, ReachedBoth DEF Kept, Grounded
  <2> QED
    BY <2>1, <2>2, UnchangedReached
<1>3. CASE Call
  <2>1. pc' \notin {"write", "commit"}
    BY <1>3 DEF Call, Register, Mkdir, BeginEntry, RemovePath, BeginAppend, PcForEntry
  <2> QED
    BY <2>1
<1>4. CASE ExtendDir \/ TakeBlock \/ CommitEntry \/ TakeData \/ Migrate \/ NewSeqBlock \/ RecordData
  <2>1. pc' \notin {"write", "commit"}
    BY <1>4 DEF ExtendDir, TakeBlock, CommitEntry, TakeData, Migrate, NewSeqBlock, RecordData,
       Return, PcForEntry
  <2> QED
    BY <2>1
<1>5. CASE Collect
  <2>1. pc' \notin {"write", "commit"}
    BY <1>5, CollectPc DEF Kept, Allocating, Stopped
  <2> QED
    BY <2>1
<1>6. CASE Crash
  BY <1>6 DEF Crash
<1> QED
  BY <1>1, <1>2, <1>3, <1>4, <1>5, <1>6 DEF Next, Step

LEMMA KeptNext ==
    ASSUME Kept, ~ShortFsyncs, [Next]_vars PROVE Kept'
<1>1. TypeOK' /\ TreeInv'
  BY NextKeeps DEF Kept
<1> QED
  BY <1>1, PlacesNext, ErasedNext, GroundedNext DEF Kept

\* What LeaksOnlyOwnBlocks says of a step
Loses ==
    \/ Accounted \subseteq Accounted'
    \/ pc' = "dangling"
    \/ (NoMemory \/ Crash) /\ Accounted \ Accounted' \subseteq InHand

LEMMA StepLoses ==
    ASSUME Kept, Kept', Next PROVE Loses \/ UNCHANGED vars
<1> SUFFICES ASSUME pc' # "dangling", ~Halt PROVE Loses
  BY DEF Halt, Loses
<1>1. TypeOK /\ TreeInv /\ TypeOK' /\ TreeInv'
  BY DEF Kept
<1>2. CASE Call
  <2>1. pc = "idle"
    BY <1>2 DEF Call, Register, Mkdir, BeginEntry, RemovePath, BeginAppend
  <2>2. CASE \E p \in Paths : RemovePath(p)
    BY <1>1, <2>2, RemoveCounted DEF Loses
  <2>3. CASE ~\E p \in Paths : RemovePath(p)
    <3>1. UNCHANGED <<flash, free, root>>
      BY <1>2, <2>3 DEF Call, Register, Mkdir, BeginEntry, BeginAppend
    <3> QED
      BY <1>1, <2>1, <3>1, BeginCounted DEF Loses
  <2> QED
    BY <2>2, <2>3
<1>3. CASE Step
  <2>1. Accounted \subseteq Accounted'
    BY <1>1, <1>3, ExtendCounted, TakeBlockCounted, UseCounted, WriteCounted, CommitCounted,
       MigrateCounted, NewSeqCounted, RecordCounted DEF Step
  <2> QED
    BY <2>1 DEF Loses
<1>4. CASE Collect
  <2>1. pc # "dangling"
    BY <1>1, <1>4, CollectPc DEF Allocating
  <2>2. CASE \/ StartGc \/ SkipZeroed \/ KeepEntry \/ Descend \/ LeaveDir
             \/ MigrateRootAllocates \/ MigrateDirNoPtr
    <3>1. UNCHANGED <<flash, free, root, op>>
      BY <2>2 DEF StartGc, SkipZeroed, KeepEntry, Descend, LeaveDir, MigrateRootAllocates,
         MigrateDirNoPtr
    <3> QED
      BY <1>1, <2>1, <3>1, QuietCounted DEF Loses
  <2>3. CASE \/ ZeroDataRef \/ ZeroSeqRef \/ FreeVictim \/ FreeTop \/ ZeroEntry
             \/ MigrateRoot \/ MigrateDir
    <3>1. Accounted \subseteq Accounted'
      BY <1>1, <2>3, ZeroDataRefCounted, ZeroSeqRefCounted, FreeVictimCounted, FreeTopCounted,
         ZeroEntryCounted, MigrateRootCounted, MigrateDirCounted
    <3> QED
      BY <3>1 DEF Loses
  <2>4. CASE NoMemory
    BY <1>1, <2>1, <2>4, EndLoses DEF NoMemory, Loses
  <2> QED
    BY <1>4, <2>2, <2>3, <2>4 DEF Collect
<1>5. CASE Crash
  <2>1. pc # "dangling" /\ UNCHANGED <<flash, free, root>>
    BY <1>5 DEF Crash, Allocating, Writing
  <2> QED
    BY <1>1, <1>5, <2>1, EndLoses DEF Loses
<1> QED
  BY <1>2, <1>3, <1>4, <1>5 DEF Next

LEMMA KeptFirst ==
    ASSUME Init PROVE Kept
<1>1. TypeOK /\ TreeInv
  BY InitHolds
<1>2. Places /\ Grounded
  BY DEF Init, Places, Grounded, Making, Adding
<1>3. ErasedFree
  <2>1. /\ kind = [b \in Blocks |-> IF b = FirstRoot THEN "dir" ELSE "erased"]
        /\ free \in SetToSeqs(Blocks \ {FirstRoot})
    BY DEF Init
  <2> DEFINE T == Blocks \ {FirstRoot}
  <2>2. IsFiniteSet(T) /\ Cardinality(T) \in Nat
    <3>1. IsFiniteSet(Blocks)
      BY TreeAssumption DEF TreeAssumption
    <3>2. IsFiniteSet(T)
      BY <3>1, FS_Subset
    <3> QED
      BY <3>2, FS_CardinalityType
  <2>3. PICK n \in Nat : n = Cardinality(T)
    BY <2>2
  <2>4. free \in [1 .. n -> T] /\ \A i, j \in 1 .. n : i # j => free[i] # free[j]
    BY <2>1, <2>3 DEF SetToSeqs
  <2> HIDE DEF T
  <2>5. free \in Injection(1 .. n, T)
    BY <2>4 DEF Injection, IsInjective
  <2>6. Cardinality(1 .. n) = n
    <3>1. Cardinality(1 .. n) = IF 1 > n THEN 0 ELSE n - 1 + 1
      BY FS_Interval
    <3> QED
      BY <3>1
  <2>7. free \in Surjection(1 .. n, T)
    BY <2>2, <2>3, <2>5, <2>6, FS_Injection
  <2>8. \A x \in T : \E i \in 1 .. n : free[i] = x
    BY <2>7 DEF Surjection
  <2>9. \A x \in T : x \in ToSet(free)
    <3>1. DOMAIN free = 1 .. n
      BY <2>4
    <3> QED
      BY <2>8, <3>1 DEF ToSet
  <2> QED
    BY <2>1, <2>9 DEF ErasedFree, T
<1> QED
  BY <1>1, <1>2, <1>3 DEF Kept

\* No step loses a block, but a call that runs out of memory and a power loss, and
\* they lose what the call and the collector in it have in hand.
THEOREM LeaksAreInHand == ASSUME ~ShortFsyncs PROVE Spec => LeaksOnlyOwnBlocks
<1>1. Init => Kept
  BY KeptFirst
<1>2. Kept /\ [Next]_vars => Kept'
  BY KeptNext
<1>3. Kept /\ Kept' /\ [Next]_vars => [Loses]_vars
  BY StepLoses
<1> QED
  BY <1>1, <1>2, <1>3, PTL DEF Spec, LeaksOnlyOwnBlocks, Loses

-----------------------------------------------------------------------------
(***************************************************************************)
(* Collections come to an end.                                             *)
(***************************************************************************)
\* What WorkLeft counts: blocks that are not erased, and entries that are set
InUse == {b \in Blocks : kind[b] # "erased"}
SetEntries == UNION {{b} \X SetRefs(b) : b \in Blocks}
WorkSets ==
    /\ IsFiniteSet(InUse) /\ IsFiniteSet(SetEntries)
    /\ \A b \in Blocks : SetRefs(b) \subseteq 1 .. MaxRefs

LEMMA WorkFinite == TypeOK => WorkSets
<1> SUFFICES ASSUME TypeOK PROVE WorkSets
  OBVIOUS
<1>1. IsFiniteSet(Blocks) /\ MaxRefs \in Nat
  BY TreeAssumption, MostOfTwo DEF TreeAssumption
<1>2. IsFiniteSet(InUse)
  BY <1>1, FS_Subset DEF InUse
<1>3. ASSUME NEW b \in Blocks PROVE SetRefs(b) \subseteq 1 .. MaxRefs
  <2>1. refs[b] \in Seq(Optional) /\ Len(refs[b]) <= MaxRefs
    BY ShapeHolds DEF Shape, TypeOK
  <2>2. Len(refs[b]) \in Nat /\ DOMAIN refs[b] = 1 .. Len(refs[b])
    BY <2>1, SeqIs
  <2> QED
    BY <1>1, <2>1, <2>2 DEF SetRefs
<1>4. IsFiniteSet(SetEntries)
  <2> DEFINE P == Blocks \X (1 .. MaxRefs)
  <2>1. IsFiniteSet(1 .. MaxRefs)
    BY <1>1, FS_Interval
  <2>2. IsFiniteSet(P)
    BY <1>1, <2>1, FS_Product
  <2>3. SetEntries \subseteq P
    BY <1>3 DEF SetEntries
  <2> HIDE DEF P
  <2> QED
    BY <2>2, <2>3, FS_Subset
<1> QED
  BY <1>2, <1>3, <1>4 DEF WorkSets

LEMMA WorkFiniteNext == (TypeOK => WorkSets)'
BY WorkFinite, PTL

\* Less work is left when a block has been erased or an entry zeroed, and none the
\* other way.
LEMMA LessWork ==
    ASSUME TypeOK, TypeOK', NEW x \in Blocks,
           \A b \in Blocks : kind'[b] # "erased" => kind[b] # "erased",
           \A b \in Blocks : SetRefs(b)' \subseteq SetRefs(b),
           \/ kind[x] # "erased" /\ kind'[x] = "erased"
           \/ SetRefs(x)' # SetRefs(x)
    PROVE  WorkLeft' < WorkLeft
<1>1. WorkSets /\ WorkSets'
  BY WorkFinite, WorkFiniteNext
<1>2. /\ IsFiniteSet(InUse) /\ IsFiniteSet(SetEntries)
      /\ IsFiniteSet(InUse') /\ IsFiniteSet(SetEntries')
  BY <1>1 DEF WorkSets
<1>3. InUse' \subseteq InUse
  BY DEF InUse
<1>4. SetEntries' \subseteq SetEntries
  BY DEF SetEntries
<1>5. InUse' # InUse \/ SetEntries' # SetEntries
  <2>1. CASE kind[x] # "erased" /\ kind'[x] = "erased"
    BY <2>1 DEF InUse
  <2>2. CASE SetRefs(x)' # SetRefs(x)
    <3>1. PICK i \in SetRefs(x) : i \notin SetRefs(x)'
      BY <2>2
    <3>2. <<x, i>> \in SetEntries
      BY <3>1 DEF SetEntries
    <3>3. <<x, i>> \notin SetEntries'
      BY <3>1 DEF SetEntries
    <3> QED
      BY <3>2, <3>3
  <2> QED
    BY <2>1, <2>2
<1>6. PICK A, B : A = InUse /\ B = InUse'
  OBVIOUS
<1>7. PICK C, D : C = SetEntries /\ D = SetEntries'
  OBVIOUS
<1>8. /\ Cardinality(A) \in Nat /\ Cardinality(B) \in Nat
      /\ Cardinality(C) \in Nat /\ Cardinality(D) \in Nat
  BY <1>2, <1>6, <1>7, FS_CardinalityType
<1>9. /\ Cardinality(B) <= Cardinality(A) /\ (Cardinality(A) = Cardinality(B) => A = B)
      /\ Cardinality(D) <= Cardinality(C) /\ (Cardinality(C) = Cardinality(D) => C = D)
  BY <1>2, <1>3, <1>4, <1>6, <1>7, FS_Subset
<1>10. Cardinality(B) + Cardinality(D) < Cardinality(A) + Cardinality(C)
  BY <1>5, <1>6, <1>7, <1>8, <1>9
<1>11. WorkLeft = Cardinality(A) + Cardinality(C)
  BY <1>6, <1>7 DEF WorkLeft, InUse, SetEntries
<1>12. WorkLeft' = Cardinality(B) + Cardinality(D)
  BY <1>6, <1>7 DEF WorkLeft, InUse, SetEntries
<1> QED
  BY <1>10, <1>11, <1>12

\* The collector is never in a directory block twice.
WayOnce == walk # <<>> => IsInjective([i \in DOMAIN walk |-> walk[i].dir])

LEMMA WayHolds == TypeOK /\ TreeInv => WayOnce
<1> SUFFICES ASSUME TypeOK, TreeInv, walk # <<>>
             PROVE  IsInjective([i \in DOMAIN walk |-> walk[i].dir])
  BY DEF WayOnce
<1>1. /\ WayDown(walk) /\ Len(walk) \in Nat /\ DOMAIN walk = 1 .. Len(walk)
      /\ \A i \in DOMAIN walk : walk[i] \in Frames
  BY InWalk
<1>2. Acyclic
  BY DEF TreeInv
<1>3. ASSUME NEW i \in DOMAIN walk, i < Len(walk)
      PROVE  walk[i].dir \in Blocks /\ walk[i + 1].dir \in DirKids(walk[i].dir)
  <2>1. walk[i].dir \in Blocks /\ walk[i].at \in 0 .. DirEntries
    BY <1>1 DEF Frames
  <2>2. LET e == ent[walk[i].dir][walk[i].at] IN
        walk[i].at > 0 /\ e.next # <<>> /\ Last(e.next) = walk[i + 1].dir
    BY <1>1, <1>3 DEF WayDown
  <2>3. walk[i].at \in Idx
    BY <2>1, <2>2, Given DEF Idx
  <2>4. walk[i + 1].dir \in EntryRefs(walk[i].dir, TRUE)
    BY <2>2, <2>3 DEF EntryRefs
  <2> QED
    BY <2>1, <2>4 DEF DirKids
<1>4. ASSUME NEW i \in DOMAIN walk, NEW j \in DOMAIN walk, i < j PROVE walk[i].dir # walk[j].dir
  <2> SUFFICES ASSUME walk[i].dir = walk[j].dir PROVE FALSE
    OBVIOUS
  <2> DEFINE T == {walk[k].dir : k \in i .. j - 1}
  <2>1. i \in Int /\ j \in Int /\ i .. j - 1 \subseteq DOMAIN walk
    BY <1>1, <1>4
  <2>2. \A k \in i .. j - 1 : /\ k \in DOMAIN walk /\ k < Len(walk)
                              /\ (k + 1 = j \/ k + 1 \in i .. j - 1)
    BY <1>1, <2>1
  <2>3. ASSUME NEW b \in T PROVE b \in Blocks /\ DirKids(b) \cap T # {}
    <3>1. PICK k \in i .. j - 1 : b = walk[k].dir
      OBVIOUS
    <3>2. b \in Blocks /\ walk[k + 1].dir \in DirKids(b)
      BY <1>3, <2>2, <3>1
    <3>3. i \in i .. j - 1
      BY <1>4, <2>1
    <3>4. walk[k + 1].dir \in T
      BY <2>2, <3>3
    <3> QED
      BY <3>2, <3>4
  <2>4. T # {}
    <3>1. i \in i .. j - 1
      BY <1>4, <2>1
    <3> QED
      BY <3>1
  <2> HIDE DEF T
  <2>5. T \in SUBSET {b \in Blocks : DirKids(b) # {}}
    BY <2>3
  <2> QED
    BY <1>2, <2>3, <2>4, <2>5 DEF Acyclic
<1>5. ASSUME NEW i \in DOMAIN walk, NEW j \in DOMAIN walk, walk[i].dir = walk[j].dir PROVE i = j
  BY <1>1, <1>4, <1>5
<1> QED
  BY <1>5 DEF IsInjective

LEMMA WayHoldsNext == (TypeOK /\ TreeInv => WayOnce)'
BY WayHolds, PTL

\* One entry on, in the block the walk has come to
LEMMA AdvancedOn ==
    ASSUME NEW w \in Seq(Frames), w # <<>>, Last(w).at > 0, NEW c \in BOOLEAN,
           NEW v, v = Advance(w, c), NEW u \in Seq(Frames), Len(w) <= Len(u),
           \A i \in DOMAIN w : u[i] = w[i]
    PROVE  GoneOn(v, u) /\ v # <<>> /\ v # u
<1>1. /\ v \in Seq(Frames) /\ v # <<>> /\ Len(v) = Len(w) /\ DOMAIN v = DOMAIN w
      /\ \A i \in DOMAIN w : v[i].dir = w[i].dir /\ (i < Len(w) => v[i] = w[i])
  BY Advanced
<1>2. /\ Len(w) \in Nat /\ Len(w) > 0 /\ DOMAIN w = 1 .. Len(w)
      /\ Last(w) \in Frames /\ Last(w) = w[Len(w)]
  BY SeqIs
<1>3. Len(u) \in Nat /\ DOMAIN u = 1 .. Len(u)
  BY SeqIs
<1> DEFINE f == [Last(w) EXCEPT !.at = @ - 1, !.clean = @ /\ c]
           n == Len(w)
<1>4. f \in Frames /\ f.at = Last(w).at - 1
  <2>1. PICK g : g = Last(w)
    OBVIOUS
  <2>2. /\ g \in [dir : Blocks, at : 0 .. DirEntries, clean : BOOLEAN]
        /\ g.at \in 0 .. DirEntries /\ g.at > 0 /\ g.dir \in Blocks /\ g.clean \in BOOLEAN
    BY <1>2, <2>1 DEF Frames
  <2>3. g.at - 1 \in 0 .. DirEntries
    BY <2>2, Given
  <2>4. f = [g EXCEPT !.at = g.at - 1, !.clean = g.clean /\ c]
    BY <2>1, <2>2
  <2> HIDE DEF f
  <2> QED
    BY <2>1, <2>2, <2>3, <2>4 DEF Frames
<1>5. Front(w) \in Seq(Frames) /\ Len(Front(w)) = n - 1
  <2>1. \A t : t = Front(w) => t \in Seq(Frames) /\ Len(t) = Len(w) - 1
    BY Fronted
  <2> QED
    BY <2>1
<1>6. v = Append(Front(w), f)
  BY DEF Advance
<1> HIDE DEF f
<1>7. v[Len(Front(w)) + 1] = f
  BY <1>4, <1>5, <1>6, Appended
<1>8. v[n] = f /\ u[n] = Last(w) /\ n \in DOMAIN v \cap DOMAIN u /\ n \in Nat /\ n > 0
  BY <1>1, <1>2, <1>3, <1>5, <1>7
<1>9. v[n].at < u[n].at /\ v[n].dir = u[n].dir
  <2>1. Last(w).at \in Int
    BY <1>2 DEF Frames
  <2>2. v[n].at < u[n].at
    BY <1>4, <1>8, <2>1
  <2> QED
    BY <1>1, <1>2, <1>8, <2>2
<1>10. SubSeq(v, 1, n - 1) = SubSeq(u, 1, n - 1)
  <2>1. \A i \in 1 .. n - 1 : v[i] = u[i]
    BY <1>1, <1>2
  <2>2. n - 1 \in Nat /\ n - 1 <= Len(v) /\ n - 1 <= Len(u)
    BY <1>1, <1>2, <1>3
  <2> HIDE DEF n
  <2>3. [i \in 1 .. n - 1 |-> v[i]] = [i \in 1 .. n - 1 |-> u[i]]
    BY <2>1
  <2>4. SubSeq(v, 1, n - 1) = [i \in 1 .. n - 1 |-> v[i]]
    BY <1>1, <2>2, Started
  <2>5. SubSeq(u, 1, n - 1) = [i \in 1 .. n - 1 |-> u[i]]
    BY <2>2, Started
  <2> QED
    BY <2>3, <2>4, <2>5
<1> HIDE DEF n
<1>11. GoneOn(v, u)
  BY <1>8, <1>9, <1>10 DEF GoneOn
<1>12. v # u
  <2>1. u[n].at \in Int
    BY <1>2, <1>8 DEF Frames
  <2> QED
    BY <1>4, <1>8, <1>9, <2>1
<1> QED
  BY <1>1, <1>11, <1>12

\* What CollectionMovesOn says of a step
MovesOn ==
    walk # <<>> =>
        IF walk' = <<>> THEN free' # <<>> \/ pc' \in Stopped \cup {"idle"}
        ELSE /\ IF walk' = walk THEN WorkLeft' < WorkLeft ELSE GoneOn(walk', walk)
             /\ IsInjective([i \in DOMAIN walk' |-> walk'[i].dir])

LEMMA SkippedOn ==
    ASSUME TypeOK, TreeInv, TreeInv', TypeOK', AtEntry, NEW c \in BOOLEAN, walk' = Advance(walk, c)
    PROVE  MovesOn
<1>1. walk # <<>> /\ Last(walk).at > 0 /\ walk \in Seq(Frames) /\ Len(walk) \in Nat
  BY InWalk DEF AtEntry, Top
<1>2. \A v : v = Advance(walk, c) => GoneOn(v, walk) /\ v # <<>> /\ v # walk
  <2>1. Len(walk) <= Len(walk)
    BY <1>1
  <2> QED
    BY <1>1, <2>1, AdvancedOn
<1>3. GoneOn(walk', walk) /\ walk' # <<>> /\ walk' # walk
  BY <1>2
<1> QED
  BY <1>3, WayHoldsNext DEF MovesOn, WayOnce

LEMMA LeftOn ==
    ASSUME TypeOK, TreeInv, TypeOK', TreeInv', LeaveDir PROVE MovesOn
<1>1. walk # <<>> /\ Len(walk) > 1 /\ walk' = Advance(Front(walk), TRUE)
  BY DEF LeaveDir, AtEnd
<1>2. walk \in Seq(Frames) /\ Len(walk) \in Nat
  BY <1>1, InWalk
<1>3. /\ Front(walk) \in Seq(Frames) /\ Front(walk) # <<>> /\ Last(Front(walk)) = Above
      /\ Above.at > 0
  BY <1>1, WayAbove
<1>4. \A t : t = Front(walk) => Len(t) = Len(walk) - 1 /\ \A i \in DOMAIN t : t[i] = walk[i]
  BY <1>1, <1>2, Fronted
<1>5. PICK t : t = Front(walk)
  OBVIOUS
<1>6. /\ t \in Seq(Frames) /\ t # <<>> /\ Last(t).at > 0
      /\ Len(t) <= Len(walk) /\ \A i \in DOMAIN t : walk[i] = t[i]
  BY <1>2, <1>3, <1>4, <1>5
<1>7. \A v : v = Advance(t, TRUE) => GoneOn(v, walk) /\ v # <<>> /\ v # walk
  BY <1>2, <1>6, AdvancedOn
<1>8. GoneOn(walk', walk) /\ walk' # <<>> /\ walk' # walk
  BY <1>1, <1>5, <1>7
<1> QED
  BY <1>8, WayHoldsNext DEF MovesOn, WayOnce

LEMMA DescendedOn ==
    ASSUME TypeOK, TreeInv, TypeOK', TreeInv', Descend PROVE MovesOn
<1> DEFINE f == Frame(Last(TopEntry.next))
<1>1. /\ walk # <<>> /\ HasNext /\ Top.at > 0 /\ walk' = Append(walk, f)
  BY DEF Descend, AtEntry, NextIsDir
<1>2. /\ walk \in Seq(Frames) /\ Len(walk) \in Nat /\ DOMAIN walk = 1 .. Len(walk)
      /\ Top \in Frames /\ Top.at \in Idx
  BY <1>1, InWalk
<1>3. f \in Frames
  <2>1. Shape /\ Top.dir \in Blocks
    BY <1>2, ShapeHolds DEF Frames
  <2>2. Last(TopEntry.next) \in Blocks
    BY <1>1, <1>2, <2>1 DEF Shape, Optional, HasNext, TopEntry
  <2> QED
    BY <2>2, Given DEF Frame, Frames
<1> HIDE DEF f
<1>4. \A v : v = Append(walk, f) =>
         v \in Seq(Frames) /\ Len(v) = Len(walk) + 1 /\ \A i \in DOMAIN walk : v[i] = walk[i]
  BY <1>2, <1>3, Appended
<1>5. PICK v : v = walk'
  OBVIOUS
<1>6. v \in Seq(Frames) /\ Len(v) = Len(walk) + 1 /\ \A i \in DOMAIN walk : v[i] = walk[i]
  BY <1>1, <1>4, <1>5
<1>7. v # walk /\ v # <<>>
  BY <1>2, <1>6
<1>8. SubSeq(walk, 1, Len(walk)) = SubSeq(v, 1, Len(walk))
  <2>1. Len(walk) <= Len(walk) /\ Len(walk) <= Len(v)
    BY <1>2, <1>6
  <2>2. SubSeq(walk, 1, Len(walk)) = [i \in 1 .. Len(walk) |-> walk[i]]
    BY <1>2, <2>1, Started
  <2>3. SubSeq(v, 1, Len(walk)) = [i \in 1 .. Len(walk) |-> v[i]]
    BY <1>2, <1>6, <2>1, Started
  <2> QED
    BY <1>2, <1>6, <2>2, <2>3
<1>9. IsStrictPrefix(walk, v)
  BY <1>2, <1>6, <1>7, <1>8 DEF IsStrictPrefix, IsPrefix
<1>10. GoneOn(walk', walk) /\ walk' # <<>> /\ walk' # walk
  BY <1>5, <1>7, <1>9 DEF GoneOn
<1> QED
  BY <1>10, WayHoldsNext DEF MovesOn, WayOnce

\* At a removed file the walk stands still, and an entry is zeroed or a block erased.
LEMMA StillOn ==
    ASSUME TypeOK', TreeInv', walk' = walk, WorkLeft' < WorkLeft PROVE MovesOn
BY WayHoldsNext DEF MovesOn, WayOnce

LEMMA ZeroedOn ==
    ASSUME TypeOK, TypeOK', TreeInv', NEW s \in Blocks, SetRefs(s) # {},
           refs' = [refs EXCEPT ![s][Min(SetRefs(s))] = None], kind' = kind, walk' = walk
    PROVE  MovesOn
<1>1. PICK m \in DOMAIN refs[s] : m = Min(SetRefs(s)) /\ refs[s][m] \in Blocks
  BY FirstSetRef
<1>2. refs' = [refs EXCEPT ![s] = [refs[s] EXCEPT ![m] = None]]
  BY <1>1
<1>3. refs \in [Blocks -> Seq(Blocks \cup {None})]
  BY DEF TypeOK
<1>4. \A b \in Blocks : refs'[b] = IF b = s THEN [refs[s] EXCEPT ![m] = None] ELSE refs[b]
  BY <1>2, <1>3
<1>5. SetRefs(s)' = SetRefs(s) \ {m}
  <2>1. DOMAIN refs'[s] = DOMAIN refs[s]
    BY <1>4
  <2>2. \A i \in DOMAIN refs[s] : refs'[s][i] = IF i = m THEN None ELSE refs[s][i]
    BY <1>4
  <2> QED
    BY <2>1, <2>2 DEF SetRefs
<1>6. m \in SetRefs(s)
  BY <1>1, Given DEF SetRefs
<1>7. \A b \in Blocks : SetRefs(b)' \subseteq SetRefs(b)
  <2>1. \A b \in Blocks : b # s => SetRefs(b)' = SetRefs(b)
    BY <1>4 DEF SetRefs
  <2> QED
    BY <1>5, <2>1
<1>8. SetRefs(s)' # SetRefs(s)
  BY <1>5, <1>6
<1>9. WorkLeft' < WorkLeft
  BY <1>7, <1>8, LessWork
<1> QED
  BY <1>9, StillOn

LEMMA ErasedOn ==
    ASSUME TypeOK, TypeOK', TreeInv', NEW x \in Blocks, kind[x] # "erased", Free(x),
           refs' = [refs EXCEPT ![x] = <<>>], walk' = walk
    PROVE  MovesOn
<1>1. /\ kind \in [Blocks -> {"erased", "dir", "seq", "indir", "data"}]
      /\ refs \in [Blocks -> Seq(Blocks \cup {None})] /\ kind' = [kind EXCEPT ![x] = "erased"]
  BY DEF TypeOK, Free
<1>2. \A b \in Blocks : kind'[b] = IF b = x THEN "erased" ELSE kind[b]
  BY <1>1
<1>3. \A b \in Blocks : refs'[b] = IF b = x THEN <<>> ELSE refs[b]
  BY <1>1
<1>4. \A b \in Blocks : SetRefs(b)' \subseteq SetRefs(b)
  BY <1>3 DEF SetRefs
<1>5. WorkLeft' < WorkLeft
  BY <1>2, <1>4, LessWork
<1> QED
  BY <1>5, StillOn

LEMMA CollectOn ==
    ASSUME Kept, Kept', Collect, walk # <<>> PROVE MovesOn
<1>1. TypeOK /\ TreeInv /\ ErasedFree /\ TypeOK' /\ TreeInv'
  BY DEF Kept
<1>2. CASE SkipZeroed \/ KeepEntry
  <2>1. AtEntry /\ \E c \in BOOLEAN : walk' = Advance(walk, c)
    BY <1>2 DEF SkipZeroed, KeepEntry
  <2> QED
    BY <1>1, <2>1, SkippedOn
<1>3. CASE Descend \/ LeaveDir
  BY <1>1, <1>3, DescendedOn, LeftOn
<1>4. CASE ZeroDataRef
  <2>1. AtVictim /\ ~TopFreed /\ kind' = kind /\ walk' = walk
    BY <1>1, <1>4, DataRefBelow DEF ZeroDataRef
  <2>2. PICK s \in VictimSeqs :
           SetRefs(s) # {} /\ refs' = [refs EXCEPT ![s][Min(SetRefs(s))] = None]
    BY <1>4 DEF ZeroDataRef
  <2>3. s \in Blocks
    BY <1>1, <2>1, VictimSeqsAre
  <2> QED
    BY <1>1, <2>1, <2>2, <2>3, ZeroedOn
<1>5. CASE ZeroSeqRef
  <2>1. /\ AtVictim /\ kind[VictimTop] = "indir" /\ kind' = kind /\ walk' = walk
        /\ refs' = [refs EXCEPT ![VictimTop][Min(SetRefs(VictimTop))] = None]
        /\ VictimSeqs # {}
    BY <1>5 DEF ZeroSeqRef
  <2>2. VictimTop \in Blocks
    BY <1>1, <2>1, VictimIs
  <2>3. SetRefs(VictimTop) # {}
    BY <2>1 DEF VictimSeqs
  <2> QED
    BY <1>1, <2>1, <2>2, <2>3, ZeroedOn
<1>6. CASE FreeVictim
  <2>1. /\ op.victim # None /\ Free(op.victim) /\ refs' = [refs EXCEPT ![op.victim] = <<>>]
        /\ walk' = walk
    BY <1>6 DEF FreeVictim
  <2>2. op.victim \in Blocks
    BY <1>1, <2>1 DEF TypeOK
  <2>3. Walks
    BY <1>1, InWalk
  <2>4. kind[op.victim] # "erased"
    BY <2>1, <2>3 DEF Walks
  <2> QED
    BY <1>1, <2>1, <2>2, <2>4, ErasedOn
<1>7. CASE FreeTop
  <2>1. /\ AtVictim /\ ~TopFreed /\ Free(VictimTop) /\ refs' = [refs EXCEPT ![VictimTop] = <<>>]
        /\ walk' = walk
    BY <1>7 DEF FreeTop
  <2>2. VictimTop \in Blocks /\ kind[VictimTop] # "erased"
    BY <1>1, <2>1, VictimIs
  <2> QED
    BY <1>1, <2>1, <2>2, ErasedOn
<1>8. CASE ZeroEntry
  <2>1. TopFreed /\ free' = free /\ walk' = <<>>
    BY <1>8 DEF ZeroEntry
  <2>2. VictimTop \in Blocks /\ kind[VictimTop] = "erased"
    BY <1>1, <2>1, VictimIs DEF TopFreed
  <2>3. VictimTop \in ToSet(free)
    BY <1>1, <2>2 DEF ErasedFree
  <2>4. free # <<>>
    BY <2>3 DEF ToSet
  <2> QED
    BY <2>1, <2>4 DEF MovesOn
<1>9. CASE MigrateRoot \/ MigrateDir
  <2>1. \E b \in Blocks : Free(b)
    <3>1. CASE MigrateRoot
      BY <1>1, <3>1 DEF MigrateRoot, FreeDirBlock, TypeOK
    <3>2. CASE MigrateDir
      <4>1. Free(Top.dir) /\ Top.dir \in Blocks
        BY <1>1, <3>2, AtEndIs DEF MigrateDir, FreeDirBlock
      <4> QED
        BY <4>1
    <3> QED
      BY <1>9, <3>1, <3>2
  <2>2. PICK b \in Blocks : Free(b)
    BY <2>1
  <2>3. b \in ToSet(free')
    BY <1>1, <2>2, QueueGrown
  <2>4. free' # <<>>
    BY <2>3 DEF ToSet
  <2>5. walk' = <<>>
    BY <1>9 DEF MigrateRoot, MigrateDir
  <2> QED
    BY <2>4, <2>5 DEF MovesOn
<1>10. CASE NoMemory \/ MigrateRootAllocates \/ MigrateDirNoPtr
  <2>1. walk' = <<>> /\ pc' \in Stopped \cup {"idle"}
    BY <1>10 DEF NoMemory, MigrateRootAllocates, MigrateDirNoPtr, Return, Stopped
  <2> QED
    BY <2>1 DEF MovesOn
<1> QED
  BY <1>2, <1>3, <1>4, <1>5, <1>6, <1>7, <1>8, <1>9, <1>10 DEF Collect, StartGc

LEMMA StepMovesOn ==
    ASSUME Kept, Kept', Next PROVE MovesOn \/ UNCHANGED vars
<1> SUFFICES ASSUME walk # <<>>, ~Halt PROVE MovesOn
  BY DEF Halt, MovesOn
<1>1. TypeOK /\ TreeInv
  BY DEF Kept
<1>2. pc \in Allocating
  BY <1>1, InWalk
<1>3. CASE Call
  BY <1>2, <1>3 DEF Call, Register, Mkdir, BeginEntry, RemovePath, BeginAppend, Allocating
<1>4. CASE Step
  BY <1>2, <1>4 DEF Step, ExtendDir, TakeBlock, TakeData, Migrate, NewSeqBlock, Allocate,
     UseEntry, WriteEntry, CommitEntry, RecordData, Allocating
<1>5. CASE Collect
  BY <1>5, CollectOn
<1>6. CASE Crash
  <2>1. walk' = <<>> /\ pc' \in {"dangling", "idle"}
    BY <1>6 DEF Crash
  <2> QED
    BY <2>1 DEF MovesOn, Stopped
<1> QED
  BY <1>3, <1>4, <1>5, <1>6 DEF Next

\* From each step of a collection to the next, the walk is deeper, at an earlier entry,
\* or at the same file with less of it left; when it is over, there is a block to
\* take, or the call has been given up.
THEOREM CollectionsEnd == ASSUME ~ShortFsyncs PROVE Spec => CollectionMovesOn
<1>1. Init => Kept
  BY KeptFirst
<1>2. Kept /\ [Next]_vars => Kept'
  BY KeptNext
<1>3. Kept /\ Kept' /\ [Next]_vars => [MovesOn]_vars
  BY StepMovesOn
<1> QED
  BY <1>1, <1>2, <1>3, PTL DEF Spec, CollectionMovesOn, MovesOn
=============================================================================
