--------------------------- MODULE R2F2FileProofs ---------------------------
(***************************************************************************)
(* Theorems about the append path of a file, for blocks and entries of     *)
(* every size and every set of faults: FileInv is an inductive invariant.  *)
(***************************************************************************)
EXTENDS R2F2File, SequenceTheorems, WellFoundedInduction, TLAPS

LEMMA Sizes ==
    /\ NumBlocks \in Nat \ {0} /\ PagesPerBlock \in Nat \ {0}
    /\ SeqEntries \in Nat \ {0} /\ IndirEntries \in Nat \ {0}
    /\ MaxWrites \in Nat
BY SizesAssumption DEF SizesAssumption

-----------------------------------------------------------------------------
(***************************************************************************)
(* Least and greatest elements.                                            *)
(***************************************************************************)
LEMMA LeastElement ==
    ASSUME NEW T, T \subseteq Nat, T # {}
    PROVE  Min(T) \in T /\ \A t \in T : Min(T) <= t
<1> DEFINE less == OpToRel(<, Nat)
<1>1. \A y, x \in Nat : y < x => <<y, x>> \in less
  BY DEF OpToRel
<1>2. IsWellFoundedOn(less, Nat)
  BY NatLessThanWellFounded
<1> HIDE DEF less
<1>3. PICK x \in T : \A y \in T : ~(<<y, x>> \in less)
  BY <1>2, WFMin
<1>4. ASSUME NEW y \in T PROVE x <= y
  <2>1. y \in Nat /\ x \in Nat
    OBVIOUS
  <2>2. ~(y < x)
    BY <1>1, <1>3, <2>1
  <2> QED
    BY <2>1, <2>2
<1> QED
  BY <1>4 DEF Min

LEMMA GreatestElement ==
    ASSUME NEW n \in Nat, NEW T, T \subseteq 0 .. n, T # {}
    PROVE  Max(T) \in T /\ \A t \in T : t <= Max(T)
<1> DEFINE R == {n - t : t \in T}
<1>0. \A t \in T : t \in 0 .. n /\ n - t \in Nat
  <2> SUFFICES ASSUME NEW t \in T PROVE t \in 0 .. n /\ n - t \in Nat
    OBVIOUS
  <2>1. t \in 0 .. n
    OBVIOUS
  <2> QED
    BY <2>1
<1>1. R \subseteq Nat /\ R # {}
  BY <1>0
<1>2. PICK m \in R : \A r \in R : m <= r
  BY <1>1, LeastElement
<1>3. PICK x \in T : m = n - x
  BY <1>1
<1>4. ASSUME NEW t \in T PROVE t <= x
  <2>1. n - t \in R /\ t \in 0 .. n /\ x \in 0 .. n
    BY <1>0
  <2> QED
    BY <1>2, <1>3, <2>1
<1>5. \A t \in T : x >= t
  BY <1>4
<1> QED
  BY <1>5 DEF Max

LEMMA MinOfTwo ==
    ASSUME NEW a \in Int, NEW b \in Int
    PROVE  Min({a, b}) = IF a <= b THEN a ELSE b
BY DEF Min

\* The greatest element is known by what it is.
LEMMA GreatestIs ==
    ASSUME NEW n \in Nat, NEW T, T \subseteq 0 .. n, NEW x \in T, \A t \in T : t <= x
    PROVE  Max(T) = x
<1>1. Max(T) \in T /\ x <= Max(T)
  BY GreatestElement
<1>2. Max(T) \in 0 .. n /\ x \in 0 .. n /\ Max(T) <= x
  BY <1>1
<1> QED
  BY <1>1, <1>2

-----------------------------------------------------------------------------
(***************************************************************************)
(* Chains.  The recursive Chain is the least set that has its first block  *)
(* and with every block the one it is linked to, as links point to newer   *)
(* blocks.                                                                 *)
(***************************************************************************)
Links == {f \in [Blocks -> Blocks \cup {None}] : \A b \in Blocks : f[b] # None => b < f[b]}
ClosedUnder(f, S) == \A x \in S : f[x] # None => f[x] \in S
From(f, b) == {x \in Blocks : \A S \in SUBSET Blocks :
                                  b \in S /\ ClosedUnder(f, S) => x \in S}

LEMMA FromContains ==
    ASSUME NEW f \in Links, NEW b \in Blocks
    PROVE  /\ b \in From(f, b) /\ From(f, b) \subseteq Blocks
           /\ ClosedUnder(f, From(f, b))
<1>1. ASSUME NEW x \in From(f, b), f[x] # None
      PROVE  f[x] \in From(f, b)
  <2>1. f[x] \in Blocks
    BY <1>1 DEF Links, From
  <2>2. ASSUME NEW S \in SUBSET Blocks, b \in S, ClosedUnder(f, S)
        PROVE  f[x] \in S
    BY <1>1, <2>2 DEF From, ClosedUnder
  <2> QED
    BY <2>1, <2>2 DEF From
<1> QED
  BY <1>1 DEF From, ClosedUnder

LEMMA FromIsLeast ==
    ASSUME NEW f \in Links, NEW b \in Blocks, NEW S,
           S \subseteq Blocks, b \in S, ClosedUnder(f, S)
    PROVE  From(f, b) \subseteq S
BY DEF From

LEMMA FromUnfolds ==
    ASSUME NEW f \in Links, NEW b \in Blocks
    PROVE  From(f, b) = {b} \cup IF f[b] = None THEN {} ELSE From(f, f[b])
<1>1. CASE f[b] = None
  <2>1. ClosedUnder(f, {b})
    BY <1>1 DEF ClosedUnder
  <2> QED
    BY <1>1, <2>1, FromContains, FromIsLeast
<1>2. CASE f[b] # None
  <2>1. f[b] \in Blocks
    BY <1>2 DEF Links
  <2>2. ClosedUnder(f, {b} \cup From(f, f[b]))
    BY <2>1, FromContains DEF ClosedUnder
  <2>3. From(f, b) \subseteq {b} \cup From(f, f[b])
    <3>1. {b} \cup From(f, f[b]) \subseteq Blocks
      BY <2>1, FromContains
    <3> QED
      BY <2>2, <3>1, FromIsLeast
  <2>4. f[b] \in From(f, b)
    BY <1>2, FromContains DEF ClosedUnder
  <2>5. From(f, f[b]) \subseteq From(f, b)
    BY <2>1, <2>4, FromContains, FromIsLeast
  <2> QED
    BY <1>2, <2>3, <2>5, FromContains
<1> QED
  BY <1>1, <1>2

LEMMA FromAscends ==
    ASSUME NEW f \in Links, NEW b \in Blocks
    PROVE  \A x \in From(f, b) : b <= x
<1> DEFINE S == {x \in Blocks : b <= x}
<1>1. b \in S
  BY Sizes DEF Blocks
<1>2. ASSUME NEW x \in S, f[x] # None
      PROVE  f[x] \in S
  <2>1. x \in Blocks /\ b <= x
    OBVIOUS
  <2>2. f[x] \in Blocks /\ x < f[x]
    BY <1>2, <2>1 DEF Links
  <2>3. b <= f[x]
    BY <2>1, <2>2, Sizes DEF Blocks
  <2> QED
    BY <2>2, <2>3
<1>3. From(f, b) \subseteq S
  BY <1>1, <1>2, FromIsLeast DEF ClosedUnder
<1> QED
  BY <1>3

\* The recursive definition has one solution.
LEMMA ChainIsFrom ==
    ASSUME NEW f \in Links, NEW C,
           C = [b \in Blocks |-> {b} \cup IF f[b] = None THEN {} ELSE C[f[b]]]
    PROVE  C = [b \in Blocks |-> From(f, b)]
<1> DEFINE T == {b \in Blocks : C[b] # From(f, b)}
<1>1. ASSUME T # {} PROVE FALSE
  <2>1. NumBlocks \in Nat /\ T \subseteq 0 .. NumBlocks
    BY Sizes DEF Blocks
  <2>2. PICK b \in T : \A t \in T : t <= b
    BY <1>1, <2>1, GreatestElement
  <2>3. b \in Blocks /\ C[b] # From(f, b)
    OBVIOUS
  <2>4. CASE f[b] = None
    BY <2>3, <2>4, FromUnfolds
  <2>5. CASE f[b] # None
    <3>1. f[b] \in Blocks /\ b < f[b]
      BY <2>3, <2>5 DEF Links
    <3>2. f[b] \notin T
      BY <2>2, <2>3, <3>1, Sizes DEF Blocks
    <3>3. C[f[b]] = From(f, f[b])
      BY <3>1, <3>2
    <3>4. C[b] = {b} \cup C[f[b]]
      BY <2>3, <2>5
    <3> QED
      BY <2>3, <2>5, <3>3, <3>4, FromUnfolds
  <2> QED
    BY <2>4, <2>5
<1>2. \A b \in Blocks : C[b] = From(f, b)
  BY <1>1
<1>3. C = [b \in Blocks |-> C[b]]
  OBVIOUS
<1> QED
  BY <1>2, <1>3

LEMMA ChainDefined ==
    ASSUME NEW f \in Links
    PROVE  (CHOOSE C : C = [b \in Blocks |-> {b} \cup IF f[b] = None THEN {} ELSE C[f[b]]])
              = [b \in Blocks |-> From(f, b)]
<1> DEFINE F == [b \in Blocks |-> From(f, b)]
           Solves(C) == C = [b \in Blocks |-> {b} \cup IF f[b] = None THEN {} ELSE C[f[b]]]
<1>1. \A b \in Blocks : F[b] = {b} \cup IF f[b] = None THEN {} ELSE F[f[b]]
  <2> SUFFICES ASSUME NEW b \in Blocks
               PROVE  F[b] = {b} \cup IF f[b] = None THEN {} ELSE F[f[b]]
    OBVIOUS
  <2>1. f[b] # None => f[b] \in Blocks
    BY DEF Links
  <2> QED
    BY <2>1, FromUnfolds
<1>2. Solves(F)
  BY <1>1
<1>3. Solves(CHOOSE C : Solves(C))
  BY <1>2
<1> QED
  BY <1>3, ChainIsFrom

\* A block that is linked to none is the last, and the greatest.
LEMMA LastIs ==
    ASSUME NEW f \in Links, NEW b \in Blocks, NEW x \in From(f, b), f[x] = None
    PROVE  Max(From(f, b)) = x
<1> DEFINE S == {y \in From(f, b) : x \in From(f, y)}
<1>1. From(f, b) \subseteq Blocks /\ b \in From(f, b) /\ ClosedUnder(f, From(f, b))
  BY FromContains
<1>2. S \subseteq Blocks /\ b \in S
  BY <1>1
<1>3. ASSUME NEW y \in S, f[y] # None
      PROVE  f[y] \in S
  <2>1. y \in Blocks /\ f[y] \in Blocks /\ f[y] \in From(f, b)
    BY <1>1, <1>3 DEF ClosedUnder
  <2>2. x \in {y} \cup From(f, f[y]) /\ x # y
    BY <1>3, <2>1, FromUnfolds
  <2> QED
    BY <2>1, <2>2
<1>4. From(f, b) \subseteq S
  BY <1>2, <1>3, FromIsLeast DEF ClosedUnder
<1>5. \A y \in From(f, b) : y <= x
  BY <1>1, <1>4, FromAscends
<1>6. NumBlocks \in Nat /\ From(f, b) \subseteq 0 .. NumBlocks
  BY <1>1, Sizes DEF Blocks
<1> QED
  BY <1>5, <1>6, GreatestIs

\* A link from the last block to another extends the chain to that one.
LEMMA FromGrows ==
    ASSUME NEW f \in Links, NEW b \in Blocks, NEW x \in From(f, b), f[x] = None,
           NEW y \in Blocks, NEW g \in Links, g = [f EXCEPT ![x] = y]
    PROVE  From(f, b) \subseteq From(g, b) /\ y \in From(g, b)
<1>1. /\ From(g, b) \subseteq Blocks /\ b \in From(g, b) /\ ClosedUnder(g, From(g, b))
      /\ x \in Blocks /\ f \in [Blocks -> Blocks \cup {None}]
  BY FromContains DEF Links
<1>2. \A z \in Blocks : f[z] # None => g[z] = f[z]
  BY <1>1
<1>3. ClosedUnder(f, From(g, b))
  BY <1>1, <1>2 DEF ClosedUnder
<1>4. From(f, b) \subseteq From(g, b)
  BY <1>1, <1>3, FromIsLeast
<1>5. g[x] = y /\ y # None
  BY <1>1, Sizes DEF Blocks, None
<1> QED
  BY <1>1, <1>4, <1>5 DEF ClosedUnder

LEMMA ChainNow == link \in Links => \A b \in Blocks : Chain[b] = From(link, b)
<1> SUFFICES ASSUME link \in Links PROVE \A b \in Blocks : Chain[b] = From(link, b)
  OBVIOUS
<1>1. Chain = [b \in Blocks |-> From(link, b)]
  BY ChainDefined DEF Chain
<1> QED
  BY <1>1

LEMMA ChainNext == link' \in Links => \A b \in Blocks : Chain'[b] = From(link', b)
<1> SUFFICES ASSUME link' \in Links PROVE \A b \in Blocks : Chain'[b] = From(link', b)
  OBVIOUS
<1>1. Chain' = [b \in Blocks |-> From(link', b)]
  BY ChainDefined DEF Chain
<1> QED
  BY <1>1
-----------------------------------------------------------------------------
(***************************************************************************)
(* FileInv holds at first, and after each step.                            *)
(***************************************************************************)

\* The pointers of the directory entry
LEMMA DmeFacts ==
    ASSUME NEW d \in [1 .. 1 -> Blocks] \cup [1 .. 2 -> Blocks]
    PROVE  /\ d \in Seq(Blocks) /\ Len(d) \in {1, 2} /\ DOMAIN d = 1 .. Len(d)
           /\ Last(d) = d[Len(d)] /\ Last(d) \in Blocks /\ d[1] \in Blocks
<1>1. d \in Seq(Blocks)
  BY SeqDef
<1>2. /\ Len(d) \in Nat /\ DOMAIN d = 1 .. Len(d)
  BY <1>1, LenProperties
<1>3. DOMAIN d = 1 .. 1 \/ DOMAIN d = 1 .. 2
  OBVIOUS
<1>4. Len(d) \in {1, 2}
  BY <1>2, <1>3
<1>5. Len(d) \in DOMAIN d /\ 1 \in DOMAIN d
  BY <1>2, <1>4
<1> QED
  BY <1>1, <1>2, <1>4, <1>5 DEF Last

LEMMA BlockNumbers ==
    /\ 1 \in Blocks /\ Blocks \subseteq Nat /\ None \notin Blocks
    /\ \A b \in Blocks : b > 0 /\ b <= NumBlocks
    /\ \A r : Intact(r) => r # Blank /\ r # Damaged
BY Sizes DEF Blocks, None, Intact, Blank, Damaged, Record

LEMMA IntactRecords ==
    ASSUME NEW r \in Records \cup {Blank, Damaged}, Intact(r)
    PROVE  /\ r \in Records /\ r.block \in Blocks /\ r.fill \in Nat /\ r.fill > 0
           /\ r.fill <= PagesPerBlock /\ r.off \in Nat /\ r.size \in Nat
<1>1. r \in Records
  BY BlockNumbers
<1> QED
  BY <1>1, Sizes DEF Records

\* What the type says of an entry
LEMMA EntryTypes ==
    ASSUME TypeOK, NEW b \in Blocks, NEW i \in SeqIdx
    PROVE  /\ fse[b][i].used \in BOOLEAN /\ fse[b][i].committed \in BOOLEAN
           /\ fse[b][i].data \in Records \cup {Blank, Damaged}
BY DEF TypeOK

\* and of the descriptor and the buffer
LEMMA DescriptorTypes ==
    ASSUME TypeOK
    PROVE  /\ fd.open \in BOOLEAN /\ fd.next \in Nat
           /\ fd.indir \in Blocks \cup {None} /\ fd.seq \in Blocks \cup {None}
           /\ fd.data \in Blocks \cup {None}
           /\ fd.fill \in Nat /\ fd.fill <= PagesPerBlock
           /\ fd.off \in Nat /\ fd.size \in Nat
           /\ count \in Nat /\ count <= PagesPerBlock
           /\ wrote \in Nat /\ wrote <= MaxWrites
           /\ op.total \in Nat /\ op.total <= PagesPerBlock /\ op.written \in Nat
           /\ op.chunk \in Nat /\ op.chunk <= PagesPerBlock
           /\ op.done \in Nat /\ op.slot \in IndirIdx
           /\ fresh \in Nat /\ fresh > 1
BY Sizes DEF TypeOK, Descriptors, Locals, PageIdx

\* and of pointers
LEMMA LinkTypes ==
    ASSUME TypeOK
    PROVE  /\ \A b \in Blocks : link[b] \in Nat
           /\ \A b \in Blocks, i \in IndirIdx : fie[b][i].seq \in Nat
           /\ \A b \in Blocks, i \in SeqIdx :
                 Intact(fse[b][i].data) => fse[b][i].data.block \in Nat
           /\ \A i \in DOMAIN dme : dme[i] \in Nat
           /\ fd.indir \in Nat /\ fd.seq \in Nat /\ fd.data \in Nat /\ op.seq \in Nat
<1>1. Blocks \cup {None} \subseteq Nat
  BY BlockNumbers DEF None
<1>2. \A b \in Blocks : link[b] \in Blocks \cup {None}
  BY DEF TypeOK
<1>3. \A b \in Blocks, i \in IndirIdx : fie[b][i].seq \in Blocks \cup {None}
  BY DEF TypeOK
<1>4. \A i \in DOMAIN dme : dme[i] \in Blocks
  BY DEF TypeOK
<1>5. /\ fd.indir \in Blocks \cup {None} /\ fd.seq \in Blocks \cup {None}
      /\ fd.data \in Blocks \cup {None} /\ op.seq \in Blocks \cup {None}
  BY DEF TypeOK, Descriptors, Locals
<1>6. \A b \in Blocks, i \in SeqIdx :
          Intact(fse[b][i].data) => fse[b][i].data.block \in Blocks
  BY DEF Intact
<1> QED
  BY <1>1, <1>2, <1>3, <1>4, <1>5, <1>6

LEMMA LinksAscend == ASSUME TypeOK, Pristine PROVE link \in Links
BY DEF TypeOK, Pristine, Links

\* The last valid entry of a block
LEMMA LastValid ==
    ASSUME NEW n \in Nat, NEW e, DOMAIN e = 0 .. n - 1, Valid(e) # {}
    PROVE  Max(Valid(e)) \in Valid(e) /\ \A i \in Valid(e) : i <= Max(Valid(e))
<1>1. Valid(e) \subseteq 0 .. n
  BY DEF Valid
<1> QED
  BY <1>1, GreatestElement

LEMMA LastValidIs ==
    ASSUME NEW n \in Nat, NEW e, DOMAIN e = 0 .. n - 1, NEW x \in Valid(e),
           \A i \in Valid(e) : i <= x
    PROVE  Max(Valid(e)) = x
<1>1. Valid(e) \subseteq 0 .. n
  BY DEF Valid
<1> QED
  BY <1>1, GreatestIs

\* The last indirection block
LEMMA LastInChainIs ==
    ASSUME TypeOK, Pristine
    PROVE  /\ Last(dme) \in Blocks
           /\ LastInChain(Last(dme)) \in Chain[Last(dme)]
           /\ LastInChain(Last(dme)) \in Blocks
<1> DEFINE C == Chain[Last(dme)]
<1>1. Last(dme) \in Blocks
  BY DmeFacts DEF TypeOK
<1>2. C # {} /\ C \subseteq Blocks
  BY <1>1, LinksAscend, ChainNow, FromContains
<1>3. NumBlocks \in Nat /\ C \subseteq 0 .. NumBlocks
  BY <1>2, Sizes DEF Blocks
<1>4. Max(C) \in C
  BY <1>2, <1>3, GreatestElement
<1> QED
  BY <1>1, <1>2, <1>4 DEF LastInChain

\* What an open finds, when it finds a sequence block: through the last valid entry
\* of the last indirection block
LEMMA OpenedFacts ==
    ASSUME TypeOK, Pristine, IndirInOrder, CanOpen
    PROVE  /\ OpenedSeq \in Blocks
           /\ Migrated => \E b \in Chain[Last(dme)] : \E i \in IndirIdx :
                 /\ b = LastInChain(Last(dme)) /\ b \in Blocks
                 /\ i = Max(Valid(fie[b])) /\ i \in Valid(fie[b])
                 /\ OpenedSeq = fie[b][i].seq
<1>1. CASE ~Migrated
  BY <1>1, LastInChainIs DEF OpenedSeq
<1>2. CASE Migrated
  <2> DEFINE b == LastInChain(Last(dme))
             i == Max(Valid(fie[b]))
  <2>1. b \in Chain[Last(dme)] /\ b \in Blocks
    BY LastInChainIs
  <2> HIDE DEF b
  <2>2. DOMAIN fie[b] = 0 .. IndirEntries - 1 /\ IndirEntries \in Nat
    BY <2>1, Sizes DEF TypeOK, IndirIdx
  <2>3. Valid(fie[b]) # {}
    BY <1>2 DEF CanOpen, b
  <2>4. i \in Valid(fie[b])
    BY <2>2, <2>3, LastValid
  <2>5. i \in IndirIdx /\ fie[b][i].committed
    BY <2>2, <2>4 DEF Valid, IndirIdx
  <2>6. fie[b][i].seq \in Blocks
    BY <2>1, <2>5 DEF TypeOK, IndirInOrder
  <2>7. OpenedSeq = fie[b][i].seq
    BY <1>2 DEF OpenedSeq, b
  <2> QED
    BY <2>1, <2>4, <2>5, <2>6, <2>7 DEF b
<1> QED
  BY <1>1, <1>2

LEMMA InitInv == Init => FileInv
<1> SUFFICES ASSUME Init PROVE FileInv
  OBVIOUS
<1> USE DEF Init, NoDescriptor, NoOp, None
<1>1. dme \in [1 .. 1 -> Blocks] /\ dme[1] = 1 /\ Len(dme) = 1 /\ ~Migrated
  BY BlockNumbers DEF Migrated
<1>2. TypeOK
  <2>1. /\ 0 \in 0 .. SeqEntries /\ 0 \in 0 .. PagesPerBlock /\ 0 \in 0 .. MaxWrites
        /\ 0 \in PageIdx /\ 0 \in IndirIdx /\ 0 \in Contents /\ 2 \in 2 .. NumBlocks + 1
    BY Sizes DEF PageIdx, IndirIdx, Contents
  <2>2. /\ fse \in [Blocks -> [SeqIdx -> [used : BOOLEAN, committed : BOOLEAN,
                                          data : Records \cup {Blank, Damaged}]]]
        /\ fie \in [Blocks -> [IndirIdx -> [used : BOOLEAN, committed : BOOLEAN,
                                            seq : Blocks \cup {None}]]]
        /\ page \in [Blocks -> [PageIdx -> Contents]] /\ buf \in [PageIdx -> Contents]
    BY <2>1 DEF BlankSeqBlock, BlankIndirBlock, BlankPages, Erased
  <2>3. app \in Seq(Contents) /\ acked \in Seq(Contents)
    BY EmptySeq
  <2> QED
    BY <1>1, <2>1, <2>2, <2>3, BlockNumbers DEF TypeOK, Descriptors, Locals
<1>3. ~Intact(Blank)
  BY BlockNumbers
<1>4. Pristine
  BY <1>1, <1>3, BlockNumbers, DmeFacts DEF Pristine, BlankSeqBlock, BlankIndirBlock
<1>5. RecordsSound
  BY <1>3 DEF RecordsSound, BlankSeqBlock
<1>6. DescriptorSound /\ LoopSound
  BY <1>1, Sizes DEF DescriptorSound, LoopSound, PageIdx
<1>7. SeqInOrder /\ IndirInOrder
  BY <1>1, Sizes DEF SeqInOrder, IndirInOrder, BlankSeqBlock, BlankIndirBlock, SeqIdx,
     SeqPcs, TakePcs
<1>8. Newest /\ Growing
  BY <1>1, BlockNumbers, DmeFacts DEF Newest, Growing, BlankSeqBlock, OpenedSeq
<1> QED
  BY <1>2, <1>4, <1>5, <1>6, <1>7, <1>8 DEF FileInv

\* What r2f2_open reads of the directory entry and the chain stays while they do.
LEMMA OpenUnchanged ==
    ASSUME UNCHANGED <<dme, fie, link>>
    PROVE  /\ Migrated' = Migrated /\ Chain' = Chain
           /\ CanOpen' = CanOpen /\ OpenedSeq' = OpenedSeq
<1>1. Migrated' = Migrated /\ Chain' = Chain
  BY DEF Migrated, Chain
<1>2. LastInChain(Last(dme))' = LastInChain(Last(dme))
  BY <1>1 DEF LastInChain
<1> QED
  BY <1>1, <1>2 DEF CanOpen, OpenedSeq

\* r2f2_write
LEMMA WriteInv == ASSUME FileInv, Write PROVE FileInv'
<1> USE DEF FileInv
<1>1. /\ pc = "idle" /\ fd.open /\ count \in Nat /\ count < PagesPerBlock
      /\ wrote \in Nat /\ wrote < MaxWrites /\ wrote' = wrote + 1
      /\ count' = count + 1 /\ app' = Append(app, wrote + 1)
      /\ UNCHANGED <<dme, fse, fie, link, page, fresh, fd, pc, op, acked, unnoticed>>
      /\ count \in PageIdx /\ wrote + 1 \in Contents /\ wrote + 1 # Erased
  BY Sizes DEF Write, TypeOK, flash, PageIdx, Contents, Erased
<1>2. buf' = [buf EXCEPT ![count] = wrote + 1] /\ buf \in [PageIdx -> Contents]
  BY DEF Write, TypeOK
<1>3. TypeOK'
  <2>1. app' \in Seq(Contents)
    BY <1>1, AppendProperties DEF TypeOK
  <2>2. buf' \in [PageIdx -> Contents]
    BY <1>1, <1>2
  <2>3. wrote' \in 0 .. MaxWrites /\ count' \in 0 .. PagesPerBlock
    BY <1>1, Sizes
  <2> QED
    BY <1>1, <2>1, <2>2, <2>3 DEF TypeOK
<1>4. Pristine' /\ IndirInOrder'
  BY <1>1 DEF Pristine, IndirInOrder, Migrated, Chain
<1>5. RecordsSound'
  <2> SUFFICES ASSUME NEW b \in Blocks, NEW i \in SeqIdx, Intact(fse[b][i].data)
               PROVE  LET r == fse[b][i].data IN
                      /\ r.off + r.fill = r.size /\ r.size <= wrote'
                      /\ \A p \in PageIdx : p < r.fill => page[r.block][p] # Erased
    BY <1>1 DEF RecordsSound
  <2> DEFINE r == fse[b][i].data
  <2>1. /\ r.off + r.fill = r.size /\ r.size <= wrote
        /\ \A p \in PageIdx : p < r.fill => page[r.block][p] # Erased
    BY DEF RecordsSound
  <2>2. r.size \in Nat
    <3>1. r \in Records \cup {Blank, Damaged}
      BY EntryTypes
    <3> HIDE DEF r
    <3> QED
      BY <3>1, IntactRecords DEF r
  <2> HIDE DEF r
  <2>3. r.size <= wrote'
    BY <1>1, <2>1, <2>2
  <2> QED
    BY <2>1, <2>3 DEF r
<1>6. DescriptorSound'
  <2>1. fd.open /\ fd.seq # None /\ (fd.indir = None <=> ~Migrated)
        /\ (~Migrated => fd.seq = dme[1])
    BY <1>1 DEF DescriptorSound
  <2>2. fd.off + fd.fill = fd.size /\ fd.size + count' <= wrote'
    BY <1>1, DescriptorTypes DEF DescriptorSound
  <2>3. (fd.data = None => fd.fill = 0)
        /\ \A p \in PageIdx : p < fd.fill => page[fd.data][p] # Erased
    BY DEF DescriptorSound
  <2>4. Migrated' <=> Migrated
    BY <1>1 DEF Migrated
  <2> QED
    BY <1>1, <2>1, <2>2, <2>3, <2>4 DEF DescriptorSound
<1>7. LoopSound'
  <2>1. \A p \in PageIdx : p < count' => buf'[p] # Erased
    BY <1>1, <1>2 DEF LoopSound, PageIdx
  <2> QED
    BY <1>1, <2>1 DEF LoopSound
<1>8. SeqInOrder'
  BY <1>1 DEF SeqInOrder
<1>9. Growing'
  BY <1>1 DEF Growing
<1>10. Newest'
  BY <1>1, OpenUnchanged DEF Newest
<1> QED
  BY <1>3, <1>4, <1>5, <1>6, <1>7, <1>8, <1>9, <1>10

\* Steps that leave the flash alone keep what is said of it.
LEMMA FlashUnchanged ==
    ASSUME TypeOK, Pristine, UNCHANGED <<dme, fse, fie, link, page>>,
           fresh' \in Nat, fresh' >= fresh, wrote' \in Nat, wrote' >= wrote,
           fd'.indir < fresh', fd'.seq < fresh', fd'.data < fresh', op'.seq < fresh'
    PROVE  Pristine' /\ (RecordsSound => RecordsSound')
<1>1. /\ \A b \in Blocks : b >= fresh' => b >= fresh
      /\ \A x \in Nat : x < fresh => x < fresh'
  BY BlockNumbers, DescriptorTypes
<1>2. \A b \in Blocks : b >= fresh' =>
          /\ fse'[b] = BlankSeqBlock /\ fie'[b] = BlankIndirBlock
          /\ page'[b] = BlankPages /\ link'[b] = None
  BY <1>1 DEF Pristine
<1>3. \A i \in DOMAIN dme' : dme'[i] < fresh'
  BY <1>1, LinkTypes DEF Pristine
<1>4. \A b \in Blocks : link'[b] # None => b < link'[b] /\ link'[b] < fresh'
  BY <1>1, LinkTypes DEF Pristine
<1>5. \A b \in Blocks, i \in IndirIdx : fie'[b][i].seq < fresh'
  BY <1>1, LinkTypes DEF Pristine
<1>6. \A b \in Blocks, i \in SeqIdx :
          Intact(fse'[b][i].data) => fse'[b][i].data.block < fresh'
  BY <1>1, LinkTypes DEF Pristine
<1>7. Pristine'
  BY <1>2, <1>3, <1>4, <1>5, <1>6 DEF Pristine, BlankSeqBlock, BlankIndirBlock, BlankPages
<1>8. RecordsSound => RecordsSound'
  BY EntryTypes, IntactRecords, DescriptorTypes DEF RecordsSound
<1> QED
  BY <1>7, <1>8

\* A block that is handed out is erased, and nothing refers to it.
LEMMA AllocatedBlock ==
    ASSUME FileInv, NEW b \in Blocks, Allocate(b)
    PROVE  /\ b = fresh /\ fresh' = fresh + 1 /\ fresh' \in 2 .. NumBlocks + 1
           /\ fresh \in Nat /\ fresh > 1
           /\ fse[b] = BlankSeqBlock /\ fie[b] = BlankIndirBlock
           /\ page[b] = BlankPages /\ link[b] = None
           /\ \A x \in Blocks, i \in SeqIdx :
                 Intact(fse[x][i].data) => fse[x][i].data.block # b
<1>1. b = fresh /\ fresh' = fresh + 1 /\ fresh \in Nat /\ fresh > 1
  BY DescriptorTypes DEF Allocate, FileInv
<1>2. fresh' \in 2 .. NumBlocks + 1
  BY <1>1, Sizes DEF Blocks
<1> QED
  BY <1>1, <1>2, BlockNumbers DEF FileInv, Pristine

\* r2f2_fsync with nothing to do, or no step at all
LEMMA AcknowledgeInv == ASSUME FileInv, FsyncNothing \/ UNCHANGED vars PROVE FileInv'
<1> USE DEF FileInv
<1>1. /\ UNCHANGED <<dme, fse, fie, link, page, fresh, fd, buf, count, pc, op, wrote,
                     app, unnoticed>>
      /\ acked' \in {app, acked}
  BY DEF FsyncNothing, vars, flash, ram, ghosts
<1>2. TypeOK'
  BY <1>1 DEF TypeOK
<1>3. Pristine' /\ IndirInOrder'
  BY <1>1 DEF Pristine, IndirInOrder, Migrated, Chain
<1>4. RecordsSound'
  BY <1>1 DEF RecordsSound
<1>5. DescriptorSound'
  BY <1>1 DEF DescriptorSound, Migrated
<1>6. LoopSound'
  BY <1>1 DEF LoopSound
<1>7. SeqInOrder'
  BY <1>1 DEF SeqInOrder
<1>8. Growing'
  BY <1>1 DEF Growing
<1>9. Newest'
  BY <1>1, OpenUnchanged DEF Newest
<1> QED
  BY <1>2, <1>3, <1>4, <1>5, <1>6, <1>7, <1>8, <1>9

\* r2f2_fsync up to its loop
LEMMA FsyncInv == ASSUME FileInv, Fsync PROVE FileInv'
<1> USE DEF FileInv
<1>1. /\ pc = "idle" /\ fd.open /\ count > 0 /\ pc' = "chunk"
      /\ op' = [NoOp EXCEPT !.total = count]
      /\ UNCHANGED <<dme, fse, fie, link, page, buf, count, wrote, app, acked, unnoticed>>
  BY DEF Fsync, flash, ghosts
<1>2. PICK d : /\ fd' = [fd EXCEPT !.data = d]
               /\ \/ fd.data # None /\ d = fd.data /\ fresh' = fresh
                  \/ fd.data = None /\ d \in Blocks /\ Allocate(d)
  BY DEF Fsync, TypeOK, Descriptors
<1>3. /\ fd'.data = d /\ fd'.open = fd.open /\ fd'.indir = fd.indir /\ fd'.seq = fd.seq
      /\ fd'.next = fd.next /\ fd'.fill = fd.fill /\ fd'.off = fd.off /\ fd'.size = fd.size
  BY <1>2 DEF TypeOK, Descriptors
<1>4. d \in Blocks /\ d < fresh' /\ fresh' >= fresh
      /\ fresh' \in 2 .. NumBlocks + 1 /\ fresh \in Nat
  <2>1. CASE fresh' = fresh /\ fd.data # None /\ d = fd.data
    BY <2>1, BlockNumbers, DescriptorTypes DEF Pristine, TypeOK
  <2>2. CASE d \in Blocks /\ Allocate(d)
    BY <2>2, AllocatedBlock
  <2> QED
    BY <1>2, <2>1, <2>2
<1>5. op' = [total |-> count, written |-> 0, chunk |-> 0, done |-> 0, seq |-> None, slot |-> 0]
  BY <1>1 DEF NoOp
<1>6. TypeOK'
  <2>1. op'.done \in PageIdx /\ op'.slot \in IndirIdx /\ count \in 0 .. PagesPerBlock
    BY <1>5, Sizes DEF PageIdx, IndirIdx, TypeOK
  <2>2. op' \in Locals
    BY <1>5, <2>1, Sizes DEF Locals
  <2>3. fd' \in Descriptors
    BY <1>2, <1>4 DEF TypeOK, Descriptors
  <2> QED
    BY <1>1, <1>4, <2>2, <2>3 DEF TypeOK
<1>7. Pristine' /\ RecordsSound'
  <2>1. fd.indir < fresh' /\ fd.seq < fresh' /\ None < fresh'
    BY <1>4, LinkTypes DEF Pristine, None
  <2>2. wrote' \in Nat /\ wrote' >= wrote
    BY <1>1, DescriptorTypes
  <2> QED
    BY <1>1, <1>3, <1>4, <1>5, <2>1, <2>2, FlashUnchanged
<1>8. SeqInOrder'
  BY <1>1, <1>3 DEF SeqInOrder, SeqPcs, TakePcs
<1>9. fd.data = None => fd.fill = 0
  BY DEF DescriptorSound
<1>10. DescriptorSound'
  BY <1>1, <1>2, <1>3, <1>9 DEF DescriptorSound, Migrated, PageIdx
<1>11. LoopSound'
  BY <1>1, <1>3, <1>4, <1>5, BlockNumbers, DescriptorTypes DEF LoopSound
<1>12. IndirInOrder'
  BY <1>1, <1>3, OpenUnchanged DEF IndirInOrder, TakePcs
<1>13. Newest'
  BY <1>1, <1>3, OpenUnchanged DEF Newest
<1>14. Growing'
  <2>1. d # fd.data => \A b \in Blocks, i \in SeqIdx :
           Intact(fse[b][i].data) => fse[b][i].data.block # d
    BY <1>2, AllocatedBlock
  <2> QED
    BY <1>1, <1>3, <2>1 DEF Growing
<1> QED
  BY <1>6, <1>7, <1>8, <1>10, <1>11, <1>12, <1>13, <1>14
\* The next chunk: the next data block, if the last is full.
LEMMA NextChunkInv == ASSUME FileInv, NextChunk PROVE FileInv'
<1> USE DEF FileInv
<1>1. /\ pc = "chunk" /\ pc' = "page"
      /\ op' = [op EXCEPT !.chunk = Min({count, PagesPerBlock - fd'.fill}), !.done = 0]
      /\ UNCHANGED <<dme, fse, fie, link, page, buf, count, wrote, app, acked, unnoticed>>
  BY DEF NextChunk, flash, ghosts
<1>2. /\ fd'.open = fd.open /\ fd'.indir = fd.indir /\ fd'.seq = fd.seq
      /\ fd'.next = fd.next /\ fd'.size = fd.size /\ fd' \in Descriptors
      /\ \/ fd.fill # PagesPerBlock /\ fd' = fd /\ fresh' = fresh
         \/ /\ fd'.data \in Blocks /\ Allocate(fd'.data)
            /\ fd'.fill = 0 /\ fd'.off = fd.size
  <2>1. CASE fd.fill = PagesPerBlock
    <3>1. PICK b \in Blocks : /\ Allocate(b)
                              /\ fd' = [fd EXCEPT !.data = b, !.fill = 0, !.off = fd.size]
      BY <2>1 DEF NextChunk
    <3>2. fd \in Descriptors /\ 0 \in 0 .. PagesPerBlock /\ fd.size \in 0 .. MaxWrites
      BY Sizes DEF TypeOK, Descriptors
    <3>3. /\ fd'.open = fd.open /\ fd'.indir = fd.indir /\ fd'.seq = fd.seq
          /\ fd'.next = fd.next /\ fd'.size = fd.size /\ fd'.data = b
          /\ fd'.fill = 0 /\ fd'.off = fd.size /\ fd' \in Descriptors
      BY <3>1, <3>2 DEF Descriptors
    <3> QED
      BY <3>1, <3>3
  <2>2. CASE fd.fill # PagesPerBlock
    BY <2>2 DEF NextChunk, TypeOK
  <2> QED
    BY <2>1, <2>2
<1>3. /\ fd.open /\ fd.data \in Blocks /\ fd.data < fresh /\ count > 0 /\ count \in Nat
      /\ op.written + count = op.total
  BY <1>1, DescriptorTypes DEF LoopSound, DescriptorSound, Pristine
<1>4. /\ fd'.data \in Blocks /\ fd'.data < fresh' /\ fresh' >= fresh
      /\ fresh' \in 2 .. NumBlocks + 1 /\ fresh \in Nat
      /\ fd'.fill \in Nat /\ fd'.fill < PagesPerBlock
  <2>1. CASE fd.fill # PagesPerBlock /\ fd' = fd /\ fresh' = fresh
    BY <1>3, <2>1, DescriptorTypes, Sizes DEF TypeOK
  <2>2. CASE fd'.data \in Blocks /\ Allocate(fd'.data) /\ fd'.fill = 0
    BY <2>2, AllocatedBlock, Sizes
  <2> QED
    BY <1>2, <2>1, <2>2
<1>5. PICK n : /\ n = op'.chunk /\ n \in Nat /\ n > 0 /\ n <= count
               /\ fd'.fill + n <= PagesPerBlock
  <2>1. op'.chunk = Min({count, PagesPerBlock - fd'.fill})
    BY <1>1 DEF TypeOK, Locals
  <2>2. PagesPerBlock - fd'.fill \in Nat /\ PagesPerBlock - fd'.fill > 0
    BY <1>4, Sizes
  <2>3. op'.chunk = IF count <= PagesPerBlock - fd'.fill THEN count
                    ELSE PagesPerBlock - fd'.fill
    BY <1>3, <2>1, <2>2, MinOfTwo
  <2> QED
    BY <1>3, <1>4, <2>2, <2>3, Sizes
<1>6. op' = [op EXCEPT !.chunk = n, !.done = 0]
  BY <1>1, <1>5 DEF TypeOK, Locals
<1>7. /\ op'.chunk = n /\ op'.done = 0 /\ op'.total = op.total
      /\ op'.written = op.written /\ op'.seq = op.seq /\ op'.slot = op.slot
  BY <1>6 DEF TypeOK, Locals
<1>8. TypeOK'
  <2>1. n \in 0 .. PagesPerBlock /\ 0 \in PageIdx
    BY <1>4, <1>5, Sizes DEF PageIdx
  <2>2. op' \in Locals
    BY <1>6, <2>1 DEF TypeOK, Locals
  <2> QED
    BY <1>1, <1>2, <1>4, <2>2 DEF TypeOK
<1>9. Pristine' /\ RecordsSound'
  <2>1. fd.indir < fresh' /\ fd.seq < fresh' /\ op.seq < fresh'
    BY <1>4, LinkTypes DEF Pristine
  <2>2. wrote' \in Nat /\ wrote' >= wrote /\ fresh' \in Nat
    BY <1>1, <1>4, DescriptorTypes
  <2> QED
    BY <1>1, <1>2, <1>4, <1>7, <2>1, <2>2, FlashUnchanged
<1>10. fd'.off + fd'.fill = fd'.size /\ \A p \in PageIdx : p < fd'.fill => page[fd'.data][p] # Erased
  BY <1>2, DescriptorTypes DEF DescriptorSound, PageIdx
<1>11. DescriptorSound'
  BY <1>1, <1>2, <1>3, <1>4, <1>10, OpenUnchanged DEF DescriptorSound, None, Blocks
<1>12. LoopSound'
  BY <1>1, <1>3, <1>4, <1>5, <1>7, <1>10, BlockNumbers DEF LoopSound
<1>13. SeqInOrder'
  BY <1>1, <1>2, <1>7 DEF SeqInOrder, SeqPcs, TakePcs
<1>14. IndirInOrder'
  BY <1>1, <1>2, OpenUnchanged DEF IndirInOrder, TakePcs
<1>15. Newest'
  BY <1>1, <1>2, OpenUnchanged DEF Newest
<1>16. Growing'
  <2>1. CASE fd' = fd
    BY <1>1, <2>1 DEF Growing
  <2>2. CASE fd'.data \in Blocks /\ Allocate(fd'.data)
    BY <1>1, <2>2, AllocatedBlock DEF Growing
  <2> QED
    BY <1>2, <2>1, <2>2
<1> QED
  BY <1>8, <1>9, <1>11, <1>12, <1>13, <1>14, <1>15, <1>16

\* A page of the chunk: the cell was not erased, or it is now programmed with what
\* the buffer has, which is never blank.
LEMMA WritePageInv == ASSUME FileInv, WritePage PROVE FileInv'
<1> USE DEF FileInv
<1> DEFINE p0 == fd.fill + op.done
           v == Over(page[fd.data][p0], buf[op.written + op.done], Erased, Garbage)
<1>1. /\ pc = "page"
      /\ page' = [page EXCEPT ![fd.data][p0] = v]
      /\ UNCHANGED <<dme, fse, fie, link, fresh, buf, wrote, app, acked, unnoticed>>
  BY DEF WritePage, ghosts
<1>2. /\ fd.open /\ fd.data \in Blocks /\ fd.data < fresh
      /\ op.done < op.chunk /\ op.chunk <= count /\ fd.fill + op.chunk <= PagesPerBlock
      /\ op.written + count = op.total
      /\ \A p \in PageIdx : p < op.total => buf[p] # Erased
      /\ \A p \in PageIdx : p < p0 => page[fd.data][p] # Erased
  BY <1>1, DescriptorTypes DEF LoopSound, DescriptorSound, Pristine
<1>3. p0 \in PageIdx /\ op.written + op.done \in PageIdx /\ op.written + op.done < op.total
  BY <1>2, DescriptorTypes, Sizes DEF PageIdx
<1>4. v \in Contents /\ v # Erased
  <2>1. /\ buf[op.written + op.done] # Erased /\ buf[op.written + op.done] \in Contents
        /\ page[fd.data][p0] \in Contents
    BY <1>2, <1>3 DEF TypeOK
  <2>2. Garbage \in Contents /\ Garbage # Erased
    BY Sizes DEF Garbage, Contents, Erased
  <2> QED
    BY <2>1, <2>2 DEF Over
<1> HIDE DEF v
<1>5. \A b \in Blocks, p \in PageIdx :
          page'[b][p] = IF b = fd.data /\ p = p0 THEN v ELSE page[b][p]
  BY <1>1, <1>2, <1>3 DEF TypeOK
<1>6. \A b \in Blocks, p \in PageIdx : page[b][p] # Erased => page'[b][p] # Erased
  BY <1>4, <1>5
<1>7. \A p \in PageIdx : p <= p0 => page'[fd.data][p] # Erased
  BY <1>2, <1>3, <1>4, <1>5 DEF PageIdx
<1>8. page' \in [Blocks -> [PageIdx -> Contents]]
  BY <1>1, <1>4 DEF TypeOK
<1>9. /\ fd'.open = fd.open /\ fd'.indir = fd.indir /\ fd'.seq = fd.seq
      /\ fd'.next = fd.next /\ fd'.data = fd.data /\ fd'.off = fd.off
      /\ op'.total = op.total /\ op'.written = op.written /\ op'.chunk = op.chunk
      /\ op'.seq = op.seq /\ op'.slot = op.slot
  BY DEF WritePage, TypeOK, Descriptors, Locals
<1>10. \/ /\ op.done + 1 < op.chunk /\ op'.done = op.done + 1
          /\ fd' = fd /\ count' = count /\ pc' = "page"
          /\ op' = [op EXCEPT !.done = @ + 1]
       \/ /\ op.done + 1 = op.chunk /\ op'.done = 0
          /\ fd' = [fd EXCEPT !.fill = @ + op.chunk, !.size = @ + op.chunk]
          /\ fd'.fill = fd.fill + op.chunk /\ fd'.size = fd.size + op.chunk
          /\ count' = count - op.chunk
          /\ pc' = IF fd.next >= SeqEntries THEN "meta" ELSE "seqUse"
          /\ op' = [op EXCEPT !.done = 0]
  BY <1>1 DEF WritePage, TypeOK, Descriptors, Locals
<1>11. /\ fd'.fill \in Nat /\ fd'.fill <= PagesPerBlock /\ fd'.fill >= fd.fill
       /\ fd'.size \in Nat /\ count' \in Nat /\ fd'.size + count' = fd.size + count
       /\ fd'.off + fd'.fill = fd'.size /\ fd'.size + count' <= wrote'
       /\ op'.done \in Nat /\ op'.done < op.chunk
  <2>1. /\ fd.size \in Nat /\ fd.off \in Nat /\ fd.fill \in Nat /\ count \in Nat
        /\ op.chunk \in Nat /\ op.done \in Nat /\ wrote' = wrote
        /\ fd.off + fd.fill = fd.size /\ fd.size + count <= wrote /\ wrote \in Nat
    BY <1>1, DescriptorTypes DEF DescriptorSound
  <2> QED
    BY <1>2, <1>9, <1>10, <2>1, Sizes
<1>12. TypeOK'
  <2>1. /\ fd'.fill \in 0 .. PagesPerBlock /\ fd'.size \in 0 .. MaxWrites
        /\ count' \in 0 .. PagesPerBlock /\ op'.done \in PageIdx
    <3>1. wrote' \in Nat /\ wrote' <= MaxWrites /\ count' <= count /\ count <= PagesPerBlock
          /\ op.chunk <= PagesPerBlock /\ op.chunk \in Nat
      BY <1>1, <1>2, <1>10, DescriptorTypes, Sizes
    <3> QED
      BY <1>11, <3>1, Sizes, DescriptorTypes DEF PageIdx
  <2>2. fd' \in Descriptors
    BY <1>10, <2>1 DEF TypeOK, Descriptors
  <2>3. op' \in Locals
    BY <1>10, <2>1 DEF TypeOK, Locals
  <2> QED
    BY <1>1, <1>8, <1>10, <2>1, <2>2, <2>3 DEF TypeOK
<1>13. Pristine'
  <2>1. \A b \in Blocks : b >= fresh => page'[b] = page[b]
    BY <1>1, <1>2, BlockNumbers, DescriptorTypes DEF TypeOK
  <2> QED
    BY <1>1, <1>9, <2>1 DEF Pristine
<1>14. RecordsSound'
  BY <1>1, <1>6 DEF RecordsSound, Intact
<1>15. \A p \in PageIdx : p < fd'.fill => page'[fd'.data][p] # Erased
  <2>1. fd'.fill <= p0 + 1
    BY <1>2, <1>10, DescriptorTypes
  <2>2. \A p \in PageIdx : p < fd'.fill => p <= p0
    BY <1>3, <1>11, <2>1 DEF PageIdx
  <2> QED
    BY <1>7, <1>9, <2>2
<1>16. DescriptorSound'
  BY <1>1, <1>2, <1>9, <1>11, <1>15, BlockNumbers, OpenUnchanged DEF DescriptorSound
<1>17. LoopSound'
  <2>1. CASE op.done + 1 < op.chunk /\ op'.done = op.done + 1 /\ fd' = fd
             /\ count' = count /\ pc' = "page"
    <3>1. \A p \in PageIdx : p < fd'.fill + op'.done => page'[fd'.data][p] # Erased
      BY <1>3, <1>7, <2>1, DescriptorTypes DEF PageIdx
    <3> QED
      BY <1>1, <1>2, <1>9, <2>1, <3>1, DescriptorTypes DEF LoopSound
  <2>2. CASE fd'.fill = fd.fill + op.chunk /\ count' = count - op.chunk
             /\ pc' \in {"meta", "seqUse"}
    BY <1>1, <1>2, <1>9, <2>2, DescriptorTypes DEF LoopSound
  <2> QED
    BY <1>10, <2>1, <2>2
<1>18. SeqInOrder'
  <2>1. pc' \in {"page", "meta", "seqUse"} /\ (pc' = "seqUse" => fd.next < SeqEntries)
    BY <1>10, DescriptorTypes, Sizes
  <2> QED
    BY <1>1, <1>9, <2>1 DEF SeqInOrder, SeqPcs, TakePcs
<1>19. IndirInOrder'
  BY <1>1, <1>9, <1>10, OpenUnchanged DEF IndirInOrder, TakePcs
<1>20. Newest'
  BY <1>1, <1>9, OpenUnchanged DEF Newest
<1>21. Growing'
  <2>1. pc' # "seqCommit"
    BY <1>10
  <2> QED
    BY <1>1, <1>9, <1>11, <2>1, DescriptorTypes, EntryTypes, IntactRecords DEF Growing
<1> QED
  BY <1>12, <1>13, <1>14, <1>16, <1>17, <1>18, <1>19, <1>20, <1>21

\* r2f2_fsync returns an error.
LEMMA ErrorInv ==
    ASSUME FileInv, pc # "idle", NoMemory \/ ChainRefused \/ FlashError PROVE FileInv'
<1> USE DEF FileInv
<1>1. /\ pc' = "idle" /\ op' = NoOp
      /\ UNCHANGED <<dme, fse, fie, link, page, fresh, fd, buf, count, wrote, app, acked,
                     unnoticed>>
  BY DEF NoMemory, ChainRefused, FlashError, FsyncReturnsError, flash, ram, ghosts
<1>2. op' \in Locals /\ op'.seq = None
  BY <1>1, Sizes DEF NoOp, Locals, PageIdx, IndirIdx
<1>3. TypeOK'
  BY <1>1, <1>2 DEF TypeOK
<1>4. Pristine' /\ RecordsSound'
  <2>1. fd'.indir < fresh' /\ fd'.seq < fresh' /\ fd'.data < fresh' /\ op'.seq < fresh'
    BY <1>1, <1>2, DescriptorTypes DEF Pristine, None
  <2> QED
    BY <1>1, <2>1, DescriptorTypes, FlashUnchanged
<1>5. DescriptorSound'
  BY <1>1, OpenUnchanged DEF DescriptorSound
<1>6. LoopSound'
  <2>1. \A p \in PageIdx : p < op.total => buf[p] # Erased
    BY DEF LoopSound
  <2>2. count <= op.total
    BY DescriptorTypes DEF LoopSound
  <2> QED
    BY <1>1, <2>1, <2>2, DescriptorTypes DEF LoopSound, PageIdx
<1>7. SeqInOrder' /\ Growing'
  BY <1>1 DEF SeqInOrder, Growing, SeqPcs, TakePcs
<1>8. IndirInOrder' /\ Newest'
  BY <1>1, OpenUnchanged DEF IndirInOrder, Newest, TakePcs
<1> QED
  BY <1>3, <1>4, <1>5, <1>6, <1>7, <1>8

\* The descriptor and the buffer are gone.
LEMMA ClosedInv == ASSUME FileInv, Close \/ Crash PROVE FileInv'
<1> USE DEF FileInv
<1>1. /\ fd' = NoDescriptor /\ buf' = BlankPages /\ count' = 0 /\ pc' = "idle"
      /\ UNCHANGED <<dme, fse, fie, link, page, fresh, wrote, unnoticed>>
      /\ app' \in {app, <<>>} /\ acked' \in {app, acked} /\ op' \in {op, NoOp}
  BY DEF Close, Crash, flash
<1>2. fd' \in Descriptors /\ NoOp \in Locals /\ buf' \in [PageIdx -> Contents]
  BY <1>1, Sizes DEF NoOp, Locals, PageIdx, IndirIdx, NoDescriptor, Descriptors,
     BlankPages, Erased, Contents
<1>3. TypeOK'
  <2>1. app' \in Seq(Contents) /\ acked' \in Seq(Contents)
    BY <1>1, EmptySeq DEF TypeOK
  <2> QED
    BY <1>1, <1>2, <2>1, Sizes DEF TypeOK
<1>4. Pristine' /\ RecordsSound'
  <2>1. fd'.indir < fresh' /\ fd'.seq < fresh' /\ fd'.data < fresh' /\ op'.seq < fresh'
    BY <1>1, DescriptorTypes DEF Pristine, None, NoDescriptor, NoOp
  <2> QED
    BY <1>1, <2>1, DescriptorTypes, FlashUnchanged
<1>5. DescriptorSound' /\ LoopSound'
  BY <1>1, DescriptorTypes DEF DescriptorSound, LoopSound, NoDescriptor, PageIdx
<1>6. SeqInOrder' /\ IndirInOrder' /\ Newest'
  BY <1>1, OpenUnchanged DEF SeqInOrder, IndirInOrder, Newest, NoDescriptor, SeqPcs, TakePcs
<1>7. Growing'
  <2>1. \A b \in Blocks, i \in SeqIdx :
            Intact(fse[b][i].data) => fse[b][i].data.block # fd'.data
    BY <1>1, BlockNumbers DEF Intact, NoDescriptor
  <2> QED
    BY <1>1, <2>1 DEF Growing
<1> QED
  BY <1>3, <1>4, <1>5, <1>6, <1>7

\* The next sequence block
LEMMA NewSeqBlockInv == ASSUME FileInv, NewSeqBlock PROVE FileInv'
<1> USE DEF FileInv
<1>1. /\ pc = "meta" /\ pc' = "slot" /\ fd.indir # None
      /\ UNCHANGED <<dme, fse, fie, link, page, fd, buf, count, wrote, app, acked, unnoticed>>
  BY DEF NewSeqBlock, flash, ram, ghosts
<1>2. PICK b \in Blocks : Allocate(b) /\ op' = [op EXCEPT !.seq = b]
  BY DEF NewSeqBlock
<1>3. /\ op' \in Locals /\ op'.seq = b /\ op'.total = op.total /\ op'.written = op.written
      /\ op'.chunk = op.chunk
  BY <1>2 DEF TypeOK, Locals
<1>4. TypeOK'
  BY <1>1, <1>2, <1>3, AllocatedBlock DEF TypeOK
<1>5. Pristine' /\ RecordsSound'
  <2>1. /\ fd'.indir < fresh' /\ fd'.seq < fresh' /\ fd'.data < fresh' /\ op'.seq < fresh'
        /\ fresh' \in Nat /\ fresh' >= fresh
    BY <1>1, <1>2, <1>3, AllocatedBlock, LinkTypes DEF Pristine
  <2> QED
    BY <1>1, <2>1, DescriptorTypes, FlashUnchanged
<1>6. DescriptorSound' /\ LoopSound'
  BY <1>1, <1>3, OpenUnchanged DEF DescriptorSound, LoopSound
<1>7. SeqInOrder'
  <2>1. op'.seq > fd.seq
    BY <1>2, <1>3, AllocatedBlock, LinkTypes DEF Pristine
  <2>2. \A i \in SeqIdx : ~fse[op'.seq][i].committed
    BY <1>2, <1>3, AllocatedBlock DEF BlankSeqBlock
  <2> QED
    BY <1>1, <2>1, <2>2 DEF SeqInOrder, SeqPcs
<1>8. IndirInOrder'
  <2>1. Migrated
    BY <1>1 DEF DescriptorSound, LoopSound
  <2> QED
    BY <1>1, <2>1, OpenUnchanged DEF IndirInOrder, TakePcs
<1>9. Newest' /\ Growing'
  BY <1>1, OpenUnchanged DEF Newest, Growing
<1> QED
  BY <1>4, <1>5, <1>6, <1>7, <1>8, <1>9

\* The first free entry of the last indirection block, which is linked to none
LEMMA TakeIndirEntryInv == ASSUME FileInv, TakeIndirEntry PROVE FileInv'
<1> USE DEF FileInv
<1>1. /\ pc = "slot" /\ pc' = "indirUse" /\ FreeIndir # {}
      /\ op' = [op EXCEPT !.slot = Min(FreeIndir)]
      /\ UNCHANGED <<dme, fse, fie, link, page, fresh, fd, buf, count, wrote, app, acked,
                     unnoticed>>
  BY DEF TakeIndirEntry, flash, ram, ghosts
<1>2. PICK k : k = Min(FreeIndir)
  OBVIOUS
<1>3. k \in FreeIndir /\ k \in IndirIdx /\ \A i \in FreeIndir : k <= i
  <2>1. FreeIndir \subseteq Nat
    BY Sizes DEF FreeIndir, IndirIdx
  <2> QED
    BY <1>1, <1>2, <2>1, LeastElement DEF FreeIndir
<1>4. /\ op' \in Locals /\ op'.slot = k /\ op'.total = op.total /\ op'.written = op.written
      /\ op'.chunk = op.chunk /\ op'.seq = op.seq
  BY <1>1, <1>2, <1>3 DEF TypeOK, Locals
<1>5. TypeOK'
  BY <1>1, <1>4 DEF TypeOK
<1>6. Pristine' /\ RecordsSound'
  BY <1>1, <1>4, DescriptorTypes, FlashUnchanged DEF Pristine
<1>7. DescriptorSound' /\ LoopSound' /\ SeqInOrder'
  BY <1>1, <1>4, OpenUnchanged DEF DescriptorSound, LoopSound, SeqInOrder, SeqPcs, TakePcs
<1>8. fd.open /\ Migrated /\ fd.indir \in Blocks
  BY <1>1, DescriptorTypes DEF IndirInOrder, DescriptorSound
<1>9. ~fie[fd.indir][k].used
  BY <1>3 DEF FreeIndir
<1>10. /\ \A b \in Blocks, i \in IndirIdx : fie[b][i].committed => fie[b][i].used
       /\ \A b \in Blocks, i \in IndirIdx : fie[b][i].used => \A j \in 0 .. i : fie[b][j].used
       /\ \A b \in Blocks, i \in IndirIdx : link[b] # None => fie[b][i].used
  BY DEF IndirInOrder
<1>11. link[fd.indir] = None /\ ~fie[fd.indir][k].committed
  BY <1>3, <1>8, <1>9, <1>10
<1>12. \A i \in IndirIdx : /\ i < k => fie[fd.indir][i].used
                           /\ i > k => ~fie[fd.indir][i].used
  <2> SUFFICES ASSUME NEW i \in IndirIdx
               PROVE  /\ i < k => fie[fd.indir][i].used
                      /\ i > k => ~fie[fd.indir][i].used
    OBVIOUS
  <2>1. i \in Nat /\ k \in Nat
    BY <1>3, Sizes DEF IndirIdx
  <2>2. i < k => fie[fd.indir][i].used
    BY <1>3, <2>1 DEF FreeIndir
  <2>3. i > k => k \in 0 .. i
    BY <2>1
  <2> QED
    BY <1>8, <1>9, <1>10, <2>2, <2>3
<1>13. IndirInOrder'
  BY <1>1, <1>4, <1>8, <1>9, <1>11, <1>12, OpenUnchanged DEF IndirInOrder, TakePcs
<1>14. Newest' /\ Growing'
  BY <1>1, OpenUnchanged DEF Newest, Growing
<1> QED
  BY <1>5, <1>6, <1>7, <1>13, <1>14

\* One entry of a block changes.
LEMMA EntryUpdate ==
    ASSUME NEW D, NEW I, NEW E, NEW f \in [D -> [I -> E]],
           NEW s \in D, NEW n \in I, NEW e \in E,
           NEW g, g = [f EXCEPT ![s][n] = e]
    PROVE  /\ g \in [D -> [I -> E]]
           /\ \A b \in D, i \in I : g[b][i] = IF b = s /\ i = n THEN e ELSE f[b][i]
           /\ \A b \in D : b # s => g[b] = f[b]
OBVIOUS

SeqEntry == [used : BOOLEAN, committed : BOOLEAN, data : Records \cup {Blank, Damaged}]

\* The entry that r2f2_fsync is about to make
LEMMA NextEntry ==
    ASSUME FileInv, pc \in SeqPcs
    PROVE  /\ fd.open /\ fd.seq \in Blocks /\ fd.seq < fresh /\ fd.next \in SeqIdx
           /\ fd.data \in Blocks /\ fd.fill > 0
<1> USE DEF FileInv
<1>1. pc \notin {"idle", "chunk", "page"}
  BY DEF SeqPcs
<1>2. /\ fd.open /\ fd.seq \in Blocks /\ fd.seq < fresh
      /\ fd.data \in Blocks /\ fd.fill > 0
  BY <1>1, DescriptorTypes DEF DescriptorSound, LoopSound, Pristine
<1>3. fd.next \in SeqIdx
  BY DescriptorTypes, Sizes DEF SeqInOrder, SeqIdx
<1> QED
  BY <1>2, <1>3

\* Growing is about committed entries.
LEMMA GrowingKept ==
    ASSUME Growing, unnoticed' = unnoticed \/ unnoticed' = TRUE,
           \A b \in Blocks, i \in SeqIdx :
              fse'[b][i].committed => fse[b][i].committed /\ fse'[b][i].data = fse[b][i].data,
           fd'.data = fd.data, fd'.fill = fd.fill,
           pc' = "seqCommit" =>
              unnoticed' \/ fse'[fd'.seq][fd'.next].data
                               \in {Damaged, Record(fd'.data, fd'.fill, fd'.off, fd'.size)}
    PROVE  Growing'
<1> SUFFICES ASSUME ~unnoticed' PROVE Growing'
  BY DEF Growing
<1>1. ~unnoticed
  OBVIOUS
<1>2. ASSUME NEW b \in Blocks, NEW c \in Blocks, NEW i \in SeqIdx, NEW j \in SeqIdx,
             fse'[b][i].committed, Intact(fse'[b][i].data),
             fse'[c][j].committed, Intact(fse'[c][j].data),
             fse'[b][i].data.block = fse'[c][j].data.block,
             b < c \/ (b = c /\ i <= j)
      PROVE  fse'[b][i].data.fill <= fse'[c][j].data.fill
  <2>1. /\ fse[b][i].committed /\ fse'[b][i].data = fse[b][i].data
        /\ fse[c][j].committed /\ fse'[c][j].data = fse[c][j].data
    BY <1>2
  <2> QED
    BY <1>1, <1>2, <2>1 DEF Growing, Intact
<1>3. \A b \in Blocks, i \in SeqIdx :
          /\ fse'[b][i].committed /\ Intact(fse'[b][i].data)
          /\ fse'[b][i].data.block = fd'.data
          => fse'[b][i].data.fill <= fd'.fill
  BY <1>1 DEF Growing, Intact
<1> QED
  BY <1>2, <1>3 DEF Growing

\* The entry is marked used.
LEMMA SeqUseInv == ASSUME FileInv, SeqUse PROVE FileInv'
<1> USE DEF FileInv
<1>1. /\ pc = "seqUse" /\ pc' = "seqWrite"
      /\ UNCHANGED <<dme, fie, link, page, fresh, fd, buf, count, op, wrote, app, acked,
                     unnoticed>>
  BY DEF SeqUse, ram, ghosts
<1>2. fd.open /\ fd.seq \in Blocks /\ fd.seq < fresh /\ fd.next \in SeqIdx
  BY <1>1, NextEntry DEF SeqPcs
<1> DEFINE old == fse[fd.seq][fd.next]
           e == [old EXCEPT !.used = TRUE]
<1>a. fse \in [Blocks -> [SeqIdx -> SeqEntry]]
  BY DEF TypeOK, SeqEntry
<1>b. old \in SeqEntry
  BY <1>2, <1>a
<1>c. e \in SeqEntry /\ e.used /\ e.data = old.data /\ e.committed = old.committed
  BY <1>b DEF SeqEntry
<1>d. fse' = [fse EXCEPT ![fd.seq][fd.next] = e]
  BY DEF SeqUse
<1> HIDE DEF e
<1>e. /\ fse' \in [Blocks -> [SeqIdx -> SeqEntry]]
      /\ \A b \in Blocks, i \in SeqIdx :
            fse'[b][i] = IF b = fd.seq /\ i = fd.next THEN e ELSE fse[b][i]
      /\ \A b \in Blocks : b # fd.seq => fse'[b] = fse[b]
  BY <1>2, <1>a, <1>c, <1>d, EntryUpdate
<1>3. \A b \in Blocks, i \in SeqIdx :
          /\ fse'[b][i].data = fse[b][i].data
          /\ fse'[b][i].committed <=> fse[b][i].committed
          /\ fse[b][i].used => fse'[b][i].used
  BY <1>c, <1>e DEF SeqEntry
<1>4. fse'[fd.seq][fd.next].used
  BY <1>2, <1>c, <1>e
<1>5. TypeOK'
  BY <1>1, <1>e DEF TypeOK, SeqEntry
<1>6. Pristine' /\ RecordsSound'
  <2>1. \A b \in Blocks : b >= fresh => b # fd.seq
    BY <1>2, BlockNumbers, DescriptorTypes
  <2>2. Pristine'
    BY <1>1, <1>3, <1>e, <2>1 DEF Pristine
  <2>3. RecordsSound'
    BY <1>1, <1>3 DEF RecordsSound, Intact
  <2> QED
    BY <2>2, <2>3
<1>7. DescriptorSound' /\ LoopSound'
  BY <1>1, OpenUnchanged DEF DescriptorSound, LoopSound
<1>8. SeqInOrder'
  <2>1. ASSUME NEW b \in Blocks, NEW i \in SeqIdx, fse'[b][i].committed, NEW j \in 0 .. i
        PROVE  fse'[b][j].used
    <3>1. j \in SeqIdx
      BY Sizes DEF SeqIdx
    <3> QED
      BY <1>3, <2>1, <3>1 DEF SeqInOrder
  <2> QED
    BY <1>1, <1>2, <1>3, <1>4, <2>1 DEF SeqInOrder, SeqPcs, TakePcs
<1>9. IndirInOrder' /\ Newest'
  BY <1>1, <1>3, OpenUnchanged DEF IndirInOrder, Newest, TakePcs
<1>10. Growing'
  BY <1>1, <1>3, GrowingKept
<1> QED
  BY <1>5, <1>6, <1>7, <1>8, <1>9, <1>10

\* The record is written, or is not: what is in its place afterwards is the record,
\* two in one, or what was there.
LEMMA SeqWriteInv == ASSUME FileInv, SeqWrite PROVE FileInv'
<1> USE DEF FileInv
<1> DEFINE r == Record(fd.data, fd.fill, fd.off, fd.size)
<1>1. /\ pc = "seqWrite" /\ pc' = "seqCommit"
      /\ UNCHANGED <<dme, fie, link, page, fresh, fd, buf, count, op, wrote, app, acked>>
  BY DEF SeqWrite, ram
<1>2. /\ fd.open /\ fd.seq \in Blocks /\ fd.seq < fresh /\ fd.next \in SeqIdx
      /\ fd.data \in Blocks /\ fd.fill > 0
  BY <1>1, NextEntry DEF SeqPcs
<1>3. r \in Records
  <2>1. fd.fill \in 1 .. PagesPerBlock
    BY <1>2, DescriptorTypes, Sizes
  <2> QED
    BY <1>2, <2>1 DEF Record, Records, TypeOK, Descriptors
<1>4. r.block = fd.data /\ r.fill = fd.fill /\ r.off = fd.off /\ r.size = fd.size
  BY DEF Record
<1> HIDE DEF r
<1> DEFINE old == fse[fd.seq][fd.next]
<1>a. fse \in [Blocks -> [SeqIdx -> SeqEntry]]
  BY DEF TypeOK, SeqEntry
<1>b. old \in SeqEntry
  BY <1>2, <1>a
<1>5. PICK x : /\ fse' = [fse EXCEPT ![fd.seq][fd.next] = [old EXCEPT !.data = x]]
               /\ \/ x \in {r, Damaged} /\ unnoticed' = unnoticed
                  \/ x = old.data /\ unnoticed' = TRUE
  <2>1. CASE fse' = fse /\ unnoticed' = TRUE
    <3>1. [old EXCEPT !.data = old.data] = old
      BY <1>b DEF SeqEntry
    <3>2. fse = [fse EXCEPT ![fd.seq][fd.next] = old]
      BY <1>2, <1>a
    <3> QED
      BY <2>1, <3>1, <3>2
  <2>2. CASE /\ fse' = [fse EXCEPT ![fd.seq][fd.next].data = Over(@, r, Blank, Damaged)]
             /\ unnoticed' = unnoticed
    <3>1. Over(old.data, r, Blank, Damaged) \in {r, Damaged}
      BY DEF Over
    <3> QED
      BY <2>2, <3>1
  <2> QED
    BY <2>1, <2>2 DEF SeqWrite, r
<1>6. x \in Records \cup {Blank, Damaged} /\ unnoticed' \in BOOLEAN
  BY <1>3, <1>5, <1>b DEF TypeOK, SeqEntry
<1> DEFINE e == [old EXCEPT !.data = x]
<1>c. e \in SeqEntry /\ e.used = old.used /\ e.data = x /\ e.committed = old.committed
  BY <1>6, <1>b DEF SeqEntry
<1>d. \/ x \in {r, Damaged} /\ unnoticed' = unnoticed
      \/ x = old.data /\ unnoticed' = TRUE
  BY <1>5
<1> HIDE DEF e
<1>e. /\ fse' \in [Blocks -> [SeqIdx -> SeqEntry]]
      /\ \A b \in Blocks, i \in SeqIdx :
            fse'[b][i] = IF b = fd.seq /\ i = fd.next THEN e ELSE fse[b][i]
      /\ \A b \in Blocks : b # fd.seq => fse'[b] = fse[b]
  <2>1. fse' = [fse EXCEPT ![fd.seq][fd.next] = e]
    BY <1>5 DEF e
  <2> QED
    BY <1>2, <1>a, <1>c, <2>1, EntryUpdate
<1>7. \A b \in Blocks, i \in SeqIdx :
          /\ fse'[b][i].data = IF b = fd.seq /\ i = fd.next THEN x ELSE fse[b][i].data
          /\ fse'[b][i].committed <=> fse[b][i].committed
          /\ fse'[b][i].used <=> fse[b][i].used
  BY <1>c, <1>e DEF SeqEntry
<1>8. \A b \in Blocks, i \in SeqIdx :
          fse'[b][i].data \in {fse[b][i].data, r, Damaged}
  BY <1>d, <1>7
<1>9. ~Intact(Damaged)
  BY BlockNumbers
<1>10. TypeOK'
  BY <1>1, <1>6, <1>e DEF TypeOK, SeqEntry
<1>11. Pristine'
  <2>1. \A b \in Blocks : b >= fresh => b # fd.seq
    BY <1>2, BlockNumbers, DescriptorTypes
  <2>2. \A b \in Blocks, i \in SeqIdx :
            Intact(fse'[b][i].data) => fse'[b][i].data.block < fresh
    BY <1>2, <1>4, <1>8, <1>9 DEF Pristine, Intact
  <2> QED
    BY <1>1, <1>e, <2>1, <2>2 DEF Pristine
<1>12. RecordsSound'
  <2>1. r.off + r.fill = r.size /\ r.size <= wrote
        /\ \A p \in PageIdx : p < r.fill => page[r.block][p] # Erased
    BY <1>4, DescriptorTypes DEF DescriptorSound
  <2> QED
    BY <1>1, <1>8, <1>9, <2>1 DEF RecordsSound, Intact
<1>13. DescriptorSound' /\ LoopSound'
  BY <1>1, OpenUnchanged DEF DescriptorSound, LoopSound
<1>14. SeqInOrder'
  <2>1. ASSUME NEW b \in Blocks, NEW i \in SeqIdx, fse'[b][i].committed, NEW j \in 0 .. i
        PROVE  fse'[b][j].used
    <3>1. j \in SeqIdx
      BY Sizes DEF SeqIdx
    <3> QED
      BY <1>7, <2>1, <3>1 DEF SeqInOrder
  <2> QED
    BY <1>1, <1>2, <1>7, <2>1 DEF SeqInOrder, SeqPcs, TakePcs
<1>15. IndirInOrder' /\ Newest'
  BY <1>1, <1>7, OpenUnchanged DEF IndirInOrder, Newest, TakePcs
<1>16. Growing'
  <2>1. \A b \in Blocks, i \in SeqIdx : fse'[b][i].committed =>
            fse[b][i].committed /\ fse'[b][i].data = fse[b][i].data
    <3>1. ~fse[fd.seq][fd.next].committed
      BY <1>2, DescriptorTypes DEF SeqInOrder
    <3> QED
      BY <1>7, <3>1
  <2>2. unnoticed' \/ fse'[fd'.seq][fd'.next].data
                         \in {Damaged, Record(fd'.data, fd'.fill, fd'.off, fd'.size)}
    BY <1>1, <1>2, <1>7, <1>d DEF r
  <2> QED
    BY <1>1, <1>d, <2>1, <2>2, GrowingKept
<1> QED
  BY <1>10, <1>11, <1>12, <1>13, <1>14, <1>15, <1>16

\* The entry is marked committed.  It covers as much of its data block as the
\* descriptor, which is as much as any entry before it.
LEMMA SeqCommitInv == ASSUME FileInv, SeqCommit PROVE FileInv'
<1> USE DEF FileInv
<1>1. /\ pc = "seqCommit"
      /\ fd' = [fd EXCEPT !.next = @ + 1]
      /\ UNCHANGED <<dme, fie, link, page, fresh, buf, count, wrote, app, unnoticed>>
  BY DEF SeqCommit, ram
<1>2. /\ fd.open /\ fd.seq \in Blocks /\ fd.seq < fresh /\ fd.next \in SeqIdx
      /\ fd.next \in Nat /\ fd.next + 1 \in 0 .. SeqEntries /\ fd.data \in Blocks
  BY <1>1, NextEntry, Sizes DEF SeqPcs, SeqIdx
<1>3. /\ fd'.open = fd.open /\ fd'.indir = fd.indir /\ fd'.seq = fd.seq
      /\ fd'.next = fd.next + 1 /\ fd'.data = fd.data /\ fd'.fill = fd.fill
      /\ fd'.off = fd.off /\ fd'.size = fd.size /\ fd' \in Descriptors
  BY <1>1, <1>2 DEF TypeOK, Descriptors
<1> DEFINE old == fse[fd.seq][fd.next]
           e == [old EXCEPT !.committed = TRUE]
<1>a. fse \in [Blocks -> [SeqIdx -> SeqEntry]]
  BY DEF TypeOK, SeqEntry
<1>b. old \in SeqEntry
  BY <1>2, <1>a
<1>c. e \in SeqEntry /\ e.used = old.used /\ e.data = old.data /\ e.committed
  BY <1>b DEF SeqEntry
<1>d. fse' = [fse EXCEPT ![fd.seq][fd.next] = e]
  BY DEF SeqCommit
<1> HIDE DEF e
<1>e. /\ fse' \in [Blocks -> [SeqIdx -> SeqEntry]]
      /\ \A b \in Blocks, i \in SeqIdx :
            fse'[b][i] = IF b = fd.seq /\ i = fd.next THEN e ELSE fse[b][i]
      /\ \A b \in Blocks : b # fd.seq => fse'[b] = fse[b]
  BY <1>2, <1>a, <1>c, <1>d, EntryUpdate
<1>4. \A b \in Blocks, i \in SeqIdx :
          /\ fse'[b][i].data = fse[b][i].data
          /\ fse'[b][i].used <=> fse[b][i].used
          /\ fse'[b][i].committed <=> (b = fd.seq /\ i = fd.next) \/ fse[b][i].committed
  BY <1>c, <1>e DEF SeqEntry
<1>5. \/ /\ op.written + op.chunk < op.total
         /\ pc' = "chunk" /\ op' = [op EXCEPT !.written = op.written + op.chunk]
         /\ acked' = acked
      \/ /\ op.written + op.chunk = op.total
         /\ pc' = "idle" /\ op' = NoOp /\ acked' = app
  BY DEF SeqCommit
<1>6. op' \in Locals /\ op'.total \in {op.total, 0} /\ op'.seq \in {op.seq, None}
  <2>1. CASE op.written + op.chunk < op.total
             /\ op' = [op EXCEPT !.written = op.written + op.chunk]
    <3>1. op.written + op.chunk \in 0 .. PagesPerBlock
      BY <2>1, DescriptorTypes, Sizes
    <3> QED
      BY <2>1, <3>1 DEF TypeOK, Locals
  <2>2. CASE op' = NoOp
    BY <2>2, Sizes DEF NoOp, Locals, PageIdx, IndirIdx
  <2> QED
    BY <1>5, <2>1, <2>2
<1>7. TypeOK'
  BY <1>1, <1>3, <1>5, <1>6, <1>e DEF TypeOK, SeqEntry
<1>8. Pristine' /\ RecordsSound'
  <2>1. \A b \in Blocks : b >= fresh => b # fd.seq
    BY <1>2, BlockNumbers, DescriptorTypes
  <2>2. op'.seq < fresh'
    BY <1>1, <1>6, DescriptorTypes DEF Pristine, None
  <2>3. Pristine'
    BY <1>1, <1>3, <1>4, <1>e, <2>1, <2>2 DEF Pristine, Intact
  <2>4. RecordsSound'
    BY <1>1, <1>4 DEF RecordsSound, Intact
  <2> QED
    BY <2>3, <2>4
<1>9. DescriptorSound'
  BY <1>1, <1>2, <1>3, OpenUnchanged DEF DescriptorSound
<1>10. LoopSound'
  <2>1. /\ op.written + op.chunk + count = op.total /\ fd.data # None
        /\ \A p \in PageIdx : p < op.total => buf[p] # Erased
    BY <1>1 DEF LoopSound
  <2>2. CASE /\ op.written + op.chunk < op.total /\ pc' = "chunk"
             /\ op' = [op EXCEPT !.written = op.written + op.chunk]
    <3>1. op'.total = op.total /\ op'.written = op.written + op.chunk
      BY <2>2 DEF TypeOK, Locals
    <3>2. op'.written + count' = op'.total /\ count' > 0
      BY <1>1, <2>1, <2>2, <3>1, DescriptorTypes
    <3> QED
      BY <1>1, <1>3, <2>1, <2>2, <3>1, <3>2 DEF LoopSound
  <2>3. CASE op.written + op.chunk = op.total /\ pc' = "idle"
    <3>1. count' = 0
      BY <1>1, <2>1, <2>3, DescriptorTypes
    <3> QED
      BY <2>3, <3>1, Sizes DEF LoopSound, PageIdx
  <2> QED
    BY <1>5, <2>2, <2>3
<1>11. pc' \in {"chunk", "idle"}
  BY <1>5
<1>12. \A i \in SeqIdx : /\ i <= fd.next => fse[fd.seq][i].used
                         /\ i >= fd.next => ~fse[fd.seq][i].committed
  <2>1. \A i \in SeqIdx : i \in Nat
    BY Sizes DEF SeqIdx
  <2>2. \A i \in SeqIdx : i <= fd.next => i < fd.next \/ i = fd.next
    BY <1>2, <2>1
  <2> QED
    BY <1>1, <1>2, <2>2 DEF SeqInOrder
<1>13. SeqInOrder'
  <2>1. ASSUME NEW b \in Blocks, NEW i \in SeqIdx, fse'[b][i].committed, NEW j \in 0 .. i
        PROVE  fse'[b][j].used
    <3>1. j \in SeqIdx
      BY Sizes DEF SeqIdx
    <3>2. CASE b = fd.seq /\ i = fd.next
      <4>1. j <= fd.next
        BY <3>2, <1>2
      <4> QED
        BY <1>2, <1>4, <1>12, <3>1, <3>2, <4>1
    <3>3. CASE ~(b = fd.seq /\ i = fd.next)
      BY <1>4, <2>1, <3>1, <3>3 DEF SeqInOrder
    <3> QED
      BY <3>2, <3>3
  <2>2. \A i \in SeqIdx : /\ i < fd'.next => fse'[fd'.seq][i].used
                          /\ i >= fd'.next => ~fse'[fd'.seq][i].committed
    <3>1. \A i \in SeqIdx : /\ i < fd'.next => i <= fd.next
                            /\ i >= fd'.next => i >= fd.next /\ i # fd.next
      BY <1>2, <1>3, Sizes DEF SeqIdx
    <3> QED
      BY <1>2, <1>3, <1>4, <1>12, <3>1
  <2> QED
    BY <1>11, <2>1, <2>2 DEF SeqInOrder, SeqPcs, TakePcs
<1>14. IndirInOrder'
  BY <1>1, <1>3, <1>11, OpenUnchanged DEF IndirInOrder, TakePcs
<1>15. Newest'
  <2>1. \A b \in Blocks, i \in SeqIdx : fse'[b][i].committed => b <= fd.seq
    BY <1>2, <1>4, BlockNumbers DEF Newest
  <2> QED
    BY <1>1, <1>2, <1>3, <2>1, OpenUnchanged DEF Newest
<1>16. Growing'
  <2> SUFFICES ASSUME ~unnoticed PROVE Growing'
    BY <1>1 DEF Growing
  <2>1. Intact(fse[fd.seq][fd.next].data) =>
            /\ fse[fd.seq][fd.next].data.block = fd.data
            /\ fse[fd.seq][fd.next].data.fill = fd.fill
    BY <1>1, BlockNumbers DEF Growing, Record
  <2>2. \A b \in Blocks, i \in SeqIdx :
            /\ fse'[b][i].committed /\ Intact(fse'[b][i].data)
            /\ fse'[b][i].data.block = fd.data
            => fse'[b][i].data.fill <= fd.fill
    BY <1>2, <1>4, <2>1, DescriptorTypes DEF Growing
  <2>3. ASSUME NEW b \in Blocks, NEW c \in Blocks, NEW i \in SeqIdx, NEW j \in SeqIdx,
               fse'[b][i].committed, Intact(fse'[b][i].data),
               fse'[c][j].committed, Intact(fse'[c][j].data),
               fse'[b][i].data.block = fse'[c][j].data.block,
               b < c \/ (b = c /\ i <= j)
        PROVE  fse'[b][i].data.fill <= fse'[c][j].data.fill
    <3>1. CASE c = fd.seq /\ j = fd.next
      BY <1>2, <1>4, <2>1, <2>2, <2>3, <3>1
    <3>2. CASE b = fd.seq /\ i = fd.next /\ ~(c = fd.seq /\ j = fd.next)
      <4>1. fse[c][j].committed
        BY <1>4, <2>3, <3>2
      <4>2. c <= fd.seq
        BY <1>2, <4>1 DEF Newest
      <4>3. c = fd.seq /\ j >= fd.next
        BY <1>2, <2>3, <3>2, <4>2, BlockNumbers, Sizes DEF SeqIdx
      <4> QED
        BY <1>12, <4>1, <4>3
    <3>3. CASE ~(b = fd.seq /\ i = fd.next) /\ ~(c = fd.seq /\ j = fd.next)
      BY <1>4, <2>3, <3>3 DEF Growing
    <3> QED
      BY <3>1, <3>2, <3>3
  <2>4. pc' # "seqCommit"
    BY <1>11
  <2> QED
    BY <1>3, <2>2, <2>3, <2>4 DEF Growing
<1> QED
  BY <1>7, <1>8, <1>9, <1>10, <1>13, <1>14, <1>15, <1>16

IndirEntry == [used : BOOLEAN, committed : BOOLEAN, seq : Blocks \cup {None}]

\* When used entries come first, the valid ones are those that are committed.
LEMMA ValidAre ==
    ASSUME NEW e, \A i \in DOMAIN e : e[i].committed => \A j \in 0 .. i : e[j].used
    PROVE  Valid(e) = {i \in DOMAIN e : e[i].committed}
BY DEF Valid

LEMMA ValidIndirAre ==
    ASSUME TypeOK, IndirInOrder, NEW b \in Blocks
    PROVE  Valid(fie[b]) = {i \in IndirIdx : fie[b][i].committed}
<1>1. DOMAIN fie[b] = IndirIdx
  BY DEF TypeOK
<1>2. \A i \in IndirIdx : fie[b][i].committed => \A j \in 0 .. i : fie[b][j].used
  BY DEF IndirInOrder
<1> QED
  BY <1>1, <1>2, ValidAre

\* Entries of indirection blocks that are not valid do not change what an open finds.
LEMMA OpenKept ==
    ASSUME TypeOK, Pristine, UNCHANGED <<dme, link>>,
           \A b \in Blocks : Valid(fie'[b]) = Valid(fie[b]),
           \A b \in Blocks : \A i \in Valid(fie[b]) : fie'[b][i].seq = fie[b][i].seq
    PROVE  /\ Migrated' = Migrated /\ Chain' = Chain
           /\ CanOpen' <=> CanOpen
           /\ CanOpen => OpenedSeq' = OpenedSeq
<1>1. Migrated' = Migrated /\ Chain' = Chain
  BY DEF Migrated, Chain
<1> DEFINE b == LastInChain(Last(dme))
<1>2. b' = b /\ b \in Blocks
  BY <1>1, LastInChainIs DEF LastInChain
<1>3. CanOpen' <=> CanOpen
  BY <1>1, <1>2 DEF CanOpen
<1>4. ASSUME CanOpen, Migrated PROVE OpenedSeq' = OpenedSeq
  <2>1. Valid(fie[b]) # {} /\ DOMAIN fie[b] = 0 .. IndirEntries - 1 /\ IndirEntries \in Nat
    BY <1>2, <1>4, Sizes DEF CanOpen, TypeOK, IndirIdx
  <2>2. Max(Valid(fie[b])) \in Valid(fie[b])
    BY <2>1, LastValid
  <2>3. fie'[b][Max(Valid(fie'[b]))].seq = fie[b][Max(Valid(fie[b]))].seq
    BY <1>2, <2>2
  <2> QED
    BY <1>1, <1>2, <1>4, <2>3 DEF OpenedSeq
<1>5. ~Migrated => OpenedSeq' = OpenedSeq
  BY <1>1 DEF OpenedSeq
<1> QED
  BY <1>1, <1>3, <1>4, <1>5

\* The indirection entry that r2f2_fsync is making
LEMMA NextIndirEntry ==
    ASSUME FileInv, pc \in TakePcs
    PROVE  /\ fd.open /\ Migrated /\ fd.indir \in Blocks /\ fd.indir < fresh
           /\ op.slot \in IndirIdx /\ op.slot \in Nat
           /\ op.seq \in Blocks /\ op.seq < fresh /\ fd.seq < op.seq
           /\ ~fie[fd.indir][op.slot].committed /\ link[fd.indir] = None
           /\ fie \in [Blocks -> [IndirIdx -> IndirEntry]]
           /\ fie[fd.indir][op.slot] \in IndirEntry
<1> USE DEF FileInv
<1>1. fd.open /\ Migrated /\ fd.indir \in Blocks
  BY DescriptorTypes DEF TakePcs, IndirInOrder, DescriptorSound
<1>2. op.slot \in IndirIdx /\ op.slot \in Nat /\ fd.indir < fresh /\ op.seq < fresh
  BY DescriptorTypes, Sizes DEF IndirIdx, Pristine
<1>3. fd.seq < op.seq /\ op.seq \in Blocks
  <2>1. op.seq \in Blocks \cup {None} /\ fd.seq \in Nat /\ fd.seq < op.seq
    BY LinkTypes DEF SeqInOrder, TypeOK, Locals
  <2> QED
    BY <2>1 DEF None
<1>4. ~fie[fd.indir][op.slot].committed /\ link[fd.indir] = None
  BY DEF IndirInOrder
<1>5. fie \in [Blocks -> [IndirIdx -> IndirEntry]]
  BY DEF TypeOK, IndirEntry
<1> QED
  BY <1>1, <1>2, <1>3, <1>4, <1>5

\* The entry is marked used, or written.
LEMMA IndirEntryInv == ASSUME FileInv, IndirUse \/ IndirWrite PROVE FileInv'
<1> USE DEF FileInv
<1> DEFINE old == fie[fd.indir][op.slot]
<1>1. /\ pc \in TakePcs /\ pc \in {"indirUse", "indirWrite"}
      /\ pc' = IF pc = "indirUse" THEN "indirWrite" ELSE "indirCommit"
      /\ UNCHANGED <<dme, fse, link, page, fresh, fd, buf, count, op, wrote, app, acked,
                     unnoticed>>
  BY DEF IndirUse, IndirWrite, TakePcs, ram, ghosts
<1>2. /\ fd.open /\ Migrated /\ fd.indir \in Blocks /\ fd.indir < fresh
      /\ op.slot \in IndirIdx /\ op.slot \in Nat
      /\ op.seq \in Blocks /\ op.seq < fresh
      /\ fie \in [Blocks -> [IndirIdx -> IndirEntry]] /\ old \in IndirEntry
      /\ ~old.committed
  BY <1>1, NextIndirEntry
<1>3. PICK e \in IndirEntry :
          /\ fie' = [fie EXCEPT ![fd.indir][op.slot] = e]
          /\ e.used /\ ~e.committed /\ e.seq \in {old.seq, op.seq}
          /\ pc = "indirWrite" => e.seq = op.seq
  <2>1. CASE pc = "indirUse"
    <3>1. fie' = [fie EXCEPT ![fd.indir][op.slot] = [old EXCEPT !.used = TRUE]]
      BY <2>1 DEF IndirUse, IndirWrite
    <3>2. [old EXCEPT !.used = TRUE] \in IndirEntry
      BY <1>2 DEF IndirEntry
    <3> QED
      BY <1>2, <2>1, <3>1, <3>2 DEF IndirEntry
  <2>2. CASE pc = "indirWrite"
    <3>1. fie' = [fie EXCEPT ![fd.indir][op.slot] = [old EXCEPT !.seq = op.seq]]
      BY <2>2 DEF IndirUse, IndirWrite
    <3>2. [old EXCEPT !.seq = op.seq] \in IndirEntry
      BY <1>2 DEF IndirEntry
    <3>3. old.used
      BY <1>1, <2>2 DEF IndirInOrder
    <3> QED
      BY <1>2, <2>2, <3>1, <3>2, <3>3 DEF IndirEntry
  <2> QED
    BY <1>1, <2>1, <2>2
<1>4. /\ fie' \in [Blocks -> [IndirIdx -> IndirEntry]]
      /\ \A b \in Blocks, i \in IndirIdx :
            fie'[b][i] = IF b = fd.indir /\ i = op.slot THEN e ELSE fie[b][i]
      /\ \A b \in Blocks : b # fd.indir => fie'[b] = fie[b]
  BY <1>2, <1>3, EntryUpdate
<1>5. /\ e.used /\ ~e.committed /\ e.seq \in {old.seq, op.seq}
      /\ pc = "indirWrite" => e.seq = op.seq
  BY <1>3
<1>6. \A b \in Blocks, i \in IndirIdx :
          /\ fie'[b][i].committed <=> fie[b][i].committed
          /\ fie[b][i].committed => fie'[b][i].seq = fie[b][i].seq
          /\ fie'[b][i].used <=> (b = fd.indir /\ i = op.slot) \/ fie[b][i].used
  BY <1>2, <1>4, <1>5
<1>7. TypeOK'
  BY <1>1, <1>4 DEF TypeOK, IndirEntry
<1>8. Pristine'
  <2>1. \A b \in Blocks : b >= fresh => b # fd.indir
    BY <1>2, BlockNumbers, DescriptorTypes
  <2>2. \A b \in Blocks, i \in IndirIdx : fie'[b][i].seq < fresh
    BY <1>2, <1>4, <1>5 DEF Pristine
  <2> QED
    BY <1>1, <1>4, <2>1, <2>2 DEF Pristine
<1>9. RecordsSound' /\ LoopSound' /\ SeqInOrder'
  BY <1>1 DEF RecordsSound, LoopSound, SeqInOrder, TakePcs, SeqPcs
<1>10. \A i \in IndirIdx : /\ i < op.slot => fie[fd.indir][i].used
                           /\ i > op.slot => ~fie[fd.indir][i].used
  BY <1>1 DEF IndirInOrder
<1>11. \A b \in Blocks, i \in IndirIdx : fie'[b][i].used => \A j \in 0 .. i : fie'[b][j].used
  <2> SUFFICES ASSUME NEW b \in Blocks, NEW i \in IndirIdx, fie'[b][i].used, NEW j \in 0 .. i
               PROVE  fie'[b][j].used
    OBVIOUS
  <2>1. j \in IndirIdx /\ j \in Nat /\ i \in Nat /\ j <= i
    BY Sizes DEF IndirIdx
  <2>2. CASE b = fd.indir /\ i = op.slot
    <3>1. j < op.slot \/ j = op.slot
      BY <2>1, <2>2
    <3> QED
      BY <1>2, <1>6, <1>10, <2>1, <2>2, <3>1
  <2>3. CASE ~(b = fd.indir /\ i = op.slot)
    BY <1>6, <2>1, <2>3 DEF IndirInOrder
  <2> QED
    BY <2>2, <2>3
<1>12. \A b \in Blocks, i \in IndirIdx :
          /\ fie'[b][i].committed => fie'[b][i].used /\ fie'[b][i].seq # None
          /\ link[b] # None => fie'[b][i].used
  BY <1>6 DEF IndirInOrder
<1>13. /\ Migrated' = Migrated /\ Chain' = Chain
       /\ CanOpen' <=> CanOpen
       /\ CanOpen => OpenedSeq' = OpenedSeq
  <2>1. \A b \in Blocks : Valid(fie'[b]) = Valid(fie[b])
    <3> SUFFICES ASSUME NEW b \in Blocks PROVE Valid(fie'[b]) = Valid(fie[b])
      OBVIOUS
    <3>1. DOMAIN fie'[b] = IndirIdx
      BY <1>4
    <3>2. Valid(fie'[b]) = {i \in IndirIdx : fie'[b][i].committed}
      BY <1>11, <1>12, <3>1, ValidAre
    <3> QED
      BY <1>6, <3>2, ValidIndirAre
  <2>2. \A b \in Blocks : \A i \in Valid(fie[b]) : fie'[b][i].seq = fie[b][i].seq
    BY <1>6, ValidIndirAre
  <2> QED
    BY <1>1, <2>1, <2>2, OpenKept
<1>14. DescriptorSound'
  BY <1>1, <1>13 DEF DescriptorSound, TakePcs
<1>15. Newest'
  BY <1>1, <1>13 DEF Newest
<1>16. IndirInOrder'
  <2>1. /\ ~fie'[fd.indir][op.slot].committed /\ fie'[fd.indir][op.slot].used
        /\ pc' = "indirCommit" => fie'[fd.indir][op.slot].seq = op.seq
    BY <1>1, <1>2, <1>4, <1>5
  <2>2. \A i \in IndirIdx : /\ i < op.slot => fie'[fd.indir][i].used
                            /\ i > op.slot => ~fie'[fd.indir][i].used
    BY <1>2, <1>6, <1>10 DEF IndirIdx
  <2>3. fd.indir \in Chain'[Last(dme)] /\ Migrated' /\ link[fd.indir] = None
    BY <1>1, <1>2, <1>13 DEF IndirInOrder
  <2> QED
    BY <1>1, <1>11, <1>12, <2>1, <2>2, <2>3 DEF IndirInOrder
<1>17. Growing'
  BY <1>1, GrowingKept
<1> QED
  BY <1>7, <1>8, <1>9, <1>14, <1>15, <1>16, <1>17

\* What an open finds in a file whose last indirection block is b, with i its last
\* committed entry
LEMMA OpenFinds ==
    ASSUME TypeOK, Pristine, Migrated, NEW b \in Chain[Last(dme)], link[b] = None,
           NEW i \in Valid(fie[b]), \A j \in Valid(fie[b]) : j <= i
    PROVE  OpenedSeq = fie[b][i].seq
<1>1. LastInChain(Last(dme)) = b /\ b \in Blocks
  <2>1. Last(dme) \in Blocks /\ link \in Links
    BY LastInChainIs, LinksAscend
  <2>2. Chain[Last(dme)] = From(link, Last(dme)) /\ From(link, Last(dme)) \subseteq Blocks
    BY <2>1, ChainNow, FromContains
  <2>3. Max(From(link, Last(dme))) = b
    BY <2>1, <2>2, LastIs
  <2> QED
    BY <2>2, <2>3 DEF LastInChain
<1>2. DOMAIN fie[b] = 0 .. IndirEntries - 1 /\ IndirEntries \in Nat
  BY <1>1, Sizes DEF TypeOK, IndirIdx
<1>3. Max(Valid(fie[b])) = i
  BY <1>2, LastValidIs
<1> QED
  BY <1>1, <1>3 DEF OpenedSeq

\* The entry is marked committed: the descriptor is for the new sequence block, and
\* so is what an open finds.
LEMMA IndirCommitInv == ASSUME FileInv, IndirCommit PROVE FileInv'
<1> USE DEF FileInv
<1> DEFINE old == fie[fd.indir][op.slot]
           e == [old EXCEPT !.committed = TRUE]
<1>1. /\ pc = "indirCommit" /\ pc' = "seqUse"
      /\ UNCHANGED <<dme, fse, link, page, fresh, buf, count, wrote, app, acked, unnoticed>>
  BY DEF IndirCommit, ghosts
<1>2. /\ fd.open /\ Migrated /\ fd.indir \in Blocks /\ fd.indir < fresh
      /\ op.slot \in IndirIdx /\ op.slot \in Nat
      /\ op.seq \in Blocks /\ op.seq < fresh /\ fd.seq < op.seq
      /\ fie \in [Blocks -> [IndirIdx -> IndirEntry]] /\ old \in IndirEntry
      /\ ~old.committed /\ link[fd.indir] = None
  BY <1>1, NextIndirEntry DEF TakePcs
<1>3. old.used /\ old.seq = op.seq
  BY <1>1, <1>2 DEF IndirInOrder, TakePcs
<1>4. e \in IndirEntry /\ e.used /\ e.committed /\ e.seq = op.seq
  BY <1>2, <1>3 DEF IndirEntry
<1>5. fie' = [fie EXCEPT ![fd.indir][op.slot] = e]
  BY DEF IndirCommit
<1> HIDE DEF e
<1>6. /\ fie' \in [Blocks -> [IndirIdx -> IndirEntry]]
      /\ \A b \in Blocks, i \in IndirIdx :
            fie'[b][i] = IF b = fd.indir /\ i = op.slot THEN e ELSE fie[b][i]
      /\ \A b \in Blocks : b # fd.indir => fie'[b] = fie[b]
  BY <1>2, <1>4, <1>5, EntryUpdate
<1>7. /\ fd' = [fd EXCEPT !.seq = op.seq, !.next = 0]
      /\ op' = [op EXCEPT !.seq = None, !.slot = 0]
  BY DEF IndirCommit
<1>8. /\ fd'.open = fd.open /\ fd'.indir = fd.indir /\ fd'.seq = op.seq
      /\ fd'.next = 0 /\ fd'.data = fd.data /\ fd'.fill = fd.fill
      /\ fd'.off = fd.off /\ fd'.size = fd.size /\ fd' \in Descriptors
  <2>1. 0 \in 0 .. SeqEntries /\ fd \in Descriptors
    BY Sizes DEF TypeOK
  <2> QED
    BY <1>2, <1>7, <2>1 DEF Descriptors
<1>9. /\ op'.total = op.total /\ op'.written = op.written /\ op'.chunk = op.chunk
      /\ op'.seq = None /\ op' \in Locals
  <2>1. 0 \in IndirIdx
    BY Sizes DEF IndirIdx
  <2> QED
    BY <1>7, <2>1 DEF TypeOK, Locals
<1>10. \A b \in Blocks, i \in IndirIdx :
          /\ fie'[b][i].committed <=> (b = fd.indir /\ i = op.slot) \/ fie[b][i].committed
          /\ fie'[b][i].seq = fie[b][i].seq
          /\ fie'[b][i].used <=> fie[b][i].used
  BY <1>2, <1>3, <1>4, <1>6
<1>11. TypeOK'
  BY <1>1, <1>6, <1>8, <1>9 DEF TypeOK, IndirEntry
<1>12. Pristine'
  <2>1. \A b \in Blocks : b >= fresh => b # fd.indir
    BY <1>2, BlockNumbers, DescriptorTypes
  <2>2. \A b \in Blocks, i \in IndirIdx : fie'[b][i].seq < fresh
    BY <1>10 DEF Pristine
  <2>3. None < fresh
    BY DescriptorTypes DEF None
  <2> QED
    BY <1>1, <1>2, <1>6, <1>8, <1>9, <2>1, <2>2, <2>3 DEF Pristine
<1>13. RecordsSound'
  BY <1>1 DEF RecordsSound
<1>14. Migrated' /\ Chain' = Chain
  BY <1>1, <1>2 DEF Migrated, Chain
<1>15. DescriptorSound'
  BY <1>1, <1>2, <1>8, <1>14, BlockNumbers DEF DescriptorSound
<1>16. LoopSound'
  BY <1>1, <1>8, <1>9 DEF LoopSound
<1>17. SeqInOrder'
  <2>1. \A i \in SeqIdx : ~fse[op.seq][i].committed /\ ~(i < 0)
    BY <1>1, Sizes DEF SeqInOrder, TakePcs, SeqIdx
  <2> QED
    BY <1>1, <1>8, <2>1, Sizes DEF SeqInOrder, TakePcs, SeqPcs
<1>18. /\ \A b \in Blocks, i \in IndirIdx :
             /\ fie'[b][i].committed => fie'[b][i].used /\ fie'[b][i].seq # None
             /\ link[b] # None => fie'[b][i].used
       /\ \A b \in Blocks, i \in IndirIdx :
             fie'[b][i].used => \A j \in 0 .. i : fie'[b][j].used
  <2>1. op.seq # None
    BY <1>2, BlockNumbers
  <2>2. \A b \in Blocks, i \in IndirIdx :
             /\ fie'[b][i].committed => fie'[b][i].used /\ fie'[b][i].seq # None
             /\ link[b] # None => fie'[b][i].used
    BY <1>3, <1>10, <2>1 DEF IndirInOrder
  <2>3. ASSUME NEW b \in Blocks, NEW i \in IndirIdx, fie'[b][i].used, NEW j \in 0 .. i
        PROVE  fie'[b][j].used
    <3>1. j \in IndirIdx
      BY Sizes DEF IndirIdx
    <3> QED
      BY <1>10, <2>3, <3>1 DEF IndirInOrder
  <2> QED
    BY <2>2, <2>3
<1>19. fd.indir \in Chain[Last(dme)]
  BY <1>2 DEF IndirInOrder
<1>20. IndirInOrder'
  BY <1>1, <1>8, <1>14, <1>18, <1>19 DEF IndirInOrder, TakePcs
<1>21. OpenedSeq' = op.seq
  <2>1. Valid(fie'[fd.indir]) = {i \in IndirIdx : fie'[fd.indir][i].committed}
    <3>1. DOMAIN fie'[fd.indir] = IndirIdx
      BY <1>2, <1>6
    <3> QED
      BY <1>2, <1>18, <3>1, ValidAre
  <2>2. op.slot \in Valid(fie'[fd.indir])
    BY <1>2, <1>10, <2>1
  <2>3. \A i \in IndirIdx : i > op.slot => ~fie'[fd.indir][i].committed
    <3>1. \A i \in IndirIdx : i > op.slot => ~fie[fd.indir][i].used
      BY <1>1 DEF IndirInOrder, TakePcs
    <3> QED
      BY <1>2, <1>10, <1>18, <3>1
  <2>4. \A i \in Valid(fie'[fd.indir]) : i <= op.slot
    BY <1>2, <2>1, <2>3, Sizes DEF IndirIdx
  <2>5. fd.indir \in Chain'[Last(dme)'] /\ link'[fd.indir] = None
    BY <1>1, <1>2, <1>14, <1>19
  <2>6. OpenedSeq' = fie'[fd.indir][op.slot].seq
    <3>1. LastInChain(Last(dme))' = fd.indir
      <4>1. Last(dme) \in Blocks /\ link \in Links
        BY LastInChainIs, LinksAscend
      <4>2. Max(From(link, Last(dme))) = fd.indir
        BY <1>2, <1>19, <4>1, ChainNow, LastIs
      <4> QED
        BY <1>1, <1>14, <4>1, <4>2, ChainNow DEF LastInChain
    <3>2. Max(Valid(fie'[fd.indir])) = op.slot
      <4>1. DOMAIN fie'[fd.indir] = 0 .. IndirEntries - 1 /\ IndirEntries \in Nat
        BY <1>2, <1>6, Sizes DEF IndirIdx
      <4> QED
        BY <2>2, <2>4, <4>1, LastValidIs
    <3> QED
      BY <1>14, <3>1, <3>2 DEF OpenedSeq
  <2> QED
    BY <1>2, <1>3, <1>10, <2>6
<1>22. Newest'
  <2>1. \A b \in Blocks, i \in SeqIdx : fse[b][i].committed => b <= op.seq
    BY <1>2, BlockNumbers, LinkTypes DEF Newest
  <2> QED
    BY <1>1, <1>8, <1>21, <2>1 DEF Newest
<1>23. Growing'
  BY <1>1, <1>8, GrowingKept
<1> QED
  BY <1>11, <1>12, <1>13, <1>15, <1>16, <1>17, <1>20, <1>22, <1>23

\* A second element behind the first
LEMMA SecondAppended ==
    ASSUME NEW S, NEW s \in Seq(S), NEW x \in S, NEW t, Len(s) = 1, t = Append(s, x)
    PROVE  t \in Seq(S) /\ Len(t) = 2 /\ t[1] = s[1] /\ t[2] = x
<1>1. Append(s, x) \in Seq(S)
  BY AppendProperties
<1>2. Len(Append(s, x)) = Len(s) + 1
  BY AppendProperties
<1>3. \A i \in 1 .. Len(s) : Append(s, x)[i] = s[i]
  BY AppendProperties
<1>4. Append(s, x)[Len(s) + 1] = x
  BY AppendProperties
<1>5. /\ t \in Seq(S) /\ Len(t) = Len(s) + 1 /\ t[Len(s) + 1] = x
      /\ \A i \in 1 .. Len(s) : t[i] = s[i]
  BY <1>1, <1>2, <1>3, <1>4, Zenon
<1> QED
  BY <1>5

\* An indirection block for the full sequence block, and the directory entry's second
\* pointer
LEMMA MigrateInv == ASSUME FileInv, Migrate PROVE FileInv'
<1> USE DEF FileInv
<1>1. /\ pc = "meta" /\ fd.indir = None
      /\ UNCHANGED <<fse, link, page, buf, count, pc, op, wrote, app, acked, unnoticed>>
  BY DEF Migrate, ghosts
<1> DEFINE e == [used |-> TRUE, committed |-> TRUE, seq |-> fd.seq]
<1>2. PICK n \in Blocks : /\ Allocate(n) /\ dme' = Append(dme, n)
                          /\ fie' = [fie EXCEPT ![n][0] = e]
                          /\ fd' = [fd EXCEPT !.indir = n]
  BY DEF Migrate
<1>3. fd.open /\ ~Migrated /\ fd.seq \in Blocks /\ fd.seq < fresh
  BY <1>1, DescriptorTypes DEF DescriptorSound, LoopSound, Pristine
<1>4. /\ n = fresh /\ fresh' = fresh + 1 /\ fresh' \in 2 .. NumBlocks + 1
      /\ fresh \in Nat /\ fresh > 1 /\ fie[n] = BlankIndirBlock /\ link[n] = None
  BY <1>2, AllocatedBlock
<1>5. /\ dme' \in [1 .. 2 -> Blocks] /\ Len(dme') = 2 /\ dme'[1] = dme[1]
      /\ dme'[2] = n /\ Last(dme') = n
  <2>1. dme \in Seq(Blocks) /\ Len(dme) = 1
    BY <1>3, DmeFacts DEF Migrated, TypeOK
  <2>2. /\ dme' \in Seq(Blocks) /\ Len(dme') = 2 /\ dme'[1] = dme[1] /\ dme'[2] = n
    <3>1. dme' = Append(dme, n)
      BY <1>2
    <3> QED
      BY <2>1, <3>1, SecondAppended
  <2>3. DOMAIN dme' = 1 .. 2
    BY <2>2, LenProperties
  <2>4. dme' \in [1 .. 2 -> Blocks]
    BY <2>2, <2>3, ElementOfSeq
  <2> QED
    BY <2>2, <2>4 DEF Last
<1>6. /\ fd'.open = fd.open /\ fd'.indir = n /\ fd'.seq = fd.seq
      /\ fd'.next = fd.next /\ fd'.data = fd.data /\ fd'.fill = fd.fill
      /\ fd'.off = fd.off /\ fd'.size = fd.size /\ fd' \in Descriptors
  BY <1>2 DEF TypeOK, Descriptors
<1>7. 0 \in IndirIdx /\ e \in IndirEntry /\ fie \in [Blocks -> [IndirIdx -> IndirEntry]]
  BY <1>3, Sizes DEF IndirIdx, IndirEntry, TypeOK
<1>8. e.used /\ e.committed /\ e.seq = fd.seq
  OBVIOUS
<1> HIDE DEF e
<1>9. /\ fie' \in [Blocks -> [IndirIdx -> IndirEntry]]
      /\ \A b \in Blocks, i \in IndirIdx :
            fie'[b][i] = IF b = n /\ i = 0 THEN e ELSE fie[b][i]
      /\ \A b \in Blocks : b # n => fie'[b] = fie[b]
  BY <1>2, <1>7, EntryUpdate
<1>10. \A i \in IndirIdx : ~fie[n][i].used /\ ~fie[n][i].committed /\ fie[n][i].seq = None
  BY <1>4 DEF BlankIndirBlock
<1>11. TypeOK'
  BY <1>1, <1>4, <1>5, <1>6, <1>9 DEF TypeOK, IndirEntry
<1>12. Pristine'
  <2>1. \A b \in Blocks : b >= fresh' => b >= fresh /\ b # n
    BY <1>4, BlockNumbers
  <2>2. \A i \in DOMAIN dme' : dme'[i] < fresh'
    <3>1. DOMAIN dme' = 1 .. 2
      BY <1>5
    <3>2. dme[1] < fresh /\ dme[1] \in Blocks
      BY <1>3, DmeFacts DEF Pristine, Migrated, TypeOK
    <3>3. dme[1] < fresh'
      <4>1. dme[1] \in Nat
        BY <3>2, BlockNumbers
      <4>2. fresh' = fresh + 1 /\ fresh \in Nat
        BY <1>4
      <4> QED
        BY <3>2, <4>1, <4>2
    <3>4. n < fresh'
      BY <1>4
    <3>5. dme'[1] < fresh' /\ dme'[2] < fresh'
      BY <1>5, <3>3, <3>4, Zenon
    <3> QED
      BY <3>1, <3>5
  <2>3. \A b \in Blocks, i \in IndirIdx : fie'[b][i].seq < fresh'
    BY <1>3, <1>4, <1>8, <1>9, LinkTypes DEF Pristine
  <2>4. \A b \in Blocks : link[b] # None => b < link[b] /\ link[b] < fresh'
    BY <1>4, LinkTypes DEF Pristine
  <2>5. \A b \in Blocks, i \in SeqIdx :
          Intact(fse[b][i].data) => fse[b][i].data.block < fresh'
    BY <1>4, LinkTypes DEF Pristine
  <2>6. fd.seq < fresh' /\ fd.data < fresh' /\ op.seq < fresh' /\ n < fresh'
    BY <1>4, LinkTypes DEF Pristine
  <2>7. \A b \in Blocks : b >= fresh' =>
          /\ fse[b] = BlankSeqBlock /\ fie'[b] = BlankIndirBlock
          /\ page[b] = BlankPages /\ link[b] = None
    BY <1>9, <2>1 DEF Pristine
  <2> QED
    BY <1>1, <1>6, <2>2, <2>3, <2>4, <2>5, <2>6, <2>7
    DEF Pristine, BlankSeqBlock, BlankIndirBlock, BlankPages, Intact
<1>13. RecordsSound' /\ LoopSound'
  BY <1>1, <1>6 DEF RecordsSound, LoopSound
<1>14. Migrated' /\ n \in Blocks /\ n # None
  BY <1>5, BlockNumbers DEF Migrated
<1>15. DescriptorSound'
  BY <1>1, <1>3, <1>6, <1>14, BlockNumbers DEF DescriptorSound
<1>16. SeqInOrder'
  BY <1>1, <1>6 DEF SeqInOrder, SeqPcs, TakePcs
<1>17. Chain'[n] = From(link, n) /\ n \in From(link, n) /\ link \in Links
  <2>1. link' \in Links /\ link \in Links
    BY <1>1, LinksAscend
  <2> QED
    BY <1>1, <2>1, ChainNext, FromContains
<1>18. /\ \A b \in Blocks, i \in IndirIdx :
             /\ fie'[b][i].committed => fie'[b][i].used /\ fie'[b][i].seq # None
             /\ link[b] # None => fie'[b][i].used
       /\ \A b \in Blocks, i \in IndirIdx :
             fie'[b][i].used => \A j \in 0 .. i : fie'[b][j].used
  <2>1. \A b \in Blocks, i \in IndirIdx :
             /\ fie'[b][i].committed => fie'[b][i].used /\ fie'[b][i].seq # None
             /\ link[b] # None => fie'[b][i].used
    BY <1>3, <1>4, <1>8, <1>9, BlockNumbers DEF IndirInOrder
  <2>2. ASSUME NEW b \in Blocks, NEW i \in IndirIdx, fie'[b][i].used, NEW j \in 0 .. i
        PROVE  fie'[b][j].used
    <3>1. CASE b = n
      <4>1. i = 0 /\ j = 0
        BY <1>9, <1>10, <2>2, <3>1
      <4> QED
        BY <2>2, <4>1
    <3>2. CASE b # n
      BY <1>9, <2>2, <3>2 DEF IndirInOrder
    <3> QED
      BY <3>1, <3>2
  <2> QED
    BY <2>1, <2>2
<1>19. IndirInOrder'
  BY <1>1, <1>5, <1>6, <1>14, <1>17, <1>18 DEF IndirInOrder, TakePcs
<1>20. OpenedSeq' = fd.seq
  <2>1. LastInChain(Last(dme))' = n
    <3>1. Max(From(link, n)) = n
      BY <1>4, <1>17, LastIs
    <3> QED
      BY <1>5, <1>17, <3>1 DEF LastInChain
  <2>2. Valid(fie'[n]) = {0}
    <3>1. DOMAIN fie'[n] = IndirIdx
      BY <1>9
    <3>2. Valid(fie'[n]) = {i \in IndirIdx : fie'[n][i].committed}
      BY <1>18, <3>1, ValidAre
    <3> QED
      BY <1>7, <1>8, <1>9, <1>10, <3>2
  <2>3. Max(Valid(fie'[n])) = 0
    BY <2>2, GreatestIs
  <2> QED
    BY <1>7, <1>8, <1>9, <1>14, <2>1, <2>3 DEF OpenedSeq
<1>21. Newest'
  BY <1>1, <1>3, <1>6, <1>20 DEF Newest
<1>22. Growing'
  BY <1>1, <1>6, GrowingKept
<1> QED
  BY <1>11, <1>12, <1>13, <1>15, <1>16, <1>19, <1>21, <1>22

\* The next block of the chain, which has no valid entry yet: until it does, nothing
\* can be opened.
LEMMA ExtendChainInv == ASSUME FileInv, ExtendChain PROVE FileInv'
<1> USE DEF FileInv
<1>1. /\ pc = "slot" /\ pc' = "indirUse" /\ FreeIndir = {} /\ link[fd.indir] = None
      /\ op' = [op EXCEPT !.slot = 0]
      /\ UNCHANGED <<dme, fse, fie, page, buf, count, wrote, app, acked, unnoticed>>
  BY DEF ExtendChain, ghosts
<1>2. PICK n \in Blocks : /\ Allocate(n) /\ link' = [link EXCEPT ![fd.indir] = n]
                          /\ fd' = [fd EXCEPT !.indir = n]
  BY DEF ExtendChain
<1>3. fd.open /\ Migrated /\ fd.indir \in Blocks /\ fd.indir < fresh
  BY <1>1, DescriptorTypes DEF DescriptorSound, LoopSound, Pristine, IndirInOrder
<1>4. /\ n = fresh /\ fresh' = fresh + 1 /\ fresh' \in 2 .. NumBlocks + 1
      /\ fresh \in Nat /\ fresh > 1 /\ fie[n] = BlankIndirBlock /\ link[n] = None
  BY <1>2, AllocatedBlock
<1>5. /\ fd'.open = fd.open /\ fd'.indir = n /\ fd'.seq = fd.seq
      /\ fd'.next = fd.next /\ fd'.data = fd.data /\ fd'.fill = fd.fill
      /\ fd'.off = fd.off /\ fd'.size = fd.size /\ fd' \in Descriptors
  BY <1>2 DEF TypeOK, Descriptors
<1>6. 0 \in IndirIdx
  BY Sizes DEF IndirIdx
<1>7. /\ op' \in Locals /\ op'.slot = 0 /\ op'.total = op.total /\ op'.written = op.written
      /\ op'.chunk = op.chunk /\ op'.seq = op.seq
  BY <1>1, <1>6 DEF TypeOK, Locals
<1>8. /\ link' \in [Blocks -> Blocks \cup {None}]
      /\ \A b \in Blocks : link'[b] = IF b = fd.indir THEN n ELSE link[b]
  BY <1>2, <1>3 DEF TypeOK
<1>9. TypeOK'
  BY <1>1, <1>4, <1>5, <1>7, <1>8 DEF TypeOK
<1>10. Pristine'
  <2>1. \A b \in Blocks : b >= fresh' => b >= fresh /\ b # fd.indir
    BY <1>3, <1>4, BlockNumbers
  <2>2. \A i \in DOMAIN dme : dme[i] < fresh'
    BY <1>4, LinkTypes DEF Pristine
  <2>3. \A b \in Blocks, i \in IndirIdx : fie[b][i].seq < fresh'
    BY <1>4, LinkTypes DEF Pristine
  <2>4. \A b \in Blocks : link'[b] # None => b < link'[b] /\ link'[b] < fresh'
    BY <1>3, <1>4, <1>8, LinkTypes DEF Pristine
  <2>5. \A b \in Blocks, i \in SeqIdx :
          Intact(fse[b][i].data) => fse[b][i].data.block < fresh'
    BY <1>4, LinkTypes DEF Pristine
  <2>6. fd.seq < fresh' /\ fd.data < fresh' /\ op.seq < fresh' /\ n < fresh'
    BY <1>4, LinkTypes DEF Pristine
  <2>7. \A b \in Blocks : b >= fresh' =>
          /\ fse[b] = BlankSeqBlock /\ fie[b] = BlankIndirBlock
          /\ page[b] = BlankPages /\ link'[b] = None
    BY <1>8, <2>1 DEF Pristine
  <2> QED
    BY <1>1, <1>5, <1>7, <2>2, <2>3, <2>4, <2>5, <2>6, <2>7
    DEF Pristine, BlankSeqBlock, BlankIndirBlock, BlankPages, Intact
<1>11. RecordsSound' /\ LoopSound'
  BY <1>1, <1>5, <1>7 DEF RecordsSound, LoopSound
<1>12. Migrated' /\ n # None /\ Last(dme) \in Blocks
  BY <1>1, <1>3, BlockNumbers, LastInChainIs DEF Migrated
<1>13. DescriptorSound'
  BY <1>1, <1>3, <1>5, <1>12 DEF DescriptorSound
<1>14. SeqInOrder'
  BY <1>1, <1>5, <1>7 DEF SeqInOrder, SeqPcs, TakePcs
<1>15. /\ n \in From(link', Last(dme)) /\ link' \in Links
       /\ Chain'[Last(dme)] = From(link', Last(dme)) /\ link'[n] = None
  <2>1. link \in Links /\ link' \in Links
    BY <1>9, <1>10, LinksAscend DEF TypeOK, Pristine, Links
  <2>2. fd.indir \in From(link, Last(dme))
    BY <1>3, <1>12, <2>1, ChainNow DEF IndirInOrder
  <2>3. n \in From(link', Last(dme))
    <3>1. link[fd.indir] = None /\ link' = [link EXCEPT ![fd.indir] = n]
      BY <1>1, <1>2
    <3>2. ASSUME NEW x \in From(link, Last(dme)), link[x] = None,
                 NEW g \in Links, g = [link EXCEPT ![x] = n]
          PROVE  n \in From(g, Last(dme))
      BY <1>12, <2>1, <3>2, FromGrows
    <3> QED
      BY <2>1, <2>2, <3>1, <3>2
  <2>4. link'[n] = None
    BY <1>3, <1>4, <1>8
  <2> QED
    BY <1>12, <2>1, <2>3, <2>4, ChainNext
<1>16. IndirInOrder'
  <2>1. \A i \in IndirIdx : fie[fd.indir][i].used
    BY <1>1 DEF FreeIndir
  <2>2. \A b \in Blocks, i \in IndirIdx : link'[b] # None => fie[b][i].used
    BY <1>8, <2>1 DEF IndirInOrder
  <2>3. \A i \in IndirIdx : ~fie[n][i].used /\ ~fie[n][i].committed /\ ~(i < 0)
    BY <1>4, Sizes DEF BlankIndirBlock, IndirIdx
  <2> QED
    BY <1>1, <1>5, <1>6, <1>7, <1>12, <1>15, <2>2, <2>3 DEF IndirInOrder, TakePcs
<1>17. ~CanOpen'
  <2>1. LastInChain(Last(dme))' = n
    <3>1. Max(From(link', Last(dme))) = n
      BY <1>12, <1>15, LastIs
    <3> QED
      BY <1>1, <1>15, <3>1 DEF LastInChain
  <2>2. Valid(fie[n]) = {}
    BY <1>4 DEF Valid, BlankIndirBlock
  <2> QED
    BY <1>1, <1>12, <2>1, <2>2 DEF CanOpen
<1>18. Newest'
  BY <1>1, <1>5, <1>17 DEF Newest
<1>19. Growing'
  BY <1>1, <1>5, GrowingKept
<1> QED
  BY <1>9, <1>10, <1>11, <1>13, <1>14, <1>16, <1>18, <1>19

-----------------------------------------------------------------------------
(***************************************************************************)
(* r2f2_open.                                                              *)
(***************************************************************************)
\* The search visits entries in an order that has a first one.
LEMMA FirstOf ==
    ASSUME NEW T, T \subseteq Nat \X Nat \X Nat, T # {}
    PROVE  \E v \in T : \A w \in T : Before(v, w)
<1>1. \A v \in T : v[1] \in Nat /\ v[2] \in Nat /\ v[3] \in Nat
  OBVIOUS
<1> DEFINE A == {v[1] : v \in T}
<1>2. PICK a \in A : \A x \in A : a <= x
  <2>1. A \subseteq Nat /\ A # {}
    BY <1>1
  <2> QED
    BY <2>1, LeastElement
<1> DEFINE TA == {v \in T : v[1] = a}
           B == {v[2] : v \in TA}
<1>3. PICK b \in B : \A x \in B : b <= x
  <2>1. B \subseteq Nat /\ B # {}
    BY <1>1, <1>2
  <2> QED
    BY <2>1, LeastElement
<1> DEFINE TB == {v \in TA : v[2] = b}
           C == {v[3] : v \in TB}
<1>4. PICK c \in C : \A x \in C : c <= x
  <2>1. C \subseteq Nat /\ C # {}
    BY <1>1, <1>3
  <2> QED
    BY <2>1, LeastElement
<1>5. PICK v \in T : v[1] = a /\ v[2] = b /\ v[3] = c
  BY <1>4
<1>6. ASSUME NEW w \in T PROVE Before(v, w)
  <2>1. a <= w[1] /\ a \in Nat /\ w[1] \in Nat /\ w[2] \in Nat /\ b \in Nat
    BY <1>1, <1>2, <1>3
  <2>2. w[1] = a => b <= w[2]
    BY <1>3
  <2>3. w[1] = a /\ w[2] = b => c <= w[3]
    BY <1>4
  <2> QED
    BY <1>5, <2>1, <2>2, <2>3 DEF Before
<1> QED
  BY <1>6

\* A read finds what a page holds.
LEMMA PageAtType ==
    ASSUME TypeOK, Pristine, IndirInOrder, NEW d, d.indir \in Blocks \cup {None},
           d.indir = None => d.seq \in Blocks, NEW off \in Nat
    PROVE  PageAt(d, off) \in Contents
<1> DEFINE ends == {v \in Visited(d, off) : \/ Covers(EntryAt(d, v), off)
                                            \/ EntryAt(d, v) = Damaged}
           r == Search(d, off)
<1>1. ASSUME NEW v \in Visited(d, off)
      PROVE  /\ v \in Nat \X Nat \X Nat
             /\ EntryAt(d, v) \in Records \cup {Blank, Damaged}
  <2>1. /\ \A i \in SeqIdx : i \in Nat
        /\ \A i \in IndirIdx : i \in Nat
        /\ \A b \in Blocks : b \in Nat
        /\ None \in Nat
    BY Sizes DEF SeqIdx, IndirIdx, Blocks, None
  <2>2. CASE d.indir # None
    <3>1. /\ v \in Chain[d.indir] \X IndirIdx \X SeqIdx
          /\ Live(fie[v[1]][v[2]])
      BY <2>2 DEF Visited
    <3>2. d.indir \in Blocks /\ Chain[d.indir] \subseteq Blocks
      BY <2>2, LinksAscend, ChainNow, FromContains
    <3>3. v[1] \in Blocks /\ v[2] \in IndirIdx /\ v[3] \in SeqIdx
      BY <3>1, <3>2
    <3>4. v \in Nat \X Nat \X Nat
      BY <2>1, <3>1, <3>3
    <3>5. fie[v[1]][v[2]].seq \in Blocks
      BY <3>1, <3>3 DEF Live, IndirInOrder, TypeOK
    <3> QED
      BY <2>2, <3>3, <3>4, <3>5, EntryTypes DEF EntryAt
  <2>3. CASE d.indir = None
    <3>1. v \in {None} \X {0} \X SeqIdx
      BY <2>3 DEF Visited
    <3>2. v[3] \in SeqIdx /\ v \in Nat \X Nat \X Nat
      BY <2>1, <3>1
    <3> QED
      BY <2>3, <3>2, EntryTypes DEF EntryAt
  <2> QED
    BY <2>2, <2>3
<1>a. Garbage \in Contents
  BY Sizes DEF Garbage, Contents
<1>2. CASE ends = {}
  <2>1. r = Damaged
    BY <1>2 DEF Search
  <2>2. ~Intact(r)
    BY <2>1, BlockNumbers
  <2> QED
    BY <1>a, <2>2 DEF PageAt
<1>3. CASE ends # {}
  <2>1. ends \subseteq Nat \X Nat \X Nat
    BY <1>1
  <2>2. \E v \in ends : \A w \in ends : Before(v, w)
    BY <1>3, <2>1, FirstOf
  <2>3. PICK v \in ends : r = EntryAt(d, v)
    BY <1>3, <2>2 DEF Search
  <2>4. /\ r \in Records \cup {Blank, Damaged}
        /\ Covers(r, off) \/ r = Damaged
    BY <1>1, <2>3
  <2>5. CASE Intact(r)
    <3>1. Covers(r, off)
      BY <2>4, <2>5, BlockNumbers
    <3>2. /\ r.block \in Blocks /\ r.fill \in Nat /\ r.fill <= PagesPerBlock
          /\ r.off \in Nat /\ r.off <= off /\ off < r.off + r.fill
      BY <2>4, <2>5, <3>1, IntactRecords DEF Covers
    <3>3. off - r.off \in PageIdx
      BY <3>2, Sizes DEF PageIdx
    <3> QED
      BY <1>a, <2>5, <3>2, <3>3 DEF PageAt, TypeOK
  <2>6. CASE ~Intact(r)
    BY <1>a, <2>6 DEF PageAt
  <2> QED
    BY <2>5, <2>6
<1> QED
  BY <1>2, <1>3

\* The descriptor that an open makes: of the last committed entry, if there is one
LEMMA OpenedIs ==
    ASSUME FileInv, CanOpen, OpenedIntact
    PROVE  /\ OpenedSeq \in Blocks /\ OpenedSeq < fresh
           /\ OpenedIndir \in Blocks \cup {None} /\ OpenedIndir < fresh
           /\ Opened.open /\ Opened.indir = OpenedIndir /\ Opened.seq = OpenedSeq
           /\ Opened \in Descriptors
           /\ \/ /\ Opened.next = 0 /\ Opened.data = None /\ Opened.fill = 0
                 /\ Opened.off = 0 /\ Opened.size = 0
                 /\ \A i \in SeqIdx : ~fse[OpenedSeq][i].committed
              \/ \E i \in SeqIdx :
                    /\ fse[OpenedSeq][i].committed /\ Intact(fse[OpenedSeq][i].data)
                    /\ \A j \in SeqIdx : fse[OpenedSeq][j].committed => j <= i
                    /\ Opened.next = i + 1
                    /\ Opened.data = fse[OpenedSeq][i].data.block
                    /\ Opened.fill = fse[OpenedSeq][i].data.fill
                    /\ Opened.off = fse[OpenedSeq][i].data.off
                    /\ Opened.size = fse[OpenedSeq][i].data.size
<1> USE DEF FileInv
<1> DEFINE s == OpenedSeq
           valid == Valid(fse[s])
<1>1. s \in Blocks
  BY OpenedFacts
<1>a. Last(dme) < fresh
  BY DmeFacts DEF Pristine, TypeOK
<1>2. s < fresh
  <2>1. CASE Migrated
    <3>1. PICK b \in Blocks, i \in IndirIdx : s = fie[b][i].seq
      BY <2>1, OpenedFacts
    <3> QED
      BY <3>1 DEF Pristine
  <2>2. CASE ~Migrated
    BY <1>a, <2>2 DEF OpenedSeq
  <2> QED
    BY <2>1, <2>2
<1>3. OpenedIndir \in Blocks \cup {None} /\ OpenedIndir < fresh
  <2>1. Last(dme) \in Blocks /\ Last(dme) < fresh
    BY <1>a, DmeFacts DEF TypeOK
  <2> QED
    BY <2>1, DescriptorTypes DEF OpenedIndir, None
<1> HIDE DEF s
<1>4. DOMAIN fse[s] = SeqIdx
  BY <1>1 DEF TypeOK
<1>5. valid = {i \in SeqIdx : fse[s][i].committed}
  BY <1>1, <1>4, ValidAre DEF SeqInOrder
<1>6. CASE valid = {}
  <2>1. Opened = [open |-> TRUE, indir |-> OpenedIndir, seq |-> s, next |-> 0,
                  data |-> None, fill |-> 0, off |-> 0, size |-> 0]
    BY <1>6 DEF Opened, s, NoDescriptor
  <2>2. /\ Opened.open /\ Opened.indir = OpenedIndir /\ Opened.seq = s /\ Opened.next = 0
        /\ Opened.data = None /\ Opened.fill = 0 /\ Opened.off = 0 /\ Opened.size = 0
    BY <2>1
  <2>3. Opened \in Descriptors
    BY <1>1, <1>3, <2>1, Sizes DEF Descriptors
  <2>4. \A i \in SeqIdx : ~fse[s][i].committed
    BY <1>5, <1>6
  <2> QED
    BY <1>1, <1>2, <1>3, <2>2, <2>3, <2>4 DEF s
<1>7. CASE valid # {}
  <2>1. PICK i : i = Max(valid)
    OBVIOUS
  <2>2. i \in valid /\ \A j \in valid : j <= i
    BY <1>4, <1>7, <2>1, LastValid, Sizes DEF SeqIdx
  <2>3. i \in SeqIdx /\ fse[s][i].committed
    BY <1>5, <2>2
  <2>4. \A j \in SeqIdx : fse[s][j].committed => j <= i
    BY <1>5, <2>2
  <2> DEFINE r == fse[s][i].data
  <2>5. Intact(r)
    BY <1>7, <2>1 DEF OpenedIntact, s
  <2>6. r \in Records
    BY <1>1, <2>3, <2>5, EntryTypes, IntactRecords
  <2>7. Opened = [open |-> TRUE, indir |-> OpenedIndir, seq |-> s, next |-> i + 1,
                  data |-> r.block, fill |-> r.fill, off |-> r.off, size |-> r.size]
    BY <1>7, <2>1 DEF Opened, DescriptorAfter, s
  <2>8. Opened \in Descriptors
    <3>1. i + 1 \in 0 .. SeqEntries
      BY <2>3, Sizes DEF SeqIdx
    <3>2. /\ r.block \in Blocks /\ r.fill \in 0 .. PagesPerBlock
          /\ r.off \in 0 .. MaxWrites /\ r.size \in 0 .. MaxWrites
      BY <2>6, Sizes DEF Records
    <3> QED
      BY <1>1, <1>3, <2>7, <3>1, <3>2 DEF Descriptors
  <2>9. /\ Opened.open /\ Opened.indir = OpenedIndir /\ Opened.seq = s
        /\ Opened.next = i + 1 /\ Opened.data = r.block /\ Opened.fill = r.fill
        /\ Opened.off = r.off /\ Opened.size = r.size
    BY <2>7
  <2> QED
    BY <1>1, <1>2, <1>3, <2>3, <2>4, <2>5, <2>8, <2>9 DEF s
<1> QED
  BY <1>6, <1>7

LEMMA OpenInv == ASSUME FileInv, Open PROVE FileInv'
<1> USE DEF FileInv
<1>1. /\ pc = "idle" /\ ~fd.open /\ CanOpen /\ OpenedIntact /\ fd' = Opened
      /\ app' = [i \in 1 .. Opened.size |-> PageAt(Opened, i - 1)]
      /\ UNCHANGED <<dme, fse, fie, link, page, fresh, buf, count, pc, op, wrote, acked,
                     unnoticed>>
  BY DEF Open, flash
<1>2. PICK d : d = Opened
  OBVIOUS
<1>3. /\ OpenedSeq \in Blocks /\ OpenedSeq < fresh
      /\ OpenedIndir \in Blocks \cup {None} /\ OpenedIndir < fresh
      /\ d.open /\ d.indir = OpenedIndir /\ d.seq = OpenedSeq /\ d \in Descriptors
  BY <1>1, <1>2, OpenedIs
<1>4. \/ /\ d.next = 0 /\ d.data = None /\ d.fill = 0 /\ d.off = 0 /\ d.size = 0
         /\ \A i \in SeqIdx : ~fse[OpenedSeq][i].committed
      \/ \E i \in SeqIdx :
            /\ fse[OpenedSeq][i].committed /\ Intact(fse[OpenedSeq][i].data)
            /\ \A j \in SeqIdx : fse[OpenedSeq][j].committed => j <= i
            /\ d.next = i + 1 /\ d.data = fse[OpenedSeq][i].data.block
            /\ d.fill = fse[OpenedSeq][i].data.fill
            /\ d.off = fse[OpenedSeq][i].data.off
            /\ d.size = fse[OpenedSeq][i].data.size
  BY <1>1, <1>2, OpenedIs
<1>5. fd' = d /\ count = 0 /\ app' = [i \in 1 .. d.size |-> PageAt(d, i - 1)]
  BY <1>1, <1>2 DEF DescriptorSound
<1>6. TypeOK'
  <2>1. ASSUME NEW i \in 1 .. d.size PROVE PageAt(d, i - 1) \in Contents
    <3>1. i - 1 \in Nat
      OBVIOUS
    <3>2. d.indir \in Blocks \cup {None} /\ (d.indir = None => d.seq \in Blocks)
      BY <1>3
    <3> QED
      BY <3>1, <3>2, PageAtType
  <2>2. d.size \in Nat
    BY <1>3, Sizes DEF Descriptors
  <2>3. app' \in [1 .. d.size -> Contents]
    BY <1>5, <2>1
  <2>4. app' \in Seq(Contents)
    BY <2>2, <2>3, SeqDef
  <2> QED
    BY <1>1, <1>3, <1>5, <2>4 DEF TypeOK
<1>7. d.data < fresh
  BY <1>3, <1>4, DescriptorTypes DEF Pristine, None
<1>8. Pristine' /\ RecordsSound'
  <2>1. d.indir < fresh /\ d.seq < fresh /\ d.data < fresh /\ op.seq < fresh
    BY <1>3, <1>7 DEF Pristine
  <2> QED
    BY <1>1, <1>5, <2>1, DescriptorTypes, FlashUnchanged
<1>9. Migrated' = Migrated /\ Chain' = Chain /\ CanOpen' = CanOpen /\ OpenedSeq' = OpenedSeq
  BY <1>1, OpenUnchanged
<1>10. DescriptorSound'
  <2>1. d.indir = None <=> ~Migrated
    BY <1>3, LastInChainIs, BlockNumbers DEF OpenedIndir
  <2>2. ~Migrated => d.seq = dme[1]
    BY <1>3, DmeFacts DEF OpenedSeq, Migrated, TypeOK
  <2>3. /\ d.off + d.fill = d.size /\ d.size <= wrote
        /\ \A p \in PageIdx : p < d.fill => page[d.data][p] # Erased
    <3>1. CASE d.fill = 0 /\ d.off = 0 /\ d.size = 0
      BY <3>1, DescriptorTypes, Sizes DEF PageIdx
    <3>2. ASSUME NEW i \in SeqIdx, Intact(fse[OpenedSeq][i].data),
                 d.data = fse[OpenedSeq][i].data.block,
                 d.fill = fse[OpenedSeq][i].data.fill,
                 d.off = fse[OpenedSeq][i].data.off,
                 d.size = fse[OpenedSeq][i].data.size
          PROVE  /\ d.off + d.fill = d.size /\ d.size <= wrote
                 /\ \A p \in PageIdx : p < d.fill => page[d.data][p] # Erased
      BY <1>3, <3>2 DEF RecordsSound
    <3> QED
      BY <1>4, <3>1, <3>2
  <2>4. d.data = None => d.fill = 0
    <3>1. \A i \in SeqIdx : Intact(fse[OpenedSeq][i].data)
                             => fse[OpenedSeq][i].data.block # None
      BY BlockNumbers DEF Intact
    <3>2. d.data = None /\ d.fill # 0 => FALSE
      BY <1>4, <3>1, Zenon
    <3> QED
      BY <3>2
  <2>5. d.seq # None
    BY <1>3, BlockNumbers
  <2>6. d.size + count <= wrote
    <3>1. d.size \in Nat
      BY <1>3, Sizes DEF Descriptors
    <3> QED
      BY <1>5, <2>3, <3>1
  <2> QED
    BY <1>1, <1>3, <1>5, <1>9, <2>1, <2>2, <2>3, <2>4, <2>5, <2>6 DEF DescriptorSound
<1>11. LoopSound'
  BY <1>1, <1>5, Sizes DEF LoopSound, PageIdx
<1>12. SeqInOrder'
  <2>1. \A i \in SeqIdx : /\ i < d.next => fse[d.seq][i].used
                          /\ i >= d.next => ~fse[d.seq][i].committed
    <3>1. CASE d.next = 0 /\ \A i \in SeqIdx : ~fse[OpenedSeq][i].committed
      BY <1>3, <3>1, Sizes DEF SeqIdx
    <3>2. ASSUME NEW k \in SeqIdx, fse[OpenedSeq][k].committed, d.next = k + 1,
                 \A j \in SeqIdx : fse[OpenedSeq][j].committed => j <= k
          PROVE  \A i \in SeqIdx : /\ i < d.next => fse[d.seq][i].used
                                   /\ i >= d.next => ~fse[d.seq][i].committed
      <4>1. \A j \in 0 .. k : fse[OpenedSeq][j].used
        BY <1>3, <3>2 DEF SeqInOrder
      <4>2. \A i \in SeqIdx : /\ i < d.next => i \in 0 .. k
                              /\ i >= d.next => ~(i <= k)
        BY <3>2, Sizes DEF SeqIdx
      <4> QED
        BY <1>3, <3>2, <4>1, <4>2
    <3> QED
      BY <1>4, <3>1, <3>2
  <2> QED
    BY <1>1, <1>5, <2>1 DEF SeqInOrder, SeqPcs, TakePcs
<1>13. IndirInOrder'
  <2>1. Migrated => d.indir \in Chain[Last(dme)]
    BY <1>3, LastInChainIs, LinksAscend, ChainNow, FromContains DEF OpenedIndir
  <2> QED
    BY <1>1, <1>5, <1>9, <2>1 DEF IndirInOrder, TakePcs
<1>14. \A b \in Blocks, i \in SeqIdx : fse[b][i].committed => b <= OpenedSeq
  BY <1>1 DEF Newest
<1>15. Newest'
  BY <1>1, <1>3, <1>5, <1>9, <1>14 DEF Newest
<1>16. Growing'
  <2> SUFFICES ASSUME ~unnoticed PROVE Growing'
    BY <1>1 DEF Growing
  <2>1. ASSUME NEW b \in Blocks, NEW i \in SeqIdx, fse[b][i].committed,
               Intact(fse[b][i].data), fse[b][i].data.block = d.data
        PROVE  fse[b][i].data.fill <= d.fill
    <3>1. d.data # None
      BY <2>1, BlockNumbers DEF Intact
    <3>2. PICK k \in SeqIdx :
            /\ fse[OpenedSeq][k].committed /\ Intact(fse[OpenedSeq][k].data)
            /\ \A j \in SeqIdx : fse[OpenedSeq][j].committed => j <= k
            /\ d.data = fse[OpenedSeq][k].data.block
            /\ d.fill = fse[OpenedSeq][k].data.fill
      BY <1>4, <3>1
    <3>3. b < OpenedSeq \/ (b = OpenedSeq /\ i <= k)
      BY <1>3, <1>14, <2>1, <3>2, BlockNumbers
    <3> QED
      BY <1>3, <2>1, <3>2, <3>3 DEF Growing
  <2>2. pc' # "seqCommit"
    BY <1>1
  <2> QED
    BY <1>1, <1>5, <2>1, <2>2 DEF Growing
<1> QED
  BY <1>6, <1>8, <1>10, <1>11, <1>12, <1>13, <1>15, <1>16

-----------------------------------------------------------------------------
(***************************************************************************)
(* The theorems.                                                           *)
(***************************************************************************)
LEMMA StepInv == FileInv /\ [Next]_vars => FileInv'
<1> SUFFICES ASSUME FileInv, [Next]_vars PROVE FileInv'
  OBVIOUS
<1>1. CASE Write
  BY <1>1, WriteInv
<1>2. CASE FsyncNothing \/ UNCHANGED vars
  BY <1>2, AcknowledgeInv
<1>3. CASE Fsync
  BY <1>3, FsyncInv
<1>4. CASE FsyncStep
  <2>1. CASE NextChunk
    BY <2>1, NextChunkInv
  <2>2. CASE WritePage
    BY <2>2, WritePageInv
  <2>3. CASE Migrate
    BY <2>3, MigrateInv
  <2>4. CASE NewSeqBlock
    BY <2>4, NewSeqBlockInv
  <2>5. CASE TakeIndirEntry
    BY <2>5, TakeIndirEntryInv
  <2>6. CASE ExtendChain
    BY <2>6, ExtendChainInv
  <2>7. CASE IndirUse \/ IndirWrite
    BY <2>7, IndirEntryInv
  <2>8. CASE IndirCommit
    BY <2>8, IndirCommitInv
  <2>9. CASE SeqUse
    BY <2>9, SeqUseInv
  <2>10. CASE SeqWrite
    BY <2>10, SeqWriteInv
  <2>11. CASE SeqCommit
    BY <2>11, SeqCommitInv
  <2>12. CASE ChainRefused
    <3>1. pc # "idle"
      BY <2>12 DEF ChainRefused
    <3> QED
      BY <2>12, <3>1, ErrorInv
  <2> QED
    BY <1>4, <2>1, <2>2, <2>3, <2>4, <2>5, <2>6, <2>7, <2>8, <2>9, <2>10, <2>11, <2>12
    DEF FsyncStep
<1>5. CASE NoMemory \/ FlashError
  <2>1. pc # "idle"
    BY <1>5 DEF NoMemory, FlashError
  <2> QED
    BY <1>5, <2>1, ErrorInv
<1>6. CASE Close \/ Crash
  BY <1>6, ClosedInv
<1>7. CASE Open
  BY <1>7, OpenInv
<1> QED
  BY <1>1, <1>2, <1>3, <1>4, <1>5, <1>6, <1>7 DEF Next

\* Whatever fails, and wherever the power is lost, what r2f2_fsync left on the flash
\* and in the descriptor is in order: every part of FileInv holds in every state.
THEOREM FileInvariance == Spec => []FileInv
<1>1. Init => FileInv
  BY InitInv
<1>2. FileInv /\ [Next]_vars => FileInv'
  BY StepInv
<1> QED
  BY <1>1, <1>2, PTL DEF Spec

\* No step makes a value that the variables of r2f2_fsync cannot hold.
THEOREM FileTypes == Spec => []TypeOK
<1>1. FileInv => TypeOK
  BY DEF FileInv
<1> QED
  BY <1>1, FileInvariance, PTL

\* The reachable sequence blocks are blocks.
LEMMA SeqBlocksAreBlocks == ASSUME TypeOK PROVE SeqBlocks \subseteq Blocks
BY DmeFacts DEF SeqBlocks, TypeOK

\* No valid entry covers a page that r2f2_write_data did not write, and each gives the
\* size of the file with the chunk it describes.
THEOREM DataWritten == Spec => []CommittedDataWritten
<1>1. ASSUME FileInv PROVE CommittedDataWritten
  <2> USE DEF FileInv
  <2>1. \A c \in Committed : c[1] \in Blocks /\ c[2] \in SeqIdx
    BY <1>1, SeqBlocksAreBlocks DEF Committed
  <2>2. ASSUME NEW v \in CoveredPages PROVE page[v[1]][v[2]] # Erased
    <3>1. PICK c \in Committed : RecordOf(c).block = v[1] /\ v[2] < RecordOf(c).fill
      BY DEF CoveredPages
    <3>2. v[1] \in Blocks /\ v[2] \in PageIdx
      BY DEF CoveredPages
    <3>3. Intact(fse[c[1]][c[2]].data)
      BY <3>1, <3>2 DEF Intact, RecordOf
    <3> QED
      BY <1>1, <2>1, <3>1, <3>2, <3>3 DEF RecordsSound, RecordOf
  <2>3. \A c \in Committed :
            Intact(RecordOf(c)) => RecordOf(c).off + RecordOf(c).fill = RecordOf(c).size
    BY <1>1, <2>1 DEF RecordsSound, RecordOf
  <2> QED
    BY <2>2, <2>3 DEF CommittedDataWritten
<1> QED
  BY <1>1, FileInvariance, PTL

\* A step changes no entry that is committed, and takes back no flag.
LEMMA EntriesStay ==
    ASSUME FileInv, [Next]_vars, NEW b \in Blocks, NEW i \in SeqIdx, fse[b][i].committed
    PROVE  /\ fse'[b][i].committed /\ fse'[b][i].data = fse[b][i].data
           /\ fse[b][i].used => fse'[b][i].used
<1> USE DEF FileInv
<1> DEFINE Stays == /\ fse'[b][i].committed /\ fse'[b][i].data = fse[b][i].data
                    /\ fse[b][i].used => fse'[b][i].used
<1>a. fse \in [Blocks -> [SeqIdx -> SeqEntry]]
  BY DEF TypeOK, SeqEntry
<1>1. CASE fse' = fse
  BY <1>1
<1>2. CASE SeqUse
  <2>1. fse' = [fse EXCEPT ![fd.seq][fd.next] = [fse[fd.seq][fd.next] EXCEPT !.used = TRUE]]
    BY <1>2 DEF SeqUse
  <2>2. fd.seq \in Blocks /\ fd.next \in SeqIdx
    BY <1>2, NextEntry DEF SeqUse, SeqPcs
  <2>3. fse[fd.seq][fd.next] \in SeqEntry
    BY <1>a, <2>2
  <2> DEFINE e == [fse[fd.seq][fd.next] EXCEPT !.used = TRUE]
  <2>4. e \in SeqEntry /\ e.used /\ e.data = fse[fd.seq][fd.next].data
        /\ (fse[fd.seq][fd.next].committed => e.committed)
        /\ (fse[fd.seq][fd.next].used => e.used)
    BY <2>3 DEF SeqEntry
  <2> HIDE DEF e
  <2>5. fse'[b][i] = IF b = fd.seq /\ i = fd.next THEN e ELSE fse[b][i]
    BY <1>a, <2>1, <2>2, <2>4, EntryUpdate DEF e
  <2> QED
    BY <2>4, <2>5
<1>3. CASE SeqWrite
  <2>1. PICK x : fse' = [fse EXCEPT ![fd.seq][fd.next] = x] \/ fse' = fse
    BY <1>3 DEF SeqWrite
  <2>2. fd.open /\ fd.seq \in Blocks /\ fd.next \in SeqIdx
    BY <1>3, NextEntry DEF SeqWrite, SeqPcs
  <2>3. ~(b = fd.seq /\ i = fd.next)
    BY <2>2, DescriptorTypes DEF SeqInOrder
  <2>4. fse'[b][i] = fse[b][i]
    BY <1>a, <2>1, <2>2, <2>3
  <2> QED
    BY <2>4
<1>4. CASE SeqCommit
  <2>1. fse' = [fse EXCEPT ![fd.seq][fd.next] = [fse[fd.seq][fd.next] EXCEPT !.committed = TRUE]]
    BY <1>4 DEF SeqCommit
  <2>2. fd.seq \in Blocks /\ fd.next \in SeqIdx
    BY <1>4, NextEntry DEF SeqCommit, SeqPcs
  <2>3. fse[fd.seq][fd.next] \in SeqEntry
    BY <1>a, <2>2
  <2> DEFINE e == [fse[fd.seq][fd.next] EXCEPT !.committed = TRUE]
  <2>4. e \in SeqEntry /\ e.committed /\ e.data = fse[fd.seq][fd.next].data
        /\ (fse[fd.seq][fd.next].committed => e.committed)
        /\ (fse[fd.seq][fd.next].used => e.used)
    BY <2>3 DEF SeqEntry
  <2> HIDE DEF e
  <2>5. fse'[b][i] = IF b = fd.seq /\ i = fd.next THEN e ELSE fse[b][i]
    BY <1>a, <2>1, <2>2, <2>4, EntryUpdate DEF e
  <2> QED
    BY <2>4, <2>5
<1>5. fse' = fse \/ SeqUse \/ SeqWrite \/ SeqCommit
  BY DEF Next, FsyncStep, Write, FsyncNothing, Fsync, NextChunk, WritePage, Migrate,
     NewSeqBlock, TakeIndirEntry, ExtendChain, IndirUse, IndirWrite, IndirCommit,
     ChainRefused, NoMemory, FlashError, FsyncReturnsError, Close, Open, Crash,
     vars, flash
<1> QED
  BY <1>1, <1>2, <1>3, <1>4, <1>5

\* A sequence block that can be reached from the directory entry stays so.
LEMMA SeqBlocksStay ==
    ASSUME FileInv, [Next]_vars PROVE SeqBlocks \subseteq SeqBlocks'
<1> USE DEF FileInv
<1>a. FileInv'
  BY StepInv
<1>b. link \in Links /\ link' \in Links /\ Last(dme) \in Blocks
  BY <1>a, LinksAscend, LastInChainIs DEF TypeOK, Pristine, Links
<1>1. CASE UNCHANGED <<dme, fie, link>>
  BY <1>1, OpenUnchanged DEF SeqBlocks
<1>2. CASE Migrate
  <2>1. PICK n \in Blocks : /\ dme' = Append(dme, n) /\ Allocate(n)
                            /\ fie' = [fie EXCEPT ![n][0] = [used |-> TRUE, committed |-> TRUE,
                                                             seq |-> fd.seq]]
    BY <1>2 DEF Migrate
  <2>2. fd.open /\ ~Migrated /\ fd.seq = dme[1] /\ fd.seq \in Blocks
    BY <1>2, DescriptorTypes DEF Migrate, DescriptorSound, LoopSound
  <2>3. SeqBlocks = {fd.seq}
    BY <2>2, DmeFacts DEF SeqBlocks, Migrated, TypeOK
  <2>4. Migrated' /\ Last(dme') = n
    <3>1. dme \in Seq(Blocks) /\ Len(dme) = 1
      BY <2>2, DmeFacts DEF Migrated, TypeOK
    <3>2. dme' = Append(dme, n)
      BY <2>1
    <3>3. Len(dme') = 2 /\ dme'[2] = n
      BY <3>1, <3>2, SecondAppended
    <3> QED
      BY <3>3 DEF Migrated, Last
  <2>5. n \in Chain'[n]
    BY <1>b, ChainNext, FromContains
  <2>6. 0 \in IndirIdx /\ Live(fie'[n][0]) /\ fie'[n][0].seq = fd.seq
    BY <2>1, Sizes DEF IndirIdx, Live, TypeOK
  <2> QED
    BY <2>2, <2>3, <2>4, <2>5, <2>6 DEF SeqBlocks
<1>3. CASE ExtendChain
  <2>1. PICK n \in Blocks : link' = [link EXCEPT ![fd.indir] = n]
    BY <1>3 DEF ExtendChain
  <2>2. fd.open /\ Migrated /\ fd.indir \in Blocks /\ link[fd.indir] = None
        /\ UNCHANGED <<dme, fie>>
    BY <1>3, DescriptorTypes DEF ExtendChain, DescriptorSound, IndirInOrder
  <2>3. fd.indir \in From(link, Last(dme))
    BY <1>b, <2>2, ChainNow DEF IndirInOrder
  <2>4. From(link, Last(dme)) \subseteq From(link', Last(dme))
    <3>1. ASSUME NEW x \in From(link, Last(dme)), link[x] = None,
                 NEW g \in Links, g = [link EXCEPT ![x] = n]
          PROVE  From(link, Last(dme)) \subseteq From(g, Last(dme))
      BY <1>b, <3>1, FromGrows
    <3> QED
      BY <1>b, <2>1, <2>2, <2>3, <3>1
  <2>5. Chain[Last(dme)] \subseteq Chain'[Last(dme)]
    BY <1>b, <2>4, ChainNow, ChainNext
  <2>6. Migrated' /\ Migrated
    BY <2>2 DEF Migrated
  <2> QED
    BY <2>2, <2>5, <2>6 DEF SeqBlocks
<1>4. CASE IndirUse \/ IndirWrite \/ IndirCommit
  <2>1. pc \in TakePcs /\ UNCHANGED <<dme, link>>
    BY <1>4 DEF IndirUse, IndirWrite, IndirCommit, TakePcs
  <2>2. /\ fd.indir \in Blocks /\ op.slot \in IndirIdx /\ Migrated
        /\ fie \in [Blocks -> [IndirIdx -> IndirEntry]]
        /\ ~fie[fd.indir][op.slot].committed
    BY <2>1, NextIndirEntry
  <2>3. PICK e : fie' = [fie EXCEPT ![fd.indir][op.slot] = e]
    BY <1>4 DEF IndirUse, IndirWrite, IndirCommit
  <2>4. \A b \in Blocks, i \in IndirIdx : Live(fie[b][i]) => fie'[b][i] = fie[b][i]
    BY <2>2, <2>3 DEF Live
  <2>5. Migrated' /\ Chain' = Chain /\ Last(dme') = Last(dme)
    BY <2>1, <2>2 DEF Migrated, Chain
  <2>6. Chain[Last(dme)] \subseteq Blocks
    BY <1>b, ChainNow, FromContains
  <2> QED
    BY <2>2, <2>4, <2>5, <2>6 DEF SeqBlocks
<1>5. \/ UNCHANGED <<dme, fie, link>> \/ Migrate \/ ExtendChain
      \/ IndirUse \/ IndirWrite \/ IndirCommit
  BY DEF Next, FsyncStep, Write, FsyncNothing, Fsync, NextChunk, WritePage,
     NewSeqBlock, TakeIndirEntry, SeqUse, SeqWrite, SeqCommit,
     ChainRefused, NoMemory, FlashError, FsyncReturnsError, Close, Open, Crash,
     vars, flash
<1> QED
  BY <1>1, <1>2, <1>3, <1>4, <1>5

\* A valid entry stays reachable and stays as it is, through every growth of the file
\* and after every failure.
THEOREM EntriesKept == Spec => CommittedEntriesKept
<1>1. ASSUME FileInv, [Next]_vars
      PROVE  [\A c \in Committed : c \in Committed' /\ RecordOf(c)' = RecordOf(c)]_vars
  <2> SUFFICES ASSUME NEW c \in Committed
               PROVE  c \in Committed' /\ RecordOf(c)' = RecordOf(c)
    OBVIOUS
  <2>1. c \in SeqBlocks \X SeqIdx /\ c[1] \in Blocks /\ c[2] \in SeqIdx
        /\ fse[c[1]][c[2]].used /\ fse[c[1]][c[2]].committed
    BY <1>1, SeqBlocksAreBlocks DEF Committed, Live, FileInv
  <2>2. /\ fse'[c[1]][c[2]].committed /\ fse'[c[1]][c[2]].used
        /\ fse'[c[1]][c[2]].data = fse[c[1]][c[2]].data
    BY <1>1, <2>1, EntriesStay
  <2>3. c \in SeqBlocks' \X SeqIdx
    BY <1>1, <2>1, SeqBlocksStay
  <2> QED
    BY <2>2, <2>3 DEF Committed, Live, RecordOf
<1> QED
  BY <1>1, FileInvariance, PTL DEF Spec, CommittedEntriesKept

\* As long as no write of an entry failed unnoticed, no page is programmed again that a
\* valid entry covers, whatever was reopened in the middle of a block.
THEOREM PagesKept == Spec => CommittedPagesKept
<1>1. ASSUME FileInv, [Next]_vars
      PROVE  [~unnoticed =>
                \A v \in CoveredPages : page'[v[1]][v[2]] = page[v[1]][v[2]]]_vars
  <2> USE DEF FileInv
  <2> SUFFICES ASSUME ~unnoticed, NEW v \in CoveredPages
               PROVE  page'[v[1]][v[2]] = page[v[1]][v[2]]
    OBVIOUS
  <2>1. CASE page' = page
    BY <2>1
  <2>2. CASE WritePage
    <3>1. PICK c \in Committed : RecordOf(c).block = v[1] /\ v[2] < RecordOf(c).fill
      BY DEF CoveredPages
    <3>2. v[1] \in Blocks /\ v[2] \in PageIdx /\ v[2] \in Nat
      BY Sizes DEF CoveredPages, PageIdx
    <3>3. c[1] \in Blocks /\ c[2] \in SeqIdx /\ fse[c[1]][c[2]].committed
      BY <1>1, SeqBlocksAreBlocks DEF Committed, Live
    <3> DEFINE r == fse[c[1]][c[2]].data
    <3>4. r.block = v[1] /\ v[2] < r.fill /\ Intact(r)
      BY <3>1, <3>2 DEF RecordOf, Intact
    <3>5. v[1] = fd.data => v[2] < fd.fill + op.done
      <4>1. v[1] = fd.data => r.fill <= fd.fill
        BY <1>1, <3>3, <3>4 DEF Growing
      <4>2. r.fill \in Nat
        BY <1>1, <3>3, <3>4, EntryTypes, IntactRecords
      <4> QED
        BY <1>1, <3>2, <3>4, <4>1, <4>2, DescriptorTypes
    <3>6. PICK x : page' = [page EXCEPT ![fd.data][fd.fill + op.done] = x]
      BY <2>2 DEF WritePage
    <3>7. page \in [Blocks -> [PageIdx -> Contents]]
      BY <1>1 DEF TypeOK
    <3> QED
      BY <3>2, <3>5, <3>6, <3>7
  <2>3. page' = page \/ WritePage
    BY <1>1 DEF Next, FsyncStep, Write, FsyncNothing, Fsync, NextChunk, Migrate,
       NewSeqBlock, TakeIndirEntry, ExtendChain, IndirUse, IndirWrite, IndirCommit,
       SeqUse, SeqWrite, SeqCommit,
       ChainRefused, NoMemory, FlashError, FsyncReturnsError, Close, Open, Crash,
       vars, flash
  <2> QED
    BY <2>1, <2>2, <2>3
<1> QED
  BY <1>1, FileInvariance, PTL DEF Spec, CommittedPagesKept
=============================================================================
