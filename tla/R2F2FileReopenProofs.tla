------------------------ MODULE R2F2FileReopenProofs ------------------------
(***************************************************************************)
(* Theorems about the append path of a file without faults: FileInv and    *)
(* TidyInv together are inductive.  So a file that is closed and opened    *)
(* again goes on where it was, and no block is lost.                       *)
(***************************************************************************)
EXTENDS R2F2FileProofs

\* The chain is of one block.
LEMMA OneIndir ==
    ASSUME FileInv, OneIndirBlock, Migrated
    PROVE  /\ Chain[Last(dme)] = {Last(dme)} /\ LastInChain(Last(dme)) = Last(dme)
           /\ Last(dme) \in Blocks
           /\ fd.open => fd.indir = Last(dme)
<1> USE DEF FileInv
<1>1. Last(dme) \in Blocks /\ link \in Links
  BY LastInChainIs, LinksAscend
<1>2. link[Last(dme)] = None
  BY DEF OneIndirBlock
<1>3. Chain[Last(dme)] = {Last(dme)}
  BY <1>1, <1>2, ChainNow, FromUnfolds
<1>4. LastInChain(Last(dme)) = Last(dme)
  BY <1>3, LastInChainIs
<1>5. fd.open => fd.indir = Last(dme)
  BY <1>3 DEF IndirInOrder
<1> QED
  BY <1>1, <1>3, <1>4, <1>5

\* The steps that are left: a chain that grows, or refuses to, was not of one block
\* before or is not after.
LEMMA UndisturbedSteps ==
    ASSUME FileInv, [Next]_vars, Undisturbed'
    PROVE  /\ Undisturbed
           /\ \/ UNCHANGED vars \/ Write \/ FsyncNothing \/ Fsync \/ NextChunk
              \/ WritePage \/ Migrate \/ NewSeqBlock \/ TakeIndirEntry
              \/ IndirUse \/ IndirWrite \/ IndirCommit
              \/ SeqUse \/ SeqWrite \/ SeqCommit \/ Close \/ Open
<1> USE DEF FileInv
<1>1. Faults = {} /\ OneIndirBlock'
  BY DEF Undisturbed
<1>2. ~NoMemory /\ ~FlashError /\ ~Crash
  BY <1>1 DEF NoMemory, FlashError, Crash
<1>3. ASSUME ExtendChain PROVE FALSE
  <2>1. fd.open /\ Migrated /\ fd.indir \in Blocks /\ link[fd.indir] = None /\ dme' = dme
    BY <1>3, DescriptorTypes DEF ExtendChain, DescriptorSound, IndirInOrder
  <2>2. PICK n \in Blocks : link' = [link EXCEPT ![fd.indir] = n]
    BY <1>3 DEF ExtendChain
  <2>3. Migrated' /\ link'[Last(dme)] = None
    BY <1>1, <2>1 DEF OneIndirBlock, Migrated
  <2>4. Last(dme) \in Blocks /\ n # None
    BY LastInChainIs, BlockNumbers
  <2>5. Last(dme) # fd.indir /\ link[Last(dme)] = None
    BY <2>1, <2>2, <2>3, <2>4 DEF TypeOK
  <2> QED
    BY <2>1, <2>5, OneIndir DEF OneIndirBlock
<1>4. OneIndirBlock
  <2>1. CASE UNCHANGED <<dme, link>>
    BY <1>1, <2>1 DEF OneIndirBlock, Migrated
  <2>2. CASE Migrate
    BY <2>2, DescriptorTypes DEF Migrate, OneIndirBlock, DescriptorSound, LoopSound
  <2>3. UNCHANGED <<dme, link>> \/ Migrate \/ ExtendChain
    BY DEF Next, FsyncStep, Write, FsyncNothing, Fsync, NextChunk, WritePage,
       NewSeqBlock, TakeIndirEntry, IndirUse, IndirWrite, IndirCommit,
       SeqUse, SeqWrite, SeqCommit,
       ChainRefused, NoMemory, FlashError, FsyncReturnsError, Close, Open, Crash,
       vars, flash
  <2> QED
    BY <1>3, <2>1, <2>2, <2>3
<1>5. ~ChainRefused
  <2> SUFFICES ASSUME ChainRefused PROVE FALSE
    OBVIOUS
  <2>1. fd.open /\ Migrated /\ link[fd.indir] # None
    BY DescriptorTypes DEF ChainRefused, DescriptorSound, IndirInOrder
  <2> QED
    BY <1>4, <2>1, OneIndir DEF OneIndirBlock
<1> QED
  BY <1>1, <1>2, <1>3, <1>4, <1>5 DEF Next, FsyncStep, Undisturbed

\* A file can be opened, and in the sequence block the descriptor stands in.
LEMMA OpensThere ==
    ASSUME FileInv, OneIndirBlock, EntriesTidy
    PROVE  CanOpen /\ (fd.open => fd.seq \in SeqBlocks)
<1> USE DEF FileInv
<1>1. CanOpen
  <2>1. CASE Migrated
    <3>1. 0 \in IndirIdx /\ fie[Last(dme)][0].committed
      BY <2>1, Sizes DEF IndirIdx, EntriesTidy
    <3>2. 0 \in Valid(fie[Last(dme)])
      BY <2>1, <3>1, OneIndir, ValidIndirAre
    <3> QED
      BY <2>1, <3>2, OneIndir DEF CanOpen
  <2>2. CASE ~Migrated
    BY <2>2 DEF CanOpen
  <2> QED
    BY <2>1, <2>2
<1>2. ASSUME fd.open PROVE fd.seq \in SeqBlocks
  <2>1. OpenedSeq = fd.seq /\ OpenedSeq \in Blocks
    BY <1>1, <1>2, OpenedFacts DEF Newest
  <2>2. CASE Migrated
    <3>1. PICK b \in Chain[Last(dme)], i \in IndirIdx :
             /\ b \in Blocks /\ i \in Valid(fie[b]) /\ OpenedSeq = fie[b][i].seq
      BY <1>1, <2>2, OpenedFacts
    <3>2. Live(fie[b][i])
      BY <3>1, ValidIndirAre DEF Live, IndirInOrder
    <3> QED
      BY <2>1, <2>2, <3>1, <3>2 DEF SeqBlocks
  <2>3. CASE ~Migrated
    BY <2>1, <2>3 DEF SeqBlocks, OpenedSeq
  <2> QED
    BY <2>2, <2>3
<1> QED
  BY <1>1, <1>2

-----------------------------------------------------------------------------
\* The entries after a step
LEMMA EntriesTidyInv ==
    ASSUME FileInv, [Next]_vars, Undisturbed', EntriesTidy
    PROVE  EntriesTidy'
<1> USE DEF FileInv
<1>1. /\ Undisturbed /\ Faults = {}
      /\ \/ UNCHANGED vars \/ Write \/ FsyncNothing \/ Fsync \/ NextChunk
         \/ WritePage \/ Migrate \/ NewSeqBlock \/ TakeIndirEntry
         \/ IndirUse \/ IndirWrite \/ IndirCommit
         \/ SeqUse \/ SeqWrite \/ SeqCommit \/ Close \/ Open
  BY UndisturbedSteps DEF Undisturbed
<1>2. Migrated' => fie'[Last(dme')][0].committed
  <2>1. CASE UNCHANGED <<dme, fie>>
    BY <2>1 DEF EntriesTidy, Migrated
  <2>2. CASE Migrate
    <3>1. PICK n \in Blocks : /\ dme' = Append(dme, n)
                              /\ fie' = [fie EXCEPT ![n][0] = [used |-> TRUE,
                                            committed |-> TRUE, seq |-> fd.seq]]
      BY <2>2 DEF Migrate
    <3>2. 0 \in IndirIdx /\ fie'[n][0].committed
      BY <3>1, Sizes DEF IndirIdx, TypeOK
    <3>3. dme \in Seq(Blocks) /\ Len(dme) \in Nat
      BY DmeFacts DEF TypeOK
    <3>4. /\ Len(Append(dme, n)) = Len(dme) + 1
          /\ Append(dme, n)[Len(dme) + 1] = n
      BY <3>3, AppendProperties
    <3>5. Last(dme') = n
      BY <3>1, <3>4 DEF Last
    <3> QED
      BY <3>2, <3>5
  <2>3. CASE IndirUse \/ IndirWrite \/ IndirCommit
    <3>1. pc \in TakePcs /\ dme' = dme
      BY <2>3 DEF IndirUse, IndirWrite, IndirCommit, TakePcs
    <3>2. /\ fd.indir \in Blocks /\ op.slot \in IndirIdx /\ Migrated
          /\ fie \in [Blocks -> [IndirIdx -> IndirEntry]]
          /\ ~fie[fd.indir][op.slot].committed
      BY <3>1, NextIndirEntry
    <3>3. PICK e : fie' = [fie EXCEPT ![fd.indir][op.slot] = e]
      BY <2>3 DEF IndirUse, IndirWrite, IndirCommit
    <3>4. 0 \in IndirIdx /\ Last(dme) \in Blocks /\ fie[Last(dme)][0].committed
      BY <3>2, Sizes, LastInChainIs DEF IndirIdx, EntriesTidy
    <3>5. fie'[Last(dme)][0] = fie[Last(dme)][0]
      BY <3>2, <3>3, <3>4
    <3> QED
      BY <3>1, <3>4, <3>5
  <2>4. UNCHANGED <<dme, fie>> \/ Migrate \/ IndirUse \/ IndirWrite \/ IndirCommit
    BY <1>1 DEF Write, FsyncNothing, Fsync, NextChunk, WritePage,
       NewSeqBlock, TakeIndirEntry, SeqUse, SeqWrite, SeqCommit, Close, Open, vars, flash
  <2> QED
    BY <2>1, <2>2, <2>3, <2>4
<1> DEFINE r == Record(fd.data, fd.fill, fd.off, fd.size)
<1>3. CASE UNCHANGED <<fse, fd, pc>>
  BY <1>2, <1>3 DEF EntriesTidy
<1>4. CASE fse' = fse /\ pc \notin {"seqWrite", "seqCommit"} /\ pc' # "seqCommit"
  BY <1>2, <1>4 DEF EntriesTidy, Intact
<1>5. CASE SeqUse
  <2> DEFINE e == [fse[fd.seq][fd.next] EXCEPT !.used = TRUE]
  <2>1. fd.seq \in Blocks /\ fd.next \in SeqIdx
    BY <1>5, NextEntry DEF SeqUse, SeqPcs
  <2>2. fse \in [Blocks -> [SeqIdx -> SeqEntry]] /\ fse[fd.seq][fd.next] \in SeqEntry
    BY <2>1 DEF TypeOK, SeqEntry
  <2>3. e \in SeqEntry /\ e.data = fse[fd.seq][fd.next].data
        /\ (e.committed <=> fse[fd.seq][fd.next].committed)
    BY <2>2 DEF SeqEntry
  <2>4. fse' = [fse EXCEPT ![fd.seq][fd.next] = e]
    BY <1>5 DEF SeqUse
  <2> HIDE DEF e
  <2>5. \A b \in Blocks, i \in SeqIdx :
            fse'[b][i] = IF b = fd.seq /\ i = fd.next THEN e ELSE fse[b][i]
    BY <2>1, <2>2, <2>3, <2>4, EntryUpdate
  <2>6. pc = "seqUse" /\ pc' = "seqWrite" /\ fd' = fd
    BY <1>5 DEF SeqUse, ram
  <2>7. \A b \in Blocks, i \in SeqIdx :
          /\ fse'[b][i].committed => Intact(fse'[b][i].data)
          /\ fse'[b][i].used /\ ~fse'[b][i].committed => b = fd.seq /\ i = fd.next
          /\ fse'[b][i].data # Blank => fse'[b][i].committed
    BY <2>1, <2>3, <2>5, <2>6 DEF EntriesTidy
  <2> QED
    BY <1>2, <2>6, <2>7 DEF EntriesTidy
<1>6. CASE SeqWrite
  <2> DEFINE old == fse[fd.seq][fd.next]
             e == [old EXCEPT !.data = r]
  <2>1. fd.open /\ fd.seq \in Blocks /\ fd.next \in SeqIdx
        /\ fd.data \in Blocks /\ fd.fill > 0
    BY <1>6, NextEntry DEF SeqWrite, SeqPcs
  <2>2. fse \in [Blocks -> [SeqIdx -> SeqEntry]] /\ old \in SeqEntry
    BY <2>1 DEF TypeOK, SeqEntry
  <2>3. old.used /\ ~old.committed /\ old.data = Blank
    <3>1. pc = "seqWrite"
      BY <1>6 DEF SeqWrite
    <3>2. old.used /\ ~old.committed
      BY <2>1, <3>1, DescriptorTypes DEF SeqInOrder
    <3> QED
      BY <2>1, <3>1, <3>2 DEF EntriesTidy
  <2>4. r \in Records
    <3>1. fd.fill \in 1 .. PagesPerBlock
      BY <2>1, DescriptorTypes, Sizes
    <3> QED
      BY <2>1, <3>1 DEF Record, Records, TypeOK, Descriptors
  <2>5. fse' = [fse EXCEPT ![fd.seq][fd.next] = e]
    <3>1. Over(old.data, r, Blank, Damaged) = r
      BY <2>3 DEF Over
    <3>2. fse' = [fse EXCEPT ![fd.seq][fd.next].data =
                     Over(fse[fd.seq][fd.next].data, r, Blank, Damaged)]
      BY <1>1, <1>6 DEF SeqWrite
    <3> QED
      BY <3>1, <3>2
  <2> HIDE DEF r
  <2>6. e \in SeqEntry /\ e.data = r /\ ~e.committed
    BY <2>2, <2>3, <2>4 DEF SeqEntry
  <2> HIDE DEF e
  <2>7. \A b \in Blocks, i \in SeqIdx :
            fse'[b][i] = IF b = fd.seq /\ i = fd.next THEN e ELSE fse[b][i]
    BY <2>1, <2>2, <2>5, <2>6, EntryUpdate
  <2>8. pc = "seqWrite" /\ pc' = "seqCommit" /\ fd' = fd
    BY <1>6 DEF SeqWrite, ram
  <2>9. \A b \in Blocks, i \in SeqIdx :
          /\ fse'[b][i].committed => Intact(fse'[b][i].data)
          /\ fse'[b][i].used /\ ~fse'[b][i].committed => b = fd.seq /\ i = fd.next
          /\ fse'[b][i].data # Blank /\ ~fse'[b][i].committed => b = fd.seq /\ i = fd.next
    BY <2>1, <2>6, <2>7, <2>8 DEF EntriesTidy
  <2>10. fse'[fd.seq][fd.next].data = Record(fd.data, fd.fill, fd.off, fd.size)
    BY <2>1, <2>6, <2>7 DEF r
  <2> QED
    BY <1>2, <2>8, <2>9, <2>10 DEF EntriesTidy
<1>7. CASE SeqCommit
  <2> DEFINE old == fse[fd.seq][fd.next]
             e == [old EXCEPT !.committed = TRUE]
  <2>1. fd.seq \in Blocks /\ fd.next \in SeqIdx /\ fd.data \in Blocks
    BY <1>7, NextEntry DEF SeqCommit, SeqPcs
  <2>2. fse \in [Blocks -> [SeqIdx -> SeqEntry]] /\ old \in SeqEntry
    BY <2>1 DEF TypeOK, SeqEntry
  <2>3. e \in SeqEntry /\ e.data = old.data /\ e.committed
    BY <2>2 DEF SeqEntry
  <2>4. fse' = [fse EXCEPT ![fd.seq][fd.next] = e]
    BY <1>7 DEF SeqCommit
  <2>5. Intact(old.data)
    BY <1>7, <2>1 DEF SeqCommit, EntriesTidy, Record, Intact
  <2> HIDE DEF e
  <2>6. \A b \in Blocks, i \in SeqIdx :
            fse'[b][i] = IF b = fd.seq /\ i = fd.next THEN e ELSE fse[b][i]
    BY <2>1, <2>2, <2>3, <2>4, EntryUpdate
  <2>7. pc' \notin {"seqWrite", "seqCommit"}
    BY <1>7 DEF SeqCommit
  <2>8. \A b \in Blocks, i \in SeqIdx :
          /\ fse'[b][i].committed => Intact(fse'[b][i].data)
          /\ fse'[b][i].used => fse'[b][i].committed
          /\ fse'[b][i].data # Blank => fse'[b][i].committed
    BY <2>1, <2>3, <2>5, <2>6 DEF EntriesTidy
  <2> QED
    BY <1>2, <2>7, <2>8 DEF EntriesTidy
<1>8. \/ UNCHANGED <<fse, fd, pc>> \/ SeqUse \/ SeqWrite \/ SeqCommit
      \/ fse' = fse /\ pc \notin {"seqWrite", "seqCommit"} /\ pc' # "seqCommit"
  BY <1>1 DEF Write, FsyncNothing, Fsync, NextChunk, WritePage, Migrate,
     NewSeqBlock, TakeIndirEntry, IndirUse, IndirWrite, IndirCommit, Close, Open,
     vars, flash, ram
<1> QED
  BY <1>3, <1>4, <1>5, <1>6, <1>7, <1>8

\* Between steps of r2f2_fsync that make an entry, the last one is the descriptor's.
LEMMA LastEntryCommitted ==
    ASSUME FileInv, EntriesTidy, fd.open, pc \notin {"seqWrite", "seqCommit"},
           fd.next # 0
    PROVE  /\ fd.seq \in Blocks /\ fd.next - 1 \in SeqIdx
           /\ fse[fd.seq][fd.next - 1].used /\ fse[fd.seq][fd.next - 1].committed
           /\ Intact(fse[fd.seq][fd.next - 1].data)
<1> USE DEF FileInv
<1>1. fd.seq \in Blocks /\ fd.next \in 1 .. SeqEntries
  BY DescriptorTypes DEF DescriptorSound, TypeOK, Descriptors
<1>2. fd.next - 1 \in SeqIdx /\ fd.next - 1 < fd.next
  BY <1>1, Sizes DEF SeqIdx
<1>3. fse[fd.seq][fd.next - 1].used
  BY <1>2 DEF SeqInOrder
<1> QED
  BY <1>1, <1>2, <1>3 DEF EntriesTidy

LEMMA DescriptorTidyInv ==
    ASSUME FileInv, [Next]_vars, Undisturbed', EntriesTidy, DescriptorTidy
    PROVE  DescriptorTidy'
<1> USE DEF FileInv
<1>1. \/ UNCHANGED vars \/ Write \/ FsyncNothing \/ Fsync \/ NextChunk
      \/ WritePage \/ Migrate \/ NewSeqBlock \/ TakeIndirEntry
      \/ IndirUse \/ IndirWrite \/ IndirCommit
      \/ SeqUse \/ SeqWrite \/ SeqCommit \/ Close \/ Open
  BY UndisturbedSteps
<1>2. CASE UNCHANGED <<fse, fd, pc>>
  BY <1>2 DEF DescriptorTidy
<1>3. CASE pc' \notin {"idle", "chunk"} \/ ~fd'.open
  BY <1>3 DEF DescriptorTidy
<1>4. CASE Fsync
  <2>1. /\ pc = "idle" /\ fd.open /\ pc' = "chunk" /\ fse' = fse
        /\ \/ fd.data # None /\ fd' = fd
           \/ \E b \in Blocks : fd.data = None /\ fd' = [fd EXCEPT !.data = b]
    BY <1>4 DEF Fsync, flash
  <2>2. CASE fd.next = 0
    <3>1. fd.fill = 0 /\ fd.off = 0 /\ fd.size = 0
      BY <2>1, <2>2 DEF DescriptorTidy
    <3>2. fd'.next = 0 /\ fd'.fill = 0 /\ fd'.off = 0 /\ fd'.size = 0
      BY <2>1, <2>2, <3>1 DEF TypeOK, Descriptors
    <3> QED
      BY <2>1, <3>2 DEF DescriptorTidy
  <2>3. CASE fd.next # 0
    <3>1. fse[fd.seq][fd.next - 1].data = Record(fd.data, fd.fill, fd.off, fd.size)
      BY <2>1, <2>3 DEF DescriptorTidy
    <3>2. Intact(fse[fd.seq][fd.next - 1].data)
      BY <2>1, <2>3, LastEntryCommitted
    <3>3. fd.data # None
      BY <3>1, <3>2, BlockNumbers DEF Intact, Record
    <3> QED
      BY <2>1, <2>3, <3>1, <3>3 DEF DescriptorTidy
  <2> QED
    BY <2>2, <2>3
<1>5. CASE SeqCommit
  <2>1. /\ pc = "seqCommit" /\ fd' = [fd EXCEPT !.next = @ + 1]
        /\ fd.seq \in Blocks /\ fd.next \in SeqIdx /\ fd.next \in Nat
    BY <1>5, NextEntry, DescriptorTypes DEF SeqCommit, SeqPcs
  <2>2. /\ fd'.seq = fd.seq /\ fd'.next = fd.next + 1 /\ fd'.data = fd.data
        /\ fd'.fill = fd.fill /\ fd'.off = fd.off /\ fd'.size = fd.size
    BY <2>1 DEF TypeOK, Descriptors
  <2>3. fd'.next # 0 /\ fd'.next - 1 = fd.next
    BY <2>1, <2>2
  <2>4. fse'[fd.seq][fd.next].data = fse[fd.seq][fd.next].data
    <3>1. fse' = [fse EXCEPT ![fd.seq][fd.next] =
                     [fse[fd.seq][fd.next] EXCEPT !.committed = TRUE]]
      BY <1>5 DEF SeqCommit
    <3>2. fse \in [Blocks -> [SeqIdx -> SeqEntry]] /\ fse[fd.seq][fd.next] \in SeqEntry
      BY <2>1 DEF TypeOK, SeqEntry
    <3>3. fse'[fd.seq][fd.next] = [fse[fd.seq][fd.next] EXCEPT !.committed = TRUE]
      BY <2>1, <3>1, <3>2
    <3> QED
      BY <3>2, <3>3 DEF SeqEntry
  <2>5. fse[fd.seq][fd.next].data = Record(fd.data, fd.fill, fd.off, fd.size)
    BY <2>1 DEF EntriesTidy
  <2>6. fse'[fd'.seq][fd'.next - 1].data
            = Record(fd'.data, fd'.fill, fd'.off, fd'.size)
    BY <2>2, <2>3, <2>4, <2>5
  <2> QED
    BY <2>3, <2>6 DEF DescriptorTidy
<1>6. CASE Open
  <2>1. CanOpen /\ OpenedIntact /\ fd' = Opened /\ fse' = fse
    BY <1>6 DEF Open, flash
  <2>2. PICK d : d = Opened
    OBVIOUS
  <2>3. OpenedSeq \in Blocks /\ d.seq = OpenedSeq
    BY <2>1, <2>2, OpenedIs
  <2>4. CASE d.next = 0 /\ d.data = None /\ d.fill = 0 /\ d.off = 0 /\ d.size = 0
    BY <2>1, <2>2, <2>4 DEF DescriptorTidy
  <2>5. ASSUME NEW i \in SeqIdx, Intact(fse[OpenedSeq][i].data), d.next = i + 1,
               d.data = fse[OpenedSeq][i].data.block,
               d.fill = fse[OpenedSeq][i].data.fill,
               d.off = fse[OpenedSeq][i].data.off,
               d.size = fse[OpenedSeq][i].data.size
        PROVE  DescriptorTidy'
    <3>1. d.next # 0 /\ d.next - 1 = i
      BY <2>5, Sizes DEF SeqIdx
    <3>2. fse[OpenedSeq][i].data \in Records
      BY <2>3, <2>5, EntryTypes, IntactRecords
    <3>3. fse[OpenedSeq][i].data = Record(d.data, d.fill, d.off, d.size)
      BY <2>5, <3>2 DEF Records, Record
    <3>4. fse'[d.seq][d.next - 1].data = Record(d.data, d.fill, d.off, d.size)
      BY <2>1, <2>3, <3>1, <3>3
    <3> QED
      BY <2>1, <2>2, <3>1, <3>4 DEF DescriptorTidy
  <2> QED
    BY <2>1, <2>2, <2>4, <2>5, OpenedIs
<1>7. \/ UNCHANGED <<fse, fd, pc>> \/ Fsync \/ SeqCommit \/ Open
      \/ pc' \notin {"idle", "chunk"} \/ ~fd'.open
  <2>1. Close => ~fd'.open
    BY DEF Close, NoDescriptor
  <2>2. WritePage => pc' \notin {"idle", "chunk"}
    BY DEF WritePage
  <2> QED
    BY <1>1, <2>1, <2>2 DEF Write, FsyncNothing, NextChunk, Migrate,
       NewSeqBlock, TakeIndirEntry, IndirUse, IndirWrite, IndirCommit, SeqUse, SeqWrite,
       vars, flash, ram
<1> QED
  BY <1>2, <1>3, <1>4, <1>5, <1>6, <1>7

-----------------------------------------------------------------------------
\* What is reachable stays so.
LEMMA ReachableIs ==
    ASSUME FileInv, OneIndirBlock
    PROVE  Reachable = ToSet(dme) \cup SeqBlocks \cup {RecordOf(c).block : c \in Committed}
<1>1. Migrated => Chain[Last(dme)] \subseteq ToSet(dme)
  BY OneIndir, DmeFacts DEF ToSet, FileInv, TypeOK
<1> QED
  BY <1>1 DEF Reachable

LEMMA ReachableStays ==
    ASSUME FileInv, [Next]_vars, Undisturbed' PROVE Reachable \subseteq Reachable'
<1>1. FileInv' /\ OneIndirBlock /\ OneIndirBlock'
  BY StepInv, UndisturbedSteps DEF Undisturbed
<1>2. ToSet(dme) \subseteq ToSet(dme')
  <2>1. CASE dme' = dme
    BY <2>1
  <2>2. CASE Migrate
    <3>1. PICK n \in Blocks : dme' = Append(dme, n)
      BY <2>2 DEF Migrate
    <3>2. dme \in Seq(Blocks) /\ DOMAIN dme = 1 .. Len(dme) /\ Len(dme) \in Nat
      BY DmeFacts DEF FileInv, TypeOK
    <3>3. /\ Append(dme, n) \in Seq(Blocks) /\ Len(Append(dme, n)) = Len(dme) + 1
          /\ \A i \in 1 .. Len(dme) : Append(dme, n)[i] = dme[i]
      BY <3>2, AppendProperties
    <3>4. DOMAIN dme' = 1 .. Len(dme) + 1
      BY <3>1, <3>3, LenProperties
    <3>5. \A i \in DOMAIN dme : i \in DOMAIN dme' /\ dme'[i] = dme[i]
      BY <3>1, <3>2, <3>3, <3>4
    <3> QED
      BY <3>5 DEF ToSet
  <2>3. dme' = dme \/ Migrate
    BY UndisturbedSteps DEF Write, FsyncNothing, Fsync, NextChunk, WritePage,
       NewSeqBlock, TakeIndirEntry, IndirUse, IndirWrite, IndirCommit,
       SeqUse, SeqWrite, SeqCommit, Close, Open, vars, flash
  <2> QED
    BY <2>1, <2>2, <2>3
<1>3. SeqBlocks \subseteq SeqBlocks'
  BY SeqBlocksStay
<1>4. \A c \in Committed : c \in Committed' /\ RecordOf(c)' = RecordOf(c)
  <2> SUFFICES ASSUME NEW c \in Committed
               PROVE  c \in Committed' /\ RecordOf(c)' = RecordOf(c)
    OBVIOUS
  <2>1. c \in SeqBlocks \X SeqIdx /\ c[1] \in Blocks /\ c[2] \in SeqIdx
        /\ fse[c[1]][c[2]].used /\ fse[c[1]][c[2]].committed
    BY SeqBlocksAreBlocks DEF Committed, Live, FileInv
  <2>2. /\ fse'[c[1]][c[2]].committed /\ fse'[c[1]][c[2]].used
        /\ fse'[c[1]][c[2]].data = fse[c[1]][c[2]].data
    BY <2>1, EntriesStay
  <2> QED
    BY <1>3, <2>1, <2>2 DEF Committed, Live, RecordOf
<1>5. Reachable' = ToSet(dme') \cup SeqBlocks' \cup {RecordOf(c)'.block : c \in Committed'}
  <2>1. Migrated' => Chain'[Last(dme')] \subseteq ToSet(dme')
    <3> SUFFICES ASSUME Migrated' PROVE Chain'[Last(dme')] \subseteq ToSet(dme')
      OBVIOUS
    <3>1. Last(dme') \in Blocks /\ Last(dme') \in ToSet(dme') /\ link' \in Links
      BY <1>1, DmeFacts DEF FileInv, TypeOK, Pristine, Links, ToSet
    <3>2. link'[Last(dme')] = None
      BY <1>1 DEF OneIndirBlock
    <3>3. Chain'[Last(dme')] = {Last(dme')}
      BY <3>1, <3>2, ChainNext, FromUnfolds
    <3> QED
      BY <3>1, <3>3
  <2> QED
    BY <2>1 DEF Reachable
<1> QED
  BY <1>1, <1>2, <1>3, <1>4, <1>5, ReachableIs

\* Every block that is handed out is reachable at the end of the call.
LEMMA BlocksTidyInv ==
    ASSUME FileInv, [Next]_vars, Undisturbed', EntriesTidy, DescriptorTidy, BlocksTidy
    PROVE  BlocksTidy'
<1> USE DEF FileInv
<1>1. /\ Undisturbed /\ OneIndirBlock
      /\ \/ UNCHANGED vars \/ Write \/ FsyncNothing \/ Fsync \/ NextChunk
         \/ WritePage \/ Migrate \/ NewSeqBlock \/ TakeIndirEntry
         \/ IndirUse \/ IndirWrite \/ IndirCommit
         \/ SeqUse \/ SeqWrite \/ SeqCommit \/ Close \/ Open
  BY UndisturbedSteps DEF Undisturbed
<1>2. /\ \A b \in Reachable : b \in Reachable'
      /\ pc \notin {"slot"} \cup TakePcs => op.seq = None
      /\ \A b \in 1 .. fresh - 1 : b \in Reachable \/ (pc # "idle" /\ b \in {fd.data, op.seq})
      /\ fresh \in Nat /\ \A b \in 1 .. fresh - 1 : b # None
  BY ReachableStays, DescriptorTypes DEF BlocksTidy, None
<1>3. CASE fresh' = fresh /\ pc = "idle" /\ pc' = "idle" /\ op' = op
  BY <1>2, <1>3 DEF BlocksTidy, TakePcs
<1>4. CASE /\ fresh' = fresh /\ fd'.data = fd.data /\ op'.seq = op.seq /\ pc' # "idle"
           /\ pc' \notin {"slot"} \cup TakePcs => pc \notin {"slot"} \cup TakePcs
  BY <1>2, <1>4 DEF BlocksTidy
<1>5. CASE Fsync
  <2>1. /\ pc = "idle" /\ pc' = "chunk" /\ op' = [NoOp EXCEPT !.total = count]
        /\ \/ fresh' = fresh /\ fd' = fd
           \/ \E b \in Blocks : Allocate(b) /\ fd' = [fd EXCEPT !.data = b]
    BY <1>5 DEF Fsync
  <2>2. op'.seq = None
    BY <2>1 DEF NoOp
  <2>3. \A b \in 1 .. fresh' - 1 : b \in 1 .. fresh - 1 \/ b = fd'.data
    <3>1. ASSUME NEW n \in Blocks, Allocate(n), fd' = [fd EXCEPT !.data = n]
          PROVE  fresh' = fresh + 1 /\ fd'.data = fresh
      BY <3>1, AllocatedBlock DEF TypeOK, Descriptors
    <3> QED
      BY <1>2, <2>1, <3>1
  <2> QED
    BY <1>2, <2>1, <2>2, <2>3 DEF BlocksTidy, TakePcs
<1>6. CASE NextChunk
  <2>1. pc = "chunk" /\ pc' = "page" /\ op'.seq = op.seq /\ op.seq = None
    BY <1>2, <1>6 DEF NextChunk, TypeOK, Locals, TakePcs
  <2>2. CASE fresh' = fresh /\ fd' = fd
    BY <1>2, <2>1, <2>2 DEF BlocksTidy, TakePcs
  <2>3. CASE fd.fill = PagesPerBlock
    <3>1. PICK n \in Blocks : /\ Allocate(n)
                              /\ fd' = [fd EXCEPT !.data = n, !.fill = 0, !.off = fd.size]
      BY <1>6, <2>3 DEF NextChunk
    <3>2. fresh' = fresh + 1 /\ fd'.data = fresh
      BY <3>1, AllocatedBlock DEF TypeOK, Descriptors
    <3>3. fd.data \in Reachable
      <4>1. fd.open /\ fd.next # 0
            /\ fse[fd.seq][fd.next - 1].data = Record(fd.data, fd.fill, fd.off, fd.size)
        BY <2>1, <2>3, Sizes DEF DescriptorTidy, DescriptorSound
      <4>2. /\ fd.next - 1 \in SeqIdx
            /\ fse[fd.seq][fd.next - 1].used /\ fse[fd.seq][fd.next - 1].committed
        BY <2>1, <4>1, LastEntryCommitted
      <4>3. fd.seq \in SeqBlocks
        BY <1>1, <4>1, OpensThere
      <4> DEFINE c == <<fd.seq, fd.next - 1>>
      <4>4. c \in Committed /\ RecordOf(c).block = fd.data
        BY <4>1, <4>2, <4>3 DEF Committed, Live, RecordOf, Record
      <4> QED
        BY <4>4 DEF Reachable
    <3>4. \A b \in 1 .. fresh' - 1 : b \in 1 .. fresh - 1 \/ b = fd'.data
      BY <1>2, <3>2
    <3> QED
      BY <1>2, <2>1, <3>3, <3>4 DEF BlocksTidy, TakePcs
  <2> QED
    BY <1>6, <2>2, <2>3 DEF NextChunk
<1>7. CASE Migrate
  <2>1. pc = "meta" /\ pc' = pc /\ op' = op
    BY <1>7 DEF Migrate
  <2>2. PICK n \in Blocks : /\ Allocate(n) /\ dme' = Append(dme, n)
                            /\ fd' = [fd EXCEPT !.indir = n]
    BY <1>7 DEF Migrate
  <2>3. fresh' = fresh + 1 /\ fd'.data = fd.data /\ n = fresh
    BY <2>2, AllocatedBlock DEF TypeOK, Descriptors
  <2>4. n \in Reachable'
    <3>1. dme \in Seq(Blocks) /\ Len(dme) \in Nat
      BY DmeFacts DEF TypeOK
    <3>2. /\ Append(dme, n) \in Seq(Blocks) /\ Len(Append(dme, n)) = Len(dme) + 1
          /\ Append(dme, n)[Len(dme) + 1] = n
      BY <3>1, AppendProperties
    <3>3. DOMAIN dme' = 1 .. Len(dme) + 1
      BY <2>2, <3>2, LenProperties
    <3>4. n \in ToSet(dme')
      BY <2>2, <3>1, <3>2, <3>3 DEF ToSet
    <3> QED
      BY <3>4 DEF Reachable
  <2>5. \A b \in 1 .. fresh' - 1 : b \in 1 .. fresh - 1 \/ b = n
    BY <1>2, <2>3
  <2> QED
    BY <1>2, <2>1, <2>3, <2>4, <2>5 DEF BlocksTidy, TakePcs
<1>8. CASE NewSeqBlock
  <2>1. pc = "meta" /\ pc' = "slot" /\ fd' = fd /\ op.seq = None
    BY <1>2, <1>8 DEF NewSeqBlock, TakePcs, ram
  <2>2. PICK n \in Blocks : Allocate(n) /\ op' = [op EXCEPT !.seq = n]
    BY <1>8 DEF NewSeqBlock
  <2>3. fresh' = fresh + 1 /\ op'.seq = fresh
    BY <2>2, AllocatedBlock DEF TypeOK, Locals
  <2>4. \A b \in 1 .. fresh' - 1 : b \in 1 .. fresh - 1 \/ b = op'.seq
    BY <1>2, <2>3
  <2> QED
    BY <1>2, <2>1, <2>4 DEF BlocksTidy
<1>9. CASE IndirCommit
  <2>1. /\ pc = "indirCommit" /\ pc' = "seqUse" /\ fresh' = fresh
        /\ fie' = [fie EXCEPT ![fd.indir][op.slot] =
                      [fie[fd.indir][op.slot] EXCEPT !.committed = TRUE]]
        /\ UNCHANGED <<dme, link>>
    BY <1>9 DEF IndirCommit
  <2>2. op'.seq = None /\ fd'.data = fd.data
    BY <1>9 DEF IndirCommit, TypeOK, Locals, Descriptors
  <2>3. /\ fd.open /\ Migrated /\ fd.indir \in Blocks /\ op.slot \in IndirIdx
        /\ op.seq \in Blocks
        /\ fie \in [Blocks -> [IndirIdx -> IndirEntry]]
        /\ fie[fd.indir][op.slot] \in IndirEntry
    BY <2>1, NextIndirEntry DEF TakePcs
  <2>4. fie[fd.indir][op.slot].used /\ fie[fd.indir][op.slot].seq = op.seq
    BY <2>1 DEF IndirInOrder, TakePcs
  <2>5. Live(fie'[fd.indir][op.slot]) /\ fie'[fd.indir][op.slot].seq = op.seq
    <3>1. fie'[fd.indir][op.slot] = [fie[fd.indir][op.slot] EXCEPT !.committed = TRUE]
      BY <2>1, <2>3
    <3> QED
      BY <2>3, <2>4, <3>1 DEF Live, IndirEntry
  <2>6. Migrated' /\ Chain' = Chain /\ fd.indir \in Chain[Last(dme)]
    BY <2>1, <2>3 DEF Migrated, Chain, IndirInOrder
  <2>7. op.seq \in SeqBlocks'
    BY <2>1, <2>3, <2>5, <2>6 DEF SeqBlocks
  <2>8. op.seq \in Reachable'
    BY <2>7 DEF Reachable
  <2> QED
    BY <1>2, <2>1, <2>2, <2>8 DEF BlocksTidy, TakePcs
<1>10. CASE SeqCommit
  <2>1. pc = "seqCommit" /\ pc' \in {"chunk", "idle"} /\ fresh' = fresh /\ op.seq = None
    BY <1>2, <1>10 DEF SeqCommit, TakePcs
  <2>2. op'.seq = None
    BY <1>10, <2>1 DEF SeqCommit, TypeOK, Locals, NoOp
  <2>3. fd.open /\ fd.seq \in Blocks /\ fd.next \in SeqIdx
    BY <2>1, NextEntry DEF SeqPcs
  <2>4. fd.seq \in SeqBlocks'
    BY <1>1, <2>3, OpensThere, SeqBlocksStay
  <2>5. fse[fd.seq][fd.next].used
        /\ fse[fd.seq][fd.next].data = Record(fd.data, fd.fill, fd.off, fd.size)
    BY <2>1 DEF SeqInOrder, EntriesTidy
  <2>6. Live(fse'[fd.seq][fd.next]) /\ fse'[fd.seq][fd.next].data.block = fd.data
    <3>1. fse' = [fse EXCEPT ![fd.seq][fd.next] =
                     [fse[fd.seq][fd.next] EXCEPT !.committed = TRUE]]
      BY <1>10 DEF SeqCommit
    <3>2. fse \in [Blocks -> [SeqIdx -> SeqEntry]] /\ fse[fd.seq][fd.next] \in SeqEntry
      BY <2>3 DEF TypeOK, SeqEntry
    <3>3. fse'[fd.seq][fd.next] = [fse[fd.seq][fd.next] EXCEPT !.committed = TRUE]
      BY <2>3, <3>1, <3>2
    <3> QED
      BY <2>5, <3>2, <3>3 DEF Live, SeqEntry, Record
  <2>7. ASSUME NEW s, NEW i, s = fd.seq, i = fd.next
        PROVE  <<s, i>> \in Committed' /\ RecordOf(<<s, i>>)'.block = fd.data
    BY <2>3, <2>4, <2>6, <2>7 DEF Committed, RecordOf
  <2>8. fd.data \in Reachable'
    BY <2>7 DEF Reachable
  <2> QED
    BY <1>2, <2>1, <2>2, <2>8 DEF BlocksTidy
<1>11. \/ Fsync \/ NextChunk \/ Migrate \/ NewSeqBlock \/ IndirCommit \/ SeqCommit
       \/ fresh' = fresh /\ pc = "idle" /\ pc' = "idle" /\ op' = op
       \/ /\ fresh' = fresh /\ fd'.data = fd.data /\ op'.seq = op.seq /\ pc' # "idle"
          /\ pc' \notin {"slot"} \cup TakePcs => pc \notin {"slot"} \cup TakePcs
  <2>1. CASE WritePage
    <3>1. fd'.data = fd.data /\ op'.seq = op.seq
      BY <2>1 DEF WritePage, TypeOK, Descriptors, Locals
    <3>2. fresh' = fresh /\ pc = "page" /\ pc' # "idle"
      BY <2>1 DEF WritePage
    <3> QED
      BY <3>1, <3>2 DEF TakePcs
  <2>2. CASE TakeIndirEntry
    BY <2>2 DEF TakeIndirEntry, TypeOK, Locals, TakePcs, ram
  <2>3. CASE IndirUse \/ IndirWrite \/ SeqUse \/ SeqWrite
    BY <2>3 DEF IndirUse, IndirWrite, SeqUse, SeqWrite, TakePcs, ram
  <2>4. CASE Write \/ FsyncNothing \/ Close \/ Open
    BY <2>4 DEF Write, FsyncNothing, Close, Open
  <2>5. CASE UNCHANGED vars
    BY <2>5 DEF vars, flash, ram
  <2> QED
    BY <1>1, <2>1, <2>2, <2>3, <2>4, <2>5
<1> QED
  BY <1>3, <1>4, <1>5, <1>6, <1>7, <1>8, <1>9, <1>10, <1>11

-----------------------------------------------------------------------------
LEMMA InitTidy == Init => TidyInv
<1> SUFFICES ASSUME Init PROVE EntriesTidy /\ DescriptorTidy /\ BlocksTidy
  BY DEF TidyInv
<1>1. FileInv /\ ~Migrated
  BY InitInv DEF Init, Migrated
<1>2. EntriesTidy
  BY <1>1 DEF Init, EntriesTidy, BlankSeqBlock
<1>3. DescriptorTidy
  BY DEF Init, DescriptorTidy, NoDescriptor
<1>4. BlocksTidy
  <2>1. 1 \in ToSet(dme)
    BY DEF Init, ToSet
  <2>2. \A b \in 1 .. fresh - 1 : b = 1
    BY DEF Init
  <2> QED
    BY <2>1, <2>2 DEF Init, BlocksTidy, Reachable, NoOp
<1> QED
  BY <1>2, <1>3, <1>4

\* Without faults, until the file outgrows its first indirection block, TidyInv holds.
THEOREM TidyInvariance == Spec => []TidyInv
<1>1. FileInv /\ TidyInv /\ [Next]_vars => TidyInv'
  <2> SUFFICES ASSUME FileInv, TidyInv, [Next]_vars, Undisturbed'
               PROVE  EntriesTidy' /\ DescriptorTidy' /\ BlocksTidy'
    BY DEF TidyInv
  <2>1. EntriesTidy /\ DescriptorTidy /\ BlocksTidy
    BY UndisturbedSteps DEF TidyInv
  <2> QED
    BY <2>1, EntriesTidyInv, DescriptorTidyInv, BlocksTidyInv
<1> QED
  BY <1>1, InitTidy, FileInvariance, PTL DEF Spec

\* Between calls, r2f2_close and r2f2_open give back the descriptor that is in RAM.
THEOREM ReopenGivesDescriptor == Spec => []DescriptorMatchesFlash
<1>1. ASSUME FileInv, TidyInv PROVE DescriptorMatchesFlash
  <2> USE DEF FileInv
  <2> SUFFICES ASSUME Undisturbed, pc = "idle", fd.open
               PROVE  CanOpen /\ OpenedIntact /\ Opened = fd
    BY DEF DescriptorMatchesFlash
  <2>1. EntriesTidy /\ DescriptorTidy /\ OneIndirBlock
    BY <1>1 DEF TidyInv, Undisturbed
  <2>2. CanOpen /\ OpenedSeq = fd.seq /\ OpenedSeq \in Blocks
    BY <1>1, <2>1, OpensThere, OpenedFacts DEF Newest
  <2>3. OpenedIndir = fd.indir
    BY <1>1, <2>1, OneIndir DEF OpenedIndir, DescriptorSound
  <2>4. /\ DOMAIN fse[fd.seq] = SeqIdx
        /\ \A i \in SeqIdx : fse[fd.seq][i].committed => \A j \in 0 .. i : fse[fd.seq][j].used
    BY <1>1, <2>2 DEF TypeOK, SeqInOrder
  <2>5. Valid(fse[fd.seq]) = {i \in SeqIdx : fse[fd.seq][i].committed}
    BY <2>4, ValidAre
  <2>6. fd.next \in Nat /\ fd.next \in 0 .. SeqEntries
    BY <1>1, DescriptorTypes DEF TypeOK, Descriptors
  <2>7. \A i \in Valid(fse[fd.seq]) : i < fd.next
    BY <1>1, <2>5, <2>6, Sizes DEF SeqInOrder, SeqIdx
  <2>8. fd = [open |-> TRUE, indir |-> fd.indir, seq |-> fd.seq, next |-> fd.next,
              data |-> fd.data, fill |-> fd.fill, off |-> fd.off, size |-> fd.size]
    BY <1>1 DEF TypeOK, Descriptors
  <2>9. CASE fd.next = 0
    <3>1. Valid(fse[fd.seq]) = {}
      BY <2>5, <2>7, <2>9, Sizes DEF SeqIdx
    <3>2. fd.data = None /\ fd.fill = 0 /\ fd.off = 0 /\ fd.size = 0
      BY <2>1, <2>9 DEF DescriptorTidy
    <3>3. Opened = [open |-> TRUE, indir |-> fd.indir, seq |-> fd.seq, next |-> 0,
                    data |-> None, fill |-> 0, off |-> 0, size |-> 0]
      BY <2>2, <2>3, <3>1 DEF Opened, NoDescriptor
    <3>4. OpenedIntact
      BY <2>2, <3>1 DEF OpenedIntact
    <3> QED
      BY <2>2, <2>8, <2>9, <3>2, <3>3, <3>4
  <2>10. CASE fd.next # 0
    <3> DEFINE k == fd.next - 1
               r == fse[fd.seq][k].data
    <3>1. k \in SeqIdx /\ fse[fd.seq][k].committed /\ Intact(r)
      BY <1>1, <2>1, <2>10, LastEntryCommitted
    <3>2. r = Record(fd.data, fd.fill, fd.off, fd.size)
      BY <2>1, <2>10 DEF DescriptorTidy
    <3>3. k \in Valid(fse[fd.seq]) /\ \A i \in Valid(fse[fd.seq]) : i <= k
      BY <2>5, <2>6, <2>7, <3>1, Sizes DEF SeqIdx
    <3>4. Max(Valid(fse[fd.seq])) = k
      BY <2>4, <3>3, LastValidIs, Sizes DEF SeqIdx
    <3>5. OpenedIntact
      BY <2>2, <3>1, <3>4 DEF OpenedIntact
    <3>6. Opened = [open |-> TRUE, indir |-> fd.indir, seq |-> fd.seq, next |-> k + 1,
                    data |-> r.block, fill |-> r.fill, off |-> r.off, size |-> r.size]
      BY <2>2, <2>3, <3>3, <3>4 DEF Opened, DescriptorAfter
    <3>7. /\ r.block = fd.data /\ r.fill = fd.fill /\ r.off = fd.off /\ r.size = fd.size
          /\ k + 1 = fd.next
      BY <2>6, <3>2 DEF Record
    <3> QED
      BY <2>2, <2>8, <3>5, <3>6, <3>7
  <2> QED
    BY <2>9, <2>10
<1> QED
  BY <1>1, FileInvariance, TidyInvariance, PTL

\* Between calls, every block that allocate_block handed out can be found from the
\* directory entry, and nothing else can.
THEOREM BlocksFound == Spec => []NoBlockLost
<1>1. ASSUME FileInv, TidyInv PROVE NoBlockLost
  <2> USE DEF FileInv
  <2> SUFFICES ASSUME Undisturbed, pc = "idle" PROVE 1 .. fresh - 1 = Reachable
    BY DEF NoBlockLost
  <2>1. EntriesTidy /\ BlocksTidy /\ OneIndirBlock
    BY <1>1 DEF TidyInv, Undisturbed
  <2>2. 1 .. fresh - 1 \subseteq Reachable
    BY <2>1 DEF BlocksTidy
  <2>3. \A b \in Blocks : b < fresh => b \in 1 .. fresh - 1
    BY <1>1, BlockNumbers, DescriptorTypes
  <2>4. ToSet(dme) \subseteq 1 .. fresh - 1
    BY <1>1, <2>3 DEF ToSet, TypeOK, Pristine
  <2>5. SeqBlocks \subseteq 1 .. fresh - 1
    <3>1. CASE Migrated
      <4>1. ASSUME NEW s \in SeqBlocks PROVE s \in Blocks /\ s < fresh
        <5>1. Chain[Last(dme)] \subseteq Blocks
          BY <1>1, <2>1, <3>1, OneIndir
        <5>2. PICK b \in Chain[Last(dme)], i \in IndirIdx : fie[b][i].seq = s
          BY <3>1, <4>1 DEF SeqBlocks
        <5> QED
          BY <1>1, <4>1, <5>1, <5>2, SeqBlocksAreBlocks DEF Pristine
      <4> QED
        BY <2>3, <4>1
    <3>2. CASE ~Migrated
      <4>1. Last(dme) \in ToSet(dme)
        BY <1>1, DmeFacts DEF ToSet, TypeOK
      <4> QED
        BY <2>4, <3>2, <4>1 DEF SeqBlocks
    <3> QED
      BY <3>1, <3>2
  <2>6. \A c \in Committed : RecordOf(c).block \in 1 .. fresh - 1
    <3> SUFFICES ASSUME NEW c \in Committed PROVE RecordOf(c).block \in 1 .. fresh - 1
      OBVIOUS
    <3>1. c[1] \in Blocks /\ c[2] \in SeqIdx /\ fse[c[1]][c[2]].committed
      BY <1>1, SeqBlocksAreBlocks DEF Committed, Live
    <3>2. Intact(fse[c[1]][c[2]].data)
      BY <2>1, <3>1 DEF EntriesTidy
    <3> QED
      BY <1>1, <2>3, <3>1, <3>2 DEF Pristine, RecordOf, Intact
  <2> QED
    BY <1>1, <2>1, <2>2, <2>4, <2>5, <2>6, ReachableIs
<1> QED
  BY <1>1, FileInvariance, TidyInvariance, PTL
=============================================================================
