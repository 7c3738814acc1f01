------------------------------ MODULE R2F2File ------------------------------
(***************************************************************************)
(* Appending to a file of r2f2: r2f2_write, r2f2_fsync, r2f2_close and     *)
(* r2f2_open (r2f2.c), and what they call in r2f2_file.c and               *)
(* r2f2_metadata.c, for one registered file with one descriptor.           *)
(*                                                                         *)
(* The file's directory entry points to a block of sequence entries, one   *)
(* per chunk of data written; when that block is full, to a block of       *)
(* indirection entries, each for one sequence block, and those blocks are  *)
(* chained.  An entry is marked used, written, and marked committed.       *)
(*                                                                         *)
(* Data is counted in flash pages, and the n-th page the application       *)
(* writes has content n.  A step is the code up to a write that changes    *)
(* what the entries say; writes to a block nothing refers to yet are part  *)
(* of the step that allocates it.  So are the writes of the pointer to it  *)
(* in Migrate and ExtendChain: an error or a power loss before that write, *)
(* which loses the new block and changes nothing else, is not a state of   *)
(* the model.  A write is atomic, and one that reports an error has        *)
(* changed nothing.  Programming is that of NOR flash: onto anything but   *)
(* an erased cell or the same value, it leaves neither value.              *)
(***************************************************************************)
EXTENDS Integers, SequencesExt

CONSTANTS NumBlocks,      \* blocks the allocator can hand out, 1 .. NumBlocks
          PagesPerBlock,  \* data pages in a block, and in the block buffer
          SeqEntries,     \* NUM_FILE_SEQ_ENTRIES
          IndirEntries,   \* NUM_FILE_INDIR_ENTRIES
          MaxWrites,      \* bound: pages the application writes
          Faults          \* which of "crash", "nomem", "flash" may happen

ASSUME SizesAssumption ==
    /\ \A n \in {NumBlocks, PagesPerBlock, SeqEntries, IndirEntries} : n \in Nat \ {0}
    /\ MaxWrites \in Nat
ASSUME FaultsAssumption == Faults \subseteq {"crash", "nomem", "flash"}

Blocks == 1 .. NumBlocks
PageIdx == 0 .. PagesPerBlock - 1
SeqIdx == 0 .. SeqEntries - 1
IndirIdx == 0 .. IndirEntries - 1
None == 0                        \* a block pointer that is not set

Erased == 0                      \* contents of a page
Garbage == MaxWrites + 1
Contents == 0 .. MaxWrites + 1

Record(b, fill, off, size) == [block |-> b, fill |-> fill, off |-> off, size |-> size]
Blank == Record(NumBlocks + 1, 0, 0, 0)   \* all ones
Damaged == Record(0, 0, 0, 0)             \* two records in one place
Intact(r) == r.block \in Blocks
Records == [block : Blocks, fill : 1 .. PagesPerBlock,
            off : 0 .. MaxWrites, size : 0 .. MaxWrites]

VARIABLES
    dme,    \* flash: the next_block pointers of the file's directory entry
    fse,    \* flash: the entries of the sequence blocks
    fie,    \* flash: the entries of the indirection blocks
    link,   \* flash: next_block of the indirection blocks
    page,   \* flash: the pages of the data blocks
    fresh,  \* the next block the allocator hands out
    fd,     \* RAM: the descriptor's meta and file_size
    buf,    \* RAM: block_buffer.data, a page each
    count,  \* RAM: block_buffer.count
    pc,     \* where r2f2_fsync stands
    op,     \* its local variables
    wrote,  \* pages the application has written
    app,    \* the file's content as the application knows it
    acked,  \* what it was when r2f2_fsync last returned RET_OK
    unnoticed  \* whether the write of an entry has failed without a notice

flash == <<dme, fse, fie, link, page>>
ram == <<fd, buf, count>>
ghosts == <<wrote, app, acked, unnoticed>>
vars == <<flash, fresh, ram, pc, op, ghosts>>

NoDescriptor == [open |-> FALSE, indir |-> None, seq |-> None, next |-> 0,
                 data |-> None, fill |-> 0, off |-> 0, size |-> 0]
NoOp == [total |-> 0, written |-> 0, chunk |-> 0, done |-> 0, seq |-> None, slot |-> 0]
Descriptors == [open : BOOLEAN, indir : Blocks \cup {None}, seq : Blocks \cup {None},
                next : 0 .. SeqEntries, data : Blocks \cup {None},
                fill : 0 .. PagesPerBlock, off : 0 .. MaxWrites, size : 0 .. MaxWrites]
Locals == [total : 0 .. PagesPerBlock, written : 0 .. PagesPerBlock,
           chunk : 0 .. PagesPerBlock, done : PageIdx,
           seq : Blocks \cup {None}, slot : IndirIdx]

TypeOK ==
    /\ dme \in [1 .. 1 -> Blocks] \cup [1 .. 2 -> Blocks]
    /\ fse \in [Blocks -> [SeqIdx -> [used : BOOLEAN, committed : BOOLEAN,
                                      data : Records \cup {Blank, Damaged}]]]
    /\ fie \in [Blocks -> [IndirIdx -> [used : BOOLEAN, committed : BOOLEAN,
                                        seq : Blocks \cup {None}]]]
    /\ link \in [Blocks -> Blocks \cup {None}]
    /\ page \in [Blocks -> [PageIdx -> Contents]]
    /\ fresh \in 2 .. NumBlocks + 1
    /\ fd \in Descriptors
    /\ buf \in [PageIdx -> Contents] /\ count \in 0 .. PagesPerBlock
    /\ pc \in {"idle", "chunk", "page", "meta", "slot", "indirUse", "indirWrite",
               "indirCommit", "seqUse", "seqWrite", "seqCommit"}
    /\ op \in Locals
    /\ wrote \in 0 .. MaxWrites
    /\ app \in Seq(Contents) /\ acked \in Seq(Contents) /\ unnoticed \in BOOLEAN

-----------------------------------------------------------------------------
(***************************************************************************)
(* What the flash says of the file: the search for the last entry, and for *)
(* the entry that covers an offset.                                        *)
(***************************************************************************)
Migrated == Len(dme) = 2         \* the last pointer is to an indirection block

\* The indirection blocks from b on.  A block is linked to a newer one.
Chain[b \in Blocks] == {b} \cup IF link[b] = None THEN {} ELSE Chain[link[b]]
LastInChain(b) == Max(Chain[b])

\* The committed entries before the first unused one: get_last_file_seq_entry
\* and get_last_file_indir_entry return the last of them.
Valid(entries) == {i \in DOMAIN entries : /\ entries[i].committed
                                          /\ \A j \in 0 .. i : entries[j].used}
Live(e) == e.used /\ e.committed

\* The sequence block r2f2_open continues in
OpenedIndir == IF Migrated THEN Last(dme) ELSE None
OpenedSeq == IF Migrated
             THEN LET b == LastInChain(Last(dme))
                  IN  fie[b][Max(Valid(fie[b]))].seq
             ELSE Last(dme)
CanOpen == Migrated => Valid(fie[LastInChain(Last(dme))]) # {}

\* Mutants: the next entry is the last one again; the last data block is empty.
DescriptorAfterSame(s, i) ==
    LET r == fse[s][i].data IN
    [open |-> TRUE, indir |-> OpenedIndir, seq |-> s, next |-> i,
     data |-> r.block, fill |-> r.fill, off |-> r.off, size |-> r.size]
DescriptorAfterEmpty(s, i) ==
    LET r == fse[s][i].data IN
    [open |-> TRUE, indir |-> OpenedIndir, seq |-> s, next |-> i + 1,
     data |-> r.block, fill |-> 0, off |-> r.off, size |-> r.size]

\* The descriptor it makes of the last entry of that block
DescriptorAfter(s, i) ==
    LET r == fse[s][i].data IN
    [open |-> TRUE, indir |-> OpenedIndir, seq |-> s, next |-> i + 1,
     data |-> r.block, fill |-> r.fill, off |-> r.off, size |-> r.size]
Opened ==
    LET s == OpenedSeq
        valid == Valid(fse[s])
    IN  IF valid = {}
        THEN [NoDescriptor EXCEPT !.open = TRUE, !.indir = OpenedIndir, !.seq = s]
        ELSE DescriptorAfter(s, Max(valid))
OpenedIntact == LET valid == Valid(fse[OpenedSeq])
                IN  valid # {} => Intact(fse[OpenedSeq][Max(valid)].data)

\* find_data_block_for_off starts where the entry would be if every one covered
\* a full block.  In every block but the first of the chain it subtracts
\* NUM_FILE_INDIR_ENTRIES from that, once, in unsigned arithmetic.
ExpectedIndir(off) == off \div (PagesPerBlock * SeqEntries)
ExpectedSeq(off) == (off % (PagesPerBlock * SeqEntries)) \div PagesPerBlock
StartIndir(first, b, off) ==
    IF b = first THEN ExpectedIndir(off)
    ELSE IF ExpectedIndir(off) >= IndirEntries THEN ExpectedIndir(off) - IndirEntries
    ELSE IndirEntries            \* wrapped round: past every entry
StartSeq(first, b, i, off) ==
    IF /\ b = (IF ExpectedIndir(off) < IndirEntries THEN first ELSE link[first])
       /\ i = StartIndir(first, b, off)
    THEN ExpectedSeq(off) ELSE 0

\* The committed entries it visits, as <<block, i, j>>, and the direct search
Visited(d, off) ==
    IF d.indir # None
    THEN {v \in Chain[d.indir] \X IndirIdx \X SeqIdx :
             /\ v[2] >= StartIndir(d.indir, v[1], off)
             /\ Live(fie[v[1]][v[2]])
             /\ v[3] >= StartSeq(d.indir, v[1], v[2], off)
             /\ Live(fse[fie[v[1]][v[2]].seq][v[3]])}
    ELSE {v \in {None} \X {0} \X SeqIdx :
             v[3] >= ExpectedSeq(off) /\ Live(fse[d.seq][v[3]])}
EntryAt(d, v) == fse[IF d.indir # None THEN fie[v[1]][v[2]].seq ELSE d.seq][v[3]].data
Covers(r, off) == Intact(r) /\ r.off <= off /\ off < r.off + r.fill

\* The search ends at the first entry that covers the offset, or with an error
\* at one that is damaged.  Where there is neither, nothing is found.
Before(v, w) == \/ v[1] < w[1]
                \/ v[1] = w[1] /\ v[2] < w[2]
                \/ v[1] = w[1] /\ v[2] = w[2] /\ v[3] <= w[3]
Search(d, off) ==
    LET ends == {v \in Visited(d, off) : \/ Covers(EntryAt(d, v), off)
                                         \/ EntryAt(d, v) = Damaged}
    IN  IF ends = {} THEN Damaged
        ELSE EntryAt(d, CHOOSE v \in ends : \A w \in ends : Before(v, w))

\* r2f2_read of one page through a descriptor with nothing in its block buffer:
\* beyond its size, and where no intact entry is found, there is nothing to read.
PageAt(d, off) == LET r == Search(d, off)
                  IN  IF off < d.size /\ Intact(r)
                      THEN page[r.block][off - r.off] ELSE Garbage

-----------------------------------------------------------------------------
\* An erased block, as entries or pages
BlankSeqBlock == [i \in SeqIdx |-> [used |-> FALSE, committed |-> FALSE, data |-> Blank]]
BlankIndirBlock == [i \in IndirIdx |-> [used |-> FALSE, committed |-> FALSE, seq |-> None]]
BlankPages == [p \in PageIdx |-> Erased]

\* After r2f2_register_file: a sequence block, no data, and a descriptor.
Init ==
    /\ dme = <<1>>
    /\ fse = [b \in Blocks |-> BlankSeqBlock]
    /\ fie = [b \in Blocks |-> BlankIndirBlock]
    /\ link = [b \in Blocks |-> None]
    /\ page = [b \in Blocks |-> BlankPages]
    /\ fresh = 2
    /\ fd = [NoDescriptor EXCEPT !.open = TRUE, !.seq = 1]
    /\ buf = BlankPages /\ count = 0
    /\ pc = "idle" /\ op = NoOp
    /\ wrote = 0 /\ app = <<>> /\ acked = <<>> /\ unnoticed = FALSE

\* Programming a value onto what is there
Over(old, new, erased, damaged) == IF old \in {erased, new} THEN new ELSE damaged

\* allocate_block: a block that is erased and that nothing else uses
Allocate(b) == b = fresh /\ b \in Blocks /\ fresh' = fresh + 1

\* r2f2_write of a page while the block buffer has room.  When it has none,
\* r2f2_write is r2f2_fsync and, if that succeeds, this.
Write ==
    /\ pc = "idle" /\ fd.open /\ count < PagesPerBlock
    /\ wrote < MaxWrites
    /\ wrote' = wrote + 1
    /\ buf' = [buf EXCEPT ![count] = wrote + 1]
    /\ count' = count + 1
    /\ app' = Append(app, wrote + 1)
    /\ UNCHANGED <<flash, fresh, fd, pc, op, acked, unnoticed>>

\* r2f2_fsync with nothing in the buffer: RET_OK.
FsyncNothing ==
    /\ pc = "idle" /\ fd.open /\ count = 0
    /\ acked' = app
    /\ UNCHANGED <<flash, fresh, ram, pc, op, wrote, app, unnoticed>>

\* r2f2_fsync up to its loop: the file's first data block.
Fsync ==
    /\ pc = "idle" /\ fd.open /\ count > 0
    /\ IF fd.data = None
       THEN \E b \in Blocks : Allocate(b) /\ fd' = [fd EXCEPT !.data = b]
       ELSE UNCHANGED <<fresh, fd>>
    /\ pc' = "chunk" /\ op' = [NoOp EXCEPT !.total = count]
    /\ UNCHANGED <<flash, buf, count, ghosts>>

\* Mutants: the new block's offset is not set; the chunk is the whole buffer.
NextChunkSameOff ==
    /\ pc = "chunk"
    /\ IF fd.fill = PagesPerBlock
       THEN \E b \in Blocks : Allocate(b) /\ fd' = [fd EXCEPT !.data = b, !.fill = 0]
       ELSE UNCHANGED <<fresh, fd>>
    /\ pc' = "page"
    /\ op' = [op EXCEPT !.chunk = Min({count, PagesPerBlock - fd'.fill}), !.done = 0]
    /\ UNCHANGED <<flash, buf, count, ghosts>>
NextChunkWhole ==
    /\ pc = "chunk" /\ fd.fill # PagesPerBlock
    /\ pc' = "page"
    /\ op' = [op EXCEPT !.chunk = count, !.done = 0]
    /\ UNCHANGED <<flash, fresh, ram, ghosts>>

\* The next data block if the last is full, and what fits of the buffer.
NextChunk ==
    /\ pc = "chunk"
    /\ IF fd.fill = PagesPerBlock
       THEN \E b \in Blocks : /\ Allocate(b)
                              /\ fd' = [fd EXCEPT !.data = b, !.fill = 0, !.off = fd.size]
       ELSE UNCHANGED <<fresh, fd>>
    /\ pc' = "page"
    /\ op' = [op EXCEPT !.chunk = Min({count, PagesPerBlock - fd'.fill}), !.done = 0]
    /\ UNCHANGED <<flash, buf, count, ghosts>>

\* Mutant: only the first page is written.
WritePageFirst ==
    /\ pc = "page"
    /\ page' = [page EXCEPT ![fd.data][fd.fill] =
                   Over(@, buf[op.written], Erased, Garbage)]
    /\ fd' = [fd EXCEPT !.fill = @ + op.chunk, !.size = @ + op.chunk]
    /\ count' = count - op.chunk
    /\ pc' = IF fd.next >= SeqEntries THEN "meta" ELSE "seqUse"
    /\ UNCHANGED <<dme, fse, fie, link, fresh, buf, op, ghosts>>

\* r2f2_write_data, a page of it; with the last one the descriptor is updated
\* and the buffer "emptied".
WritePage ==
    /\ pc = "page"
    /\ page' = [page EXCEPT ![fd.data][fd.fill + op.done] =
                   Over(@, buf[op.written + op.done], Erased, Garbage)]
    /\ \/ /\ op.done + 1 < op.chunk
          /\ op' = [op EXCEPT !.done = @ + 1]
          /\ UNCHANGED <<fd, count, pc>>
       \/ /\ op.done + 1 = op.chunk
          /\ fd' = [fd EXCEPT !.fill = @ + op.chunk, !.size = @ + op.chunk]
          /\ count' = count - op.chunk
          /\ pc' = IF fd.next >= SeqEntries THEN "meta" ELSE "seqUse"
          /\ op' = [op EXCEPT !.done = 0]
    /\ UNCHANGED <<dme, fse, fie, link, fresh, buf, ghosts>>

\* r2f2_migrate_file_to_indir_block: an indirection block whose first entry is
\* for the full sequence block, and the directory entry's second pointer.
Migrate ==
    /\ pc = "meta" /\ fd.indir = None
    /\ \E b \in Blocks :
          /\ Allocate(b)
          /\ fie' = [fie EXCEPT ![b][0] =
                        [used |-> TRUE, committed |-> TRUE, seq |-> fd.seq]]
          /\ dme' = Append(dme, b)
          /\ fd' = [fd EXCEPT !.indir = b]
    /\ UNCHANGED <<fse, link, page, buf, count, pc, op, ghosts>>

\* The next sequence block
NewSeqBlock ==
    /\ pc = "meta" /\ fd.indir # None
    /\ \E b \in Blocks : Allocate(b) /\ op' = [op EXCEPT !.seq = b]
    /\ pc' = "slot"
    /\ UNCHANGED <<flash, ram, ghosts>>

\* get_free_file_indir_entry
FreeIndir == {i \in IndirIdx : ~fie[fd.indir][i].used}
TakeIndirEntry ==
    /\ pc = "slot" /\ FreeIndir # {}
    /\ op' = [op EXCEPT !.slot = Min(FreeIndir)]
    /\ pc' = "indirUse"
    /\ UNCHANGED <<flash, fresh, ram, ghosts>>

\* r2f2_create_next_file_indir_block
ExtendChain ==
    /\ pc = "slot" /\ FreeIndir = {}
    /\ link[fd.indir] = None
    /\ \E b \in Blocks : /\ Allocate(b)
                         /\ link' = [link EXCEPT ![fd.indir] = b]
                         /\ fd' = [fd EXCEPT !.indir = b]
    /\ op' = [op EXCEPT !.slot = 0]
    /\ pc' = "indirUse"
    /\ UNCHANGED <<dme, fse, fie, page, buf, count, ghosts>>

IndirUse ==
    /\ pc = "indirUse"
    /\ fie' = [fie EXCEPT ![fd.indir][op.slot].used = TRUE]
    /\ pc' = "indirWrite"
    /\ UNCHANGED <<dme, fse, link, page, fresh, ram, op, ghosts>>

\* Mutant: the entry is for the full sequence block.
IndirWriteFull ==
    /\ pc = "indirWrite"
    /\ fie' = [fie EXCEPT ![fd.indir][op.slot].seq = fd.seq]
    /\ pc' = "indirCommit"
    /\ UNCHANGED <<dme, fse, link, page, fresh, ram, op, ghosts>>

IndirWrite ==
    /\ pc = "indirWrite"
    /\ fie' = [fie EXCEPT ![fd.indir][op.slot].seq = op.seq]
    /\ pc' = "indirCommit"
    /\ UNCHANGED <<dme, fse, link, page, fresh, ram, op, ghosts>>

IndirCommit ==
    /\ pc = "indirCommit"
    /\ fie' = [fie EXCEPT ![fd.indir][op.slot].committed = TRUE]
    /\ fd' = [fd EXCEPT !.seq = op.seq, !.next = 0]
    /\ op' = [op EXCEPT !.seq = None, !.slot = 0]
    /\ pc' = "seqUse"
    /\ UNCHANGED <<dme, fse, link, page, fresh, buf, count, ghosts>>

SeqUse ==
    /\ pc = "seqUse"
    /\ fse' = [fse EXCEPT ![fd.seq][fd.next].used = TRUE]
    /\ pc' = "seqWrite"
    /\ UNCHANGED <<dme, fie, link, page, fresh, ram, op, ghosts>>

\* The result of write_file_seq_entry is not looked at.
SeqWrite ==
    /\ pc = "seqWrite"
    /\ \/ /\ fse' = [fse EXCEPT ![fd.seq][fd.next].data =
                       Over(@, Record(fd.data, fd.fill, fd.off, fd.size), Blank, Damaged)]
          /\ UNCHANGED unnoticed
       \/ "flash" \in Faults /\ unnoticed' = TRUE /\ UNCHANGED fse
    /\ pc' = "seqCommit"
    /\ UNCHANGED <<dme, fie, link, page, fresh, ram, op, wrote, app, acked>>

\* Mutant: the loop starts over with the buffer's first chunk.
SeqCommitSame ==
    /\ pc = "seqCommit"
    /\ fse' = [fse EXCEPT ![fd.seq][fd.next].committed = TRUE]
    /\ fd' = [fd EXCEPT !.next = @ + 1]
    /\ \/ /\ op.chunk < op.total
          /\ pc' = "chunk"
          /\ UNCHANGED <<op, acked>>
       \/ /\ op.chunk = op.total
          /\ pc' = "idle" /\ op' = NoOp
          /\ acked' = app
    /\ UNCHANGED <<dme, fie, link, page, fresh, buf, count, wrote, app, unnoticed>>

\* The entry is valid; the loop goes on, or r2f2_fsync returns RET_OK.
SeqCommit ==
    /\ pc = "seqCommit"
    /\ fse' = [fse EXCEPT ![fd.seq][fd.next].committed = TRUE]
    /\ fd' = [fd EXCEPT !.next = @ + 1]
    /\ LET written == op.written + op.chunk IN
       \/ /\ written < op.total
          /\ pc' = "chunk" /\ op' = [op EXCEPT !.written = written]
          /\ UNCHANGED acked
       \/ /\ written = op.total
          /\ pc' = "idle" /\ op' = NoOp
          /\ acked' = app
    /\ UNCHANGED <<dme, fie, link, page, fresh, buf, count, wrote, app, unnoticed>>

-----------------------------------------------------------------------------
\* r2f2_fsync returns an error; what it did to the descriptor and the buffer
\* stays done.
FsyncReturnsError ==
    /\ pc' = "idle" /\ op' = NoOp
    /\ UNCHANGED <<flash, fresh, ram, ghosts>>

\* The allocator has no block to give: RET_NOMEM.
NoMemory ==
    /\ "nomem" \in Faults
    /\ \/ pc = "chunk" /\ fd.fill = PagesPerBlock
       \/ pc = "meta"
       \/ pc = "slot" /\ FreeIndir = {} /\ link[fd.indir] = None
    /\ FsyncReturnsError

\* The next indirection block exists already: RET_EINVAL.
ChainRefused ==
    /\ pc = "slot" /\ FreeIndir = {}
    /\ link[fd.indir] # None
    /\ FsyncReturnsError

\* A flash operation fails, and its result is looked at.
FlashError ==
    /\ "flash" \in Faults
    /\ pc \notin {"idle", "seqWrite"}
    /\ FsyncReturnsError

\* r2f2_close, which is r2f2_fsync and, if that succeeds, this.
Close ==
    /\ pc = "idle" /\ fd.open /\ count = 0
    /\ fd' = NoDescriptor
    /\ buf' = BlankPages
    /\ acked' = app
    /\ UNCHANGED <<flash, fresh, count, pc, op, wrote, app, unnoticed>>

\* r2f2_open of the existing file.  It reports an error, and opens nothing,
\* if the last indirection block has no valid entry or the last sequence entry
\* is damaged.  (A last entry that is committed but blank opens as a file of
\* 2^32 - 1 bytes.  No data is written through that descriptor: an assertion
\* of r2f2_write_data fails.  It is left out.)
Open ==
    /\ pc = "idle" /\ ~fd.open
    /\ CanOpen /\ OpenedIntact
    /\ fd' = Opened
    /\ app' = [i \in 1 .. Opened.size |-> PageAt(Opened, i - 1)]
    /\ UNCHANGED <<flash, fresh, buf, count, pc, op, wrote, acked, unnoticed>>

\* A power loss: RAM is gone.
Crash ==
    /\ "crash" \in Faults
    /\ fd.open
    /\ fd' = NoDescriptor
    /\ buf' = BlankPages /\ count' = 0
    /\ pc' = "idle" /\ op' = NoOp
    /\ app' = <<>>
    /\ UNCHANGED <<flash, fresh, wrote, acked, unnoticed>>

\* What r2f2_fsync does between its call and its return
FsyncStep ==
    \/ NextChunk \/ WritePage
    \/ Migrate \/ NewSeqBlock \/ TakeIndirEntry \/ ExtendChain
    \/ IndirUse \/ IndirWrite \/ IndirCommit \/ SeqUse \/ SeqWrite \/ SeqCommit
    \/ ChainRefused

Next ==
    \/ Write \/ FsyncNothing \/ Fsync \/ FsyncStep
    \/ NoMemory \/ FlashError \/ Close \/ Open \/ Crash

Spec == Init /\ [][Next]_vars

\* r2f2 has one thread: while a call is under way the program runs on in it.
\* The application need not call again, and no fault need ever happen.
FairSpec == Spec /\ WF_vars(FsyncStep)
-----------------------------------------------------------------------------
(***************************************************************************)
(* Whatever fails, and wherever the power is lost.                         *)
(***************************************************************************)

\* The sequence blocks reachable from the directory entry, and the valid
\* entries in them
SeqBlocks == IF Migrated
             THEN {s \in Blocks : \E b \in Chain[Last(dme)], i \in IndirIdx :
                                      Live(fie[b][i]) /\ fie[b][i].seq = s}
             ELSE {Last(dme)}
Committed == {v \in SeqBlocks \X SeqIdx : Live(fse[v[1]][v[2]])}
RecordOf(v) == fse[v[1]][v[2]].data
CoveredPages == {v \in Blocks \X PageIdx :
                    \E c \in Committed : /\ RecordOf(c).block = v[1]
                                          /\ v[2] < RecordOf(c).fill}

\* r2f2_fsync writes the data before the entry that covers it, and the entry
\* before the flag that makes it valid: no valid entry covers a page that was
\* never written, and the chunk it describes is the end of the file it gives
\* the size of.
CommittedDataWritten ==
    /\ \A v \in CoveredPages : page[v[1]][v[2]] # Erased
    /\ \A c \in Committed :
          Intact(RecordOf(c)) => RecordOf(c).off + RecordOf(c).fill = RecordOf(c).size

\* Growing from one sequence block to an indirection block to a chain of them
\* never drops what was there: a valid entry stays reachable, and stays as it
\* is, although a reopened file uses again the entries it takes for free.
CommittedEntriesKept ==
    [][\A c \in Committed : c \in Committed' /\ RecordOf(c)' = RecordOf(c)]_vars

\* A page that a valid entry covers is not programmed again, although a reopened
\* file goes on in the middle of the block it was written to.  So it is as long as
\* no write of an entry failed unnoticed (r2f2.c:669): after that the valid entry
\* may hold what an earlier fsync left there, which covers more of the block
\* than the descriptor knows of.
CommittedPagesKept ==
    [][~unnoticed => \A v \in CoveredPages : page'[v[1]][v[2]] = page[v[1]][v[2]]]_vars

\* r2f2.c:216: a file is opened as empty if it "was freshly created and has no
\* contents yet", not if r2f2_fsync has reported success on it.
OpenedEmptyOnlyIfNeverSynced == fd.open /\ fd.size = 0 => acked = <<>>

-----------------------------------------------------------------------------
(***************************************************************************)
(* Without faults.                                                         *)
(***************************************************************************)

\* The file has not outgrown its first indirection block.  (Opened after that, it
\* cannot grow any more: ChainRefused.)
OneIndirBlock == Migrated => link[Last(dme)] = None
Undisturbed == Faults = {} /\ OneIndirBlock

\* Between calls, closing the file and opening it again gives the descriptor
\* that is in RAM now: the flash says all that r2f2_fsync needs to go on.
DescriptorMatchesFlash ==
    Undisturbed /\ pc = "idle" /\ fd.open => CanOpen /\ OpenedIntact /\ Opened = fd

\* What can be found from the directory entry, which is how it is ever freed
Reachable == ToSet(dme) \cup SeqBlocks \cup {RecordOf(c).block : c \in Committed}
                 \cup (IF Migrated THEN Chain[Last(dme)] ELSE {})

\* r2f2.c:541: "can early abort or crash permanently lose a block?"  Without
\* them no block is lost: between calls, every block that was allocated is
\* reachable from the directory entry.
NoBlockLost == Undisturbed /\ pc = "idle" => 1 .. fresh - 1 = Reachable

\* r2f2.c:550, `while (total_written < total_to_write)`: an fsync that has begun comes
\* to the end of the buffer, through however many data blocks, sequence blocks and
\* indirection entries, and reports all that was written before it as stored.
FsyncStoresAll ==
    \A n \in 1 .. MaxWrites : (pc = "chunk" /\ Len(app) = n) ~> Len(acked) >= n

\* What r2f2_fsync reported as written is there for a descriptor opened now:
\* r2f2_metadata.c:801, when entries cover less than a block each, "we may need
\* to search ahead from our expected entries".
AckedReadable ==
    pc = "idle" => /\ CanOpen
                   /\ LET d == Opened IN
                      \A i \in DOMAIN acked : PageAt(d, i - 1) = acked[i]

\* The positions from which a descriptor opened now reads what was written there,
\* and those that a valid entry covers.  Between IndirCommit and SeqCommit the
\* former are none, although nothing is lost: the last sequence block is empty.
Readable == UNION {{i \in DOMAIN app : PageAt(d, i - 1) = app[i]} : d \in {Opened}}
Durable == {i \in DOMAIN app : \E c \in Committed :
               LET r == RecordOf(c)
               IN  Covers(r, i - 1) /\ page[r.block][i - 1 - r.off] = app[i]}

-----------------------------------------------------------------------------
(***************************************************************************)
(* What holds in every state, and with every fault: FileInv is inductive.  *)
(* It speaks of all blocks, in use by the file or not.                     *)
(***************************************************************************)
\* A block that was not handed out yet is erased, and nothing points to it.
Pristine ==
    /\ \A b \in Blocks : b >= fresh =>
          /\ fse[b] = BlankSeqBlock /\ fie[b] = BlankIndirBlock
          /\ page[b] = BlankPages /\ link[b] = None
    /\ \A i \in DOMAIN dme : dme[i] < fresh
    /\ \A b \in Blocks : link[b] # None => b < link[b] /\ link[b] < fresh
    /\ \A b \in Blocks, i \in IndirIdx : fie[b][i].seq < fresh
    /\ \A b \in Blocks, i \in SeqIdx :
          Intact(fse[b][i].data) => fse[b][i].data.block < fresh
    /\ fd.indir < fresh /\ fd.seq < fresh /\ fd.data < fresh /\ op.seq < fresh

\* An intact entry, valid or not, covers pages that were written.
RecordsSound ==
    \A b \in Blocks, i \in SeqIdx : Intact(fse[b][i].data) =>
        LET r == fse[b][i].data IN
        /\ r.off + r.fill = r.size /\ r.size <= wrote
        /\ \A p \in PageIdx : p < r.fill => page[r.block][p] # Erased

\* So does the descriptor.
DescriptorSound ==
    /\ ~fd.open => fd = NoDescriptor /\ count = 0 /\ pc = "idle"
    /\ fd.open => /\ fd.seq # None
                  /\ fd.indir = None <=> ~Migrated
                  /\ ~Migrated => fd.seq = dme[1]
    /\ fd.off + fd.fill = fd.size /\ fd.size + count <= wrote
    /\ fd.data = None => fd.fill = 0
    /\ \A p \in PageIdx : p < fd.fill => page[fd.data][p] # Erased

\* Where r2f2_fsync stands in the buffer, which has no blank page, and in the
\* data block.
LoopSound ==
    /\ pc = "idle" => \A p \in PageIdx : p < count => buf[p] # Erased
    /\ pc # "idle" => /\ fd.data # None
                      /\ \A p \in PageIdx : p < op.total => buf[p] # Erased
    /\ pc \in {"chunk", "page"} => op.written + count = op.total /\ count > 0
    /\ pc = "page" =>
          /\ op.done < op.chunk /\ op.chunk <= count
          /\ fd.fill + op.chunk <= PagesPerBlock
          /\ \A p \in PageIdx : p < fd.fill + op.done => page[fd.data][p] # Erased
    /\ pc \notin {"idle", "chunk", "page"} =>
          /\ op.written + op.chunk + count = op.total
          /\ op.chunk > 0 /\ fd.fill > 0

SeqPcs == {"seqUse", "seqWrite", "seqCommit"}
TakePcs == {"indirUse", "indirWrite", "indirCommit"}

\* The entries of a sequence block are used from the first on.
SeqInOrder ==
    /\ \A b \in Blocks, i \in SeqIdx :
          fse[b][i].committed => \A j \in 0 .. i : fse[b][j].used
    /\ fd.open => \A i \in SeqIdx :
          /\ i < fd.next => fse[fd.seq][i].used
          /\ i >= fd.next => ~fse[fd.seq][i].committed
    /\ pc \in SeqPcs => fd.next < SeqEntries
    /\ pc \in {"seqWrite", "seqCommit"} => fse[fd.seq][fd.next].used
    /\ pc \in {"slot"} \cup TakePcs =>
          op.seq > fd.seq /\ \A i \in SeqIdx : ~fse[op.seq][i].committed

\* The entries of an indirection block are, too, and it is full before the next
\* is linked to it.
IndirInOrder ==
    /\ \A b \in Blocks, i \in IndirIdx :
          /\ fie[b][i].committed => fie[b][i].used /\ fie[b][i].seq # None
          /\ fie[b][i].used => \A j \in 0 .. i : fie[b][j].used
          /\ link[b] # None => fie[b][i].used
    /\ fd.open /\ Migrated => fd.indir \in Chain[Last(dme)]
    /\ pc \in {"slot"} \cup TakePcs => Migrated
    /\ pc \in TakePcs =>
          /\ link[fd.indir] = None
          /\ \A i \in IndirIdx : /\ i < op.slot => fie[fd.indir][i].used
                                 /\ i > op.slot => ~fie[fd.indir][i].used
          /\ ~fie[fd.indir][op.slot].committed
          /\ fie[fd.indir][op.slot].used <=> pc # "indirUse"
          /\ pc = "indirCommit" => fie[fd.indir][op.slot].seq = op.seq

\* The descriptor's sequence block is the one an open would find, and the newest.
Newest ==
    /\ fd.open => \A b \in Blocks, i \in SeqIdx : fse[b][i].committed => b <= fd.seq
    /\ fd.open /\ CanOpen => OpenedSeq = fd.seq
    /\ CanOpen => \A b \in Blocks, i \in SeqIdx : fse[b][i].committed => b <= OpenedSeq

\* Valid entries for one data block cover more and more of it, and the descriptor
\* all of what they cover.
Growing == ~unnoticed =>
    /\ \A b, c \in Blocks, i, j \in SeqIdx :
          /\ fse[b][i].committed /\ Intact(fse[b][i].data)
          /\ fse[c][j].committed /\ Intact(fse[c][j].data)
          /\ fse[b][i].data.block = fse[c][j].data.block
          /\ b < c \/ (b = c /\ i <= j)
          => fse[b][i].data.fill <= fse[c][j].data.fill
    /\ \A b \in Blocks, i \in SeqIdx :
          /\ fse[b][i].committed /\ Intact(fse[b][i].data)
          /\ fse[b][i].data.block = fd.data
          => fse[b][i].data.fill <= fd.fill
    /\ pc = "seqCommit" =>
          fse[fd.seq][fd.next].data \in {Damaged, Record(fd.data, fd.fill, fd.off, fd.size)}

FileInv ==
    /\ TypeOK /\ Pristine /\ RecordsSound /\ DescriptorSound /\ LoopSound
    /\ SeqInOrder /\ IndirInOrder /\ Newest /\ Growing

-----------------------------------------------------------------------------
(***************************************************************************)
(* What holds without faults, too: FileInv /\ TidyInv is inductive.        *)
(***************************************************************************)
\* Only the entry r2f2_fsync is making is not blank and not valid.
EntriesTidy ==
    /\ Migrated => fie[Last(dme)][0].committed
    /\ \A b \in Blocks, i \in SeqIdx :
          /\ fse[b][i].committed => Intact(fse[b][i].data)
          /\ fse[b][i].used /\ ~fse[b][i].committed =>
                pc \in {"seqWrite", "seqCommit"} /\ b = fd.seq /\ i = fd.next
          /\ fse[b][i].data # Blank /\ ~fse[b][i].committed =>
                pc = "seqCommit" /\ b = fd.seq /\ i = fd.next
    /\ pc = "seqCommit" =>
          fse[fd.seq][fd.next].data = Record(fd.data, fd.fill, fd.off, fd.size)

\* The descriptor is that of its last entry, or of a file with none.
DescriptorTidy ==
    fd.open /\ pc \in {"idle", "chunk"} =>
        IF fd.next = 0
        THEN fd.fill = 0 /\ fd.off = 0 /\ fd.size = 0 /\ (pc = "idle" => fd.data = None)
        ELSE fse[fd.seq][fd.next - 1].data = Record(fd.data, fd.fill, fd.off, fd.size)

\* A block that was handed out is reachable, or r2f2_fsync holds it.
BlocksTidy ==
    /\ pc \notin {"slot"} \cup TakePcs => op.seq = None
    /\ \A b \in 1 .. fresh - 1 : b \in Reachable \/ (pc # "idle" /\ b \in {fd.data, op.seq})

TidyInv == Undisturbed => EntriesTidy /\ DescriptorTidy /\ BlocksTidy
=============================================================================
