----------------------------- MODULE R2F2Layout -----------------------------
(***************************************************************************)
(* The bytes of a file of r2f2: where r2f2_write and r2f2_fsync put them,  *)
(* and what r2f2_lseek and r2f2_read (r2f2.c) find again, with             *)
(* r2f2_write_data, r2f2_read_data and find_data_block_for_off_direct      *)
(* (r2f2_metadata.c), as compiled with ECC_ON_DATA.                        *)
(*                                                                         *)
(* A data block is a row of pages.  An fsync begins a new page, and may    *)
(* leave its last one short: next to the parity the block keeps, for each  *)
(* page, how many bytes of it are data, its chunk length.  A position in   *)
(* the file counts data bytes; a position in the block, its fill level,    *)
(* counts whole pages.  This module is about the two kinds of position     *)
(* not being mixed up.  The file has one sequence block, nothing fails,    *)
(* and the n-th byte the application writes has value n.                   *)
(***************************************************************************)
EXTENDS Integers, SequencesExt

CONSTANTS PageSize,       \* geom.page_size
          DataPages,      \* pages of a block that hold data
          SeqEntries,     \* bound: NUM_FILE_SEQ_ENTRIES, all the file may use
          MaxBytes        \* bound: bytes the application writes

ASSUME LayoutAssumption ==
    /\ \A n \in {PageSize, DataPages, SeqEntries} : n \in Nat \ {0}
    /\ MaxBytes \in Nat

Capacity == PageSize * DataPages   \* data_block_capacity
Pages == 0 .. DataPages - 1
NoBlock == 0

VARIABLES
    data,      \* flash: data[b][p] is the chunk in page p of data block b
    fse,       \* flash: the entries of the sequence block, all valid
    fd,        \* RAM: the descriptor's meta.data, file_size and file_offset
    buf,       \* RAM: block_buffer.data
    done,      \* total_written of r2f2_fsync: the bytes of buf that are stored
    pc         \* "fsync" in the loop of r2f2_fsync, "aborted" after an assertion

vars == <<data, fse, fd, buf, done, pc>>

Count == Len(buf) - done           \* block_buffer.count

BlankBlock == [p \in Pages |-> <<>>]
BytesOf(block) == FlattenSeq([i \in 1 .. DataPages |-> block[i - 1]])
StoredBytes == FlattenSeq([b \in 1 .. Len(data) |-> BytesOf(data[b])])
Upto(n) == [i \in 1 .. n |-> i]    \* the first n bytes of the file

TypeOK ==
    /\ data \in Seq([Pages -> Seq(1 .. MaxBytes)])
    /\ \A i \in DOMAIN fse :
          /\ fse[i].block \in 1 .. Len(data)
          /\ fse[i].fill \in 1 .. Capacity
          /\ fse[i].off \in 0 .. MaxBytes
    /\ Len(fse) <= SeqEntries
    /\ fd \in [block : 0 .. Len(data), fill : 0 .. Capacity, off : 0 .. MaxBytes,
               size : 0 .. MaxBytes, offset : 0 .. 2 * MaxBytes]
    /\ buf \in Seq(1 .. MaxBytes) /\ Len(buf) <= Capacity
    /\ done \in 0 .. Len(buf)
    /\ pc \in {"idle", "fsync", "aborted"}

-----------------------------------------------------------------------------
(***************************************************************************)
(* Reading.                                                                *)
(***************************************************************************)

\* Mutant: the search starts an entry too late.
ExpectedEntryNext(off) == 1 + (off % (Capacity * SeqEntries)) \div Capacity

\* find_data_block_for_off_direct: from the entry that would cover the offset
\* if each covered a full block on, the first that covers it in bytes of fill.
ExpectedEntry(off) == (off % (Capacity * SeqEntries)) \div Capacity
Covers(e, off) == e.off <= off /\ (e.off = off \/ off < e.off + e.fill)
Covering(off) == {j \in DOMAIN fse : j - 1 >= ExpectedEntry(off) /\ Covers(fse[j], off)}
Found(off) == fse[Min(Covering(off))]

\* Mutant: pages are taken to be full.
ChunkAtFull(block, off) ==
    [page |-> off \div PageSize, off |-> off % PageSize]

\* r2f2_read_data looks for the chunk among the chunk lengths, up to the first
\* page that has none.  An offset no chunk has leaves it at the first one.
ChunkAt(block, off) ==
    LET ChunkOff(p) == Len(FlattenSeq([i \in 1 .. p |-> block[i - 1]]))
        Written == {p \in Pages : \A q \in 0 .. p : block[q] # <<>>}
        at == {p \in Written : ChunkOff(p) <= off /\ off < ChunkOff(p) + Len(block[p])}
    IN  IF at = {} THEN [page |-> 0, off |-> 0]
        ELSE [page |-> Max(at), off |-> off - ChunkOff(Max(at))]

\* It copies from that chunk and the ones after it.  An assertion fails at a
\* page without a chunk, and past the last page.
ReadData(block, off, n) ==
    LET c == ChunkAt(block, off)
        after == FlattenSeq([i \in 1 .. DataPages - c.page |-> block[c.page + i - 1]])
    IN  IF c.off + n <= Len(after)
        THEN [is |-> "bytes", bytes |-> SubSeq(after, c.off + 1, c.off + n)]
        ELSE [is |-> "aborted", bytes |-> <<>>]

\* r2f2_read, for n > 0.  can_read_from_storage is unsigned: from an offset
\* beyond file_size it is larger than any n.
CanReadFromStorage(off, n) == off > fd.size \/ fd.size - off >= n
ReadError == [is |-> "error", bytes |-> <<>>]
ReadAt(off, n) ==
    IF \/ off + n > fd.size + Count
       \/ ~CanReadFromStorage(off, n)
       \/ Covering(off) = {}
    THEN ReadError
    ELSE ReadData(data[Found(off).block], off - Found(off).off, n)

-----------------------------------------------------------------------------
Init ==
    /\ data = <<>> /\ fse = <<>>
    /\ fd = [block |-> NoBlock, fill |-> 0, off |-> 0, size |-> 0, offset |-> 0]
    /\ buf = <<>> /\ done = 0
    /\ pc = "idle"

\* r2f2_write while the block buffer has room.  When it has none, r2f2_write is
\* r2f2_fsync and then this.  It writes behind what is there, wherever the
\* offset is, and moves the offset on.
Write(n) ==
    /\ pc = "idle" /\ Count + n <= Capacity
    /\ fd.size + Count + n <= MaxBytes
    /\ buf' = buf \o [i \in 1 .. n |-> fd.size + Count + i]
    /\ fd' = [fd EXCEPT !.offset = @ + n]
    /\ UNCHANGED <<data, fse, done, pc>>

\* r2f2_fsync up to its loop: the file's first data block.
Fsync ==
    /\ pc = "idle" /\ Count > 0
    /\ IF fd.block = NoBlock
       THEN /\ data' = Append(data, BlankBlock)
            /\ fd' = [fd EXCEPT !.block = Len(data) + 1]
       ELSE UNCHANGED <<data, fd>>
    /\ pc' = "fsync"
    /\ UNCHANGED <<fse, buf, done>>

\* The bytes of a chunk in whole pages
PagesFor(n) == (n + PageSize - 1) \div PageSize

\* r2f2_write_data: bytes s from fill level fill on, the last page maybe short.
WriteData(block, fill, s) ==
    [p \in Pages |->
        LET k == p - fill \div PageSize IN
        IF k \in 0 .. PagesFor(Len(s)) - 1
        THEN SubSeq(s, k * PageSize + 1, Min({(k + 1) * PageSize, Len(s)}))
        ELSE block[p]]

\* Mutants: the fill level counts data bytes; it always ends in a new page; the new block's offset is not
\* set; the buffer is written from its start.
FilledBytes(fill, n) == fill + n
FilledNextPage(fill, n) == fill + (n \div PageSize + 1) * PageSize
NextBlockSameOff(d, b) == [d EXCEPT !.block = b, !.fill = 0]
ChunkOfStart(n) == SubSeq(buf, 1, n)

\* The fill level after a chunk, page-aligned
Filled(fill, n) == fill + PagesFor(n) * PageSize
\* The descriptor in its next data block, which begins at the end of the file
NextBlock(d, b) == [d EXCEPT !.block = b, !.fill = 0, !.off = d.size]
\* The next bytes of the block buffer
ChunkOf(n) == SubSeq(buf, done + 1, done + n)

\* A turn of the loop: the next data block if this one is full, the data, the
\* descriptor, and the sequence entry.
FsyncChunk ==
    /\ pc = "fsync" /\ Len(fse) < SeqEntries
    /\ LET full == fd.fill = Capacity
           blocks == IF full THEN Append(data, BlankBlock) ELSE data
           d == IF full THEN NextBlock(fd, Len(data) + 1) ELSE fd
           n == Min({Count, Capacity - d.fill})
           fill == Filled(d.fill, n)
       IN  /\ data' = [blocks EXCEPT ![d.block] = WriteData(@, d.fill, ChunkOf(n))]
           /\ fd' = [d EXCEPT !.fill = fill, !.size = @ + n]
           /\ fse' = Append(fse, [block |-> d.block, fill |-> fill, off |-> d.off])
           /\ IF done + n < Len(buf)
              THEN done' = done + n /\ UNCHANGED <<buf, pc>>
              ELSE done' = 0 /\ buf' = <<>> /\ pc' = "idle"

\* r2f2_lseek: from the start, from the offset, or from the end of all that was
\* written.  A position before the start is RET_OOB.
Lseek(whence, delta) ==
    /\ pc = "idle"
    /\ LET base == CASE whence = "SET" -> 0
                     [] whence = "CUR" -> fd.offset
                     [] whence = "END" -> fd.size + Count
       IN  /\ base + delta \in 0 .. MaxBytes
           /\ fd' = [fd EXCEPT !.offset = base + delta]
    /\ UNCHANGED <<data, fse, buf, done, pc>>

\* r2f2_read of n bytes at the offset
Read(n) ==
    /\ pc = "idle"
    /\ LET r == ReadAt(fd.offset, n) IN
       \/ r.is = "bytes" /\ fd' = [fd EXCEPT !.offset = @ + n] /\ pc' = pc
       \/ r.is = "aborted" /\ pc' = "aborted" /\ UNCHANGED fd
    /\ UNCHANGED <<data, fse, buf, done>>

Next ==
    \/ \E n \in 1 .. Capacity : Write(n)
    \/ Fsync \/ FsyncChunk
    \/ \E whence \in {"SET", "CUR", "END"}, delta \in -MaxBytes .. MaxBytes :
          Lseek(whence, delta)
    \/ \E n \in 1 .. MaxBytes : Read(n)

Spec == Init /\ [][Next]_vars
-----------------------------------------------------------------------------
\* Whatever the chunks, the pages of the data blocks in turn hold the bytes of
\* the file in order, each once, and the block buffer those that follow, also
\* in the middle of an fsync (r2f2.c:585, "update file information in fd").
NothingLostOrRepeated ==
    /\ Len(StoredBytes) = fd.size
    /\ StoredBytes \o SubSeq(buf, done + 1, Len(buf)) = Upto(fd.size + Count)

\* Every sequence entry gives its data block the place in the file at which the
\* bytes before that block end, however many of its pages are short.
EntriesPlaceBlocks ==
    \A i \in DOMAIN fse :
        fse[i].off = Len(FlattenSeq([b \in 1 .. fse[i].block - 1 |-> BytesOf(data[b])]))

\* The assertions r2f2.c:575 and r2f2_metadata.c:52 hold: a turn of fsync's loop
\* stays within the buffer and begins a page.  And it begins a page nothing was
\* written to.
AssertionsHold ==
    pc = "fsync" =>
        LET fill == fd.fill % Capacity
            n == Min({Count, Capacity - fill})
        IN  /\ done + n <= Capacity
            /\ fill % PageSize = 0
            /\ fd.fill < Capacity => data[fd.block][fd.fill \div PageSize] = <<>>

\* r2f2_metadata.c:138: the chunk is found "based on the logical chunk sizes in
\* case we wrote < chunk_size at some point": a read of stored bytes that are
\* in the data block the search finds returns what was written there.
BlockReadsRight ==
    \A off \in 0 .. fd.size - 1 : \A n \in 1 .. fd.size - off :
        /\ Covering(off) # {}
        /\ off - Found(off).off + n <= Len(BytesOf(data[Found(off).block])) =>
              ReadAt(off, n) = [is |-> "bytes", bytes |-> [i \in 1 .. n |-> off + i]]

\* As long as every fsync came at the end of a page, a read of stored bytes
\* returns what was written, or stops at an assertion where it leaves the data
\* block it began in.
WholePagesReadRight ==
    (\A b \in DOMAIN data, p \in Pages : Len(data[b][p]) \in {0, PageSize}) =>
        \A off \in 0 .. fd.size - 1 : \A n \in 1 .. fd.size - off :
            ReadAt(off, n) = IF off \div Capacity = (off + n - 1) \div Capacity
                             THEN [is |-> "bytes", bytes |-> [i \in 1 .. n |-> off + i]]
                             ELSE [is |-> "aborted", bytes |-> <<>>]

\* A read of stored bytes never returns other bytes than those written there.
StoredReadsRight ==
    \A off \in 0 .. fd.size - 1 : \A n \in 1 .. fd.size - off :
        LET r == ReadAt(off, n) IN
        r.is = "bytes" => r.bytes = [i \in 1 .. n |-> off + i]
=============================================================================
