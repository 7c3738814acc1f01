# r2f2 in TLA+

Specifications, model-checking runs and machine-checked proofs for r2f2, a file
system for NOR flash whose metadata is protected by error-correcting codes. All
line numbers are those of the sources beside this directory.

NOR flash is what makes this program hard. A write can only clear bits; only the
erasure of a whole block sets them again; and power may go between any two of these
operations. So r2f2 never updates a record in place. It appends records, marks each
*used* before it is written and *committed* after it, and kills one by overwriting
it with zeros. Whether the program is right is a question of the order of these
writes, of what a restart makes of an unfinished sequence of them, and of many
small counters that wrap or overflow at the ends of blocks: things that take long
sequences of calls to reach and that `tests/basic.c` (one format, one long file, one
round of deletions) does not.

## 1. Inventory

r2f2 is sequential: no thread, no interrupt, no lock. It calls four functions of its
user (`flash_read`, `flash_write`, `flash_erase`, `flash_chiperase`); none calls back.
What interleaves is the *calls* of the application on several descriptors, the
garbage collector that runs inside an allocation, and power losses.

| component | state | operations | called by |
|---|---|---|---|
| block allocator, `r2f2_alloc.c` | in flash: a ring of block indices over the allocator blocks (from block 2). In RAM: `_alloc_ptr`, `_next_free_ptr`, `_first_allocable_block` | `prepare_block_allocator`, `restore_block_allocator`, `allocate_block`, `free_block` | format, mount, everything that needs a block, the collector |
| file append path, `r2f2.c` write/fsync/close/open, `r2f2_file.c` | in RAM: the descriptor (`meta`, `block_buffer`, `file_size`, `offset`). In flash: sequence, indirection and data blocks | `r2f2_write`, `r2f2_fsync`, `r2f2_close`, `r2f2_open`, `r2f2_migrate_file_to_indir_block`, `r2f2_create_next_file_indir_block` | the application |
| metadata entries and flags, `r2f2_metadata.c` | three kinds of entry: directory, indirection, sequence; each with flags voted over redundant bits | read, write, mark, find the last, find a free one, find the one that covers an offset | every component |
| data layout and reads, `r2f2_metadata.c:60-300`, `r2f2_read` | chunks in a data block, each followed by its parity bytes | `r2f2_write_data`, `r2f2_read_data`, `r2f2_read`, `r2f2_lseek` | fsync, the application |
| directories, `r2f2_file.c`, `r2f2.c` | chains of directory blocks; an entry is a path and next-block pointers | `r2f2_find_dir_meta_block`, `r2f2_get_dir_entry`, `r2f2_register_file`, `r2f2_mkdir`, `r2f2_remove`, `r2f2_opendir`, `r2f2_readdir` | the application, open |
| garbage collector, `r2f2_gc.c` | none of its own; rewrites directory entries and blocks, and `root_dir_block` | `r2f2_gc_entry` and the `r2f2_reclaim_*`, `r2f2_migrate_*` functions | `allocate_block`, when the ring is empty |
| format, mount, superblock, `r2f2.c:8-150` | the superblock in block 0, the mounted `r2f2_fs_t` | `r2f2_format`, `r2f2_mount`, `r2f2_unmount` | the application |
| ECC of metadata words and paths, `r2f2_defines.c`, `r2f2_metadata.c` | redundant block indices and parity bytes in each record | encode, correct | entries, directories |
| BCH codec, `ecc/bch` | Galois-field tables | encode, decode | ECC, data layout |
| logging, debug dump, result types, `util/` | none | | all |
| tests, `tests/` | a flash simulator that copies bytes (a second write overwrites, where NOR flash would AND) | | |

How they interact. `r2f2_fsync` is the core: it takes data blocks from the allocator,
writes chunks, and records each chunk in a sequence entry; a full sequence block makes
it allocate an indirection block, and a full indirection block makes it extend a
chain. Every one of these allocations may run the collector, which walks all
directories, zeroes the entries of removed files and gives their blocks to
`free_block`, which appends them to the ring the allocation then reads. `r2f2_open`
and `r2f2_mount` rebuild from flash, by scanning, the positions that `r2f2_fsync` and
the allocator keep in RAM.

What is hard in it, and what makes each part correct:

* **Allocator.** The ring wraps; its blocks are erased while other blocks of it are
  live; equal positions mean *empty* and must never mean *full*; the positions are
  lost at a power loss. Correct means: a block has one owner; a free block is erased; no
  block is lost; the ring is a FIFO queue; a mount finds the positions again.
* **Append path.** A dozen flash writes in one `r2f2_fsync`, over five kinds of
  block; an error or a power loss after any of them; a descriptor that must go on
  from any of these states. Correct means: a valid entry covers only written data; what
  was committed stays reachable and unchanged; what `r2f2_fsync` acknowledged can be
  read; an open restores exactly the state that was in RAM.
* **Collector.** It frees a tree piece by piece, in an order in which a power loss can
  leave a reference to a freed block or a block without a reference. Correct means: it
  frees a block once, only when nothing live refers to it, and in the end all of a
  removed file.
* **Directories, format, mount.** Several writes make one entry; correct means that a
  restart sees the entry or does not, and that what it sees is complete.
* **Layout.** Index arithmetic with chunks shorter than a page; correct means that a
  read returns what was written, for all chunkings.
* **Flags.** A majority vote over bits that only fall; correct means that the order
  used, committed, reclaimable is never inverted by fewer flips than the code allows.

`PROJECT.json` lists the single hazards, each with its line and with the properties
that cover it, or with the reason why none does. A hazard that the code does fall into,
like a block lost to a flash error (`r2f2_gc.c:217`) or to a call that fails (`r2f2.c:541`), has no property
where the models take the step and the properties are stated up to it or without faults.

## 2. Modules

    R2F2FreeList      what the allocator promises: a FIFO queue of free blocks
    R2F2Alloc         the allocator                     -- refines R2F2FreeList
      MCR2F2Alloc       refinement mapping
      R2F2AllocProofs   its theorems, the refinement among them
    R2F2AppendLog     what a file promises: an append-only log with a durable, a readable
                      and an acknowledged part
    R2F2File          write, fsync, close, open         -- refines R2F2AppendLog
      MCR2F2File        refinement mapping and view, for TLC
      R2F2FileProofs    its theorems that hold with every fault
        R2F2FileReopenProofs   those that hold without faults
    R2F2Layout        the bytes of a file: write, fsync, lseek, read
      R2F2LayoutProofs  its theorems about positions
        R2F2LayoutBytesProofs   those about contents
        R2F2LayoutReadProofs    those about reads
    R2F2Names         what directories promise: a set of paths
    R2F2Dir           register, mkdir, remove, append; lookup and listing
      R2F2Gc            the collector inside their allocations
        MCR2F2Gc          refinement mapping, for TLC   -- refines R2F2Names
        R2F2TreeProofs    theorems about both
    R2F2Flags         flag words under bit flips, with its theorems

The file is seen at three distances. `R2F2Layout` has its bytes and one sequence block,
without faults; `R2F2File` its pages, every flash write of the protocol and every fault;
`R2F2Dir` only which block refers to which, for several files in a tree. Each takes for
granted what the one before it shows. `R2F2Dir` and `R2F2Gc` are one system in two
modules: the calls of the first wait (`Allocating`) where the second collects.

Operators introduced by a comment "Mutant" are deliberately wrong variants of a
definition. They are used by nothing else: with one put
in the place of the right definition, the property it is paired with in
`PROJECT.json` must fail.

### R2F2Alloc

State: `ring` is the content of every slot of the allocator blocks (an allocable
block, all zeros = `Consumed`, all ones = `Erased`); `alloc_ptr`, `next_free_ptr`
and `first_allocable` are the three statics, as slot numbers rather than flash
addresses; `held` is the set of blocks the rest of the program refers to, `dirty` the
blocks programmed since their last erasure. `pc`, `freeing` and `freed` say where
`allocate_block` stands, with the collector and `free_block` inside it.

| code | actions |
|---|---|
| `allocate_block` (163-221) | `AllocateBlock`; when the positions are equal `StartGc`, then `GcReturns`, then `AllocateAfterGc` or `AllocateFails` |
| `free_block` (223-284) | `FreeBlock` (checks, and the erasure of a used up allocator block), `EraseFreed`, `WriteEntry`; `FreeRefused` and `FreeFails` are its error paths, whose result the collector ignores |
| `prepare_block_allocator` (33-80) with what `r2f2_format` does next | `Init`, `Format` |
| `restore_block_allocator` (86-149) | `Mount`, `MountFails` |
| the rest of the program writing its blocks | `Program` |
| power lost, unmount | `PowerLoss`, `Unmount` |

`Spec` is the mounted allocator; `RestartSpec` adds power losses, mounts and formats.
Each action stands for the code up to the next operation that changes flash.

### R2F2File

State in flash: `dme` (the next-block pointers of the file's directory entry), `fse`,
`fie` (sequence and indirection entries with their two flags), `link` (the chain of
indirection blocks), `page` (the data). In RAM: `fd` (the descriptor's `meta` and
size), `buf` and `count` (the block buffer). `pc` and `op` are the control state and
the locals of `r2f2_fsync`. `wrote`, `app` and `acked` are history variables: the pages
the application wrote, the file as it knows it, and what was acknowledged; `unnoticed` is
another, whether the write of an entry has failed where the code does not look at the result
(`r2f2.c:669`).

`r2f2_fsync` (531-683) is one action per flash write that changes what the entries
say: `Fsync` (the first data block), then per chunk `NextChunk`, `WritePage` (once per
page), if the sequence block is full `Migrate`, `NewSeqBlock`, `TakeIndirEntry` or
`ExtendChain`, `IndirUse`, `IndirWrite`, `IndirCommit`, and then `SeqUse`, `SeqWrite`,
`SeqCommit`. `Write` is `r2f2_write`, `Close` and `Open` what they are called.
`NoMemory`, `ChainRefused`, `FlashError` and the second disjunct of `SeqWrite` (whose
result the code ignores) are the error paths, and `Crash` a power loss. The searches of
`r2f2_metadata.c` are operators: `Valid` for the last entry, `Visited` and `Search` for
`find_data_block_for_off` with its starting points, the unsigned subtraction included.
`PageAt` is what `r2f2_read` returns, with its check of the size first, so that a descriptor
whose size is 0 reads nothing, whatever the entries say. In `Migrate` and `ExtendChain`,
allocating a block and writing the pointer to it is one step: what an error or a power loss
between the two does, the loss of that block, is not in the model.

A cell that is programmed a second time with another value holds `Damaged` or
`Garbage`, as two values that are ANDed do.

### R2F2Layout

State in flash: `data` (for each data block, the bytes in each page; a page may be
short, and its chunk length is the length of that sequence) and `fse` (the entries of
the sequence block). In RAM: `fd` (the descriptor's data entry, `file_size`,
`file_offset`), `buf` (the block buffer) and `done` (`total_written` in `r2f2_fsync`).
The n-th byte written has value n, so that where a byte ends up shows what it is.

| code | actions and operators |
|---|---|
| `r2f2_write` (`r2f2.c`) | `Write`; a write that overflows the buffer is `Write`, `Fsync` and `Write` |
| `r2f2_fsync` | `Fsync`, then `FsyncChunk` for each turn of its loop |
| `r2f2_write_data` (`r2f2_metadata.c`) | `WriteData`, `PagesFor`, `Filled` |
| `find_data_block_for_off_direct` | `ExpectedEntry`, `Covers`, `Found` |
| `r2f2_read_data` | `ChunkAt`, `ReadData`; an assertion that fails is `pc = "aborted"` |
| `r2f2_read`, `r2f2_lseek` | `Read` with `ReadAt`, `Lseek` |

### R2F2Dir and R2F2Gc

State in flash: `kind` (the type in a block's header), `ent` (the entries of directory
blocks: three flags, the path, the pointers written so far), `link` (the chain of a
directory's blocks), `refs` (what the entries of a sequence or indirection block refer
to). `free` is the allocator's queue, `root` the `root_dir_block` in RAM, `pc` and `op`
the call under way with its locals (`op.victim` is the collector's: the block whose
reference it has zeroed), and `walk` the recursion of
`r2f2_reclaim_dir_block`: a stack of the directory block, the entry it is at, and
`this_dir_block_reclaimable`.

| code | actions and operators |
|---|---|
| `r2f2_find_dir_meta_block`, `r2f2_get_dir_entry` | `DirBlock`, `DirIn` (a segment is looked for in the first block of its directory only), `With` and `Find` (the last one in the whole chain, `Chain`) |
| `r2f2_find_last_dir_meta_block` | `LastInChain` |
| `r2f2_register_file`, `r2f2_mkdir` | `Register` or `Mkdir`, then `ExtendDir` if the block is full, `TakeBlock`, `UseEntry`, `WriteEntry`, `CommitEntry` |
| `r2f2_remove` | `RemovePath` |
| `r2f2_opendir`, `r2f2_readdir` | `Opendir` (looked up like a file, in the whole chain), `Listing` |
| open, write, `r2f2_fsync`, close | `BeginAppend`, `TakeData` unless it goes on in a data block, if the sequence block is full `Migrate` and `NewSeqBlock`, `RecordData` |
| `allocate_block`, `r2f2_gc_entry` | `Allocate`; `StartGc` when the queue is empty, `NoMemory` when nothing was freed |
| `r2f2_reclaim_dir_block` (`r2f2_gc.c`) | `SkipZeroed`, `KeepEntry`, `Descend`, `LeaveDir`, for the cases its comments number |
| `r2f2_reclaim_file_blocks`, `r2f2_reclaim_indir_block`, `r2f2_reclaim_seq_block` | `ZeroDataRef` or `ZeroSeqRef`, then `FreeVictim`, for each block below; last `FreeTop`, then `ZeroEntry` (84-98, in `r2f2_reclaim_dir_block`) |
| `r2f2_migrate_root_dir_block` | `MigrateRoot`, `MigrateRootAllocates` |
| `r2f2_migrate_dir_block_in_entry` | `MigrateDir`, `MigrateDirNoPtr` |
| power lost, mount | `Crash` |

The collector reaches states from which the program cannot go on, all of them places
where the sources have a TODO or allocate inside the collector. The model has the step
that leads there and stops after it, with `pc` saying which:

* `overflow`: moving the root directory needs a block, `allocate_block` finds the queue
  empty and runs the collector again, which comes to the same place. The comment at
  `r2f2_gc.c:363` says that "we can't allocate in our gc"; paths 1 and 2b of the root do.
* `dangling`: a directory block is freed although it has no successor, so that the entry
  of the directory still refers to it, or although it has entries that were not zeroed
  (`r2f2_gc.c:120-131`, with the TODO at 333). Or power is lost after a file's first block was
  freed and before the entry that refers to it was zeroed (`r2f2_gc.c:84-88`): the block
  may have another owner when the next collection follows that entry.
* `noptr`: both pointers of the entry are used up (`r2f2_gc.c:343-401`).

### R2F2Flags

A flag word is the set of its bits that are one. `MarkCopy` programs a flag from a copy
in RAM of the flags marked before, as register, mkdir and fsync do, `MarkRead` from what was
read, wrong bits included, as remove does, and `Flip` is the flash flipping a bit. The
other modules take flags for Booleans; `FlagsSound` is what allows it. The module is
proved about only: its state space is that of 32 free bits.

## 3. Runs

| run | instance | what it shows |
|---|---|---|
| `alloc` | `Spec`, 8 blocks, 8 entries each, no flash errors; 17 203 states | The positions bracket the free entries; the next allocator block can be erased when a free enters it; a collection that counted a block leaves one; no block is lost; slots keep to their life cycle; the allocator refines the FIFO queue; the invariant `MountedInv` |
| `alloc_restart` | `RestartSpec`, 8 blocks, 4 entries each, flash errors; 110 944 states | One owner per block, free blocks erased, the life cycle of slots, and the invariant `RestartInv`, with power losses between any two flash operations and after mounts that set the positions wrongly |
| `alloc_mount` | the same, no errors | *Violated*: after a wrap, a mount misplaces `_alloc_ptr` |
| `alloc_reserved` | the same | *Violated*: after that, block 0 is handed out |
| `file` | `FairSpec`, no faults; 10 blocks, 2 pages a block, 2 sequence and 4 indirection entries, 8 writes; 1 004 states | The file refines the append-only log: what is durable stays, grows in order, and is read back between calls; an open restores what is in RAM; no block is lost; every fsync ends, with all of the buffer stored; the invariant `TidyInv` |
| `file_faults` | power losses, full allocator, flash errors; 3 pages a block, 1 indirection entry, 5 writes; 132 024 states | Valid entries cover written pages only, and stay reachable and unchanged, and so do their pages until the write of an entry fails unnoticed; the invariant `FileInv` |
| `file_chain` | no faults, 2 indirection entries, 6 writes | *Violated*: what `r2f2_fsync` acknowledged is not found in the second block of a chain |
| `file_crash` | power losses, 4 writes | *Violated*: a file with acknowledged data opens as empty |
| `layout` | pages of 2 bytes, 3 pages a block, 5 sequence entries, 13 bytes; 157 079 states | No byte is lost or repeated; entries place their blocks; `r2f2_fsync`'s assertions hold; a read within the data block the search finds returns what was written; if every fsync ended a page, every read does, or stops at an assertion where it leaves a block |
| `layout_short` | the same, 4 entries, 9 bytes | *Violated*: after an fsync that ended within a page, a read of stored bytes returns others |
| `tree` | 6 blocks, 2 directory, 1 sequence and 2 indirection entries; files `/f` and `/d/g`; full-block fsyncs; one power loss, in a call or in a collection; 875 875 states up to symmetry | The tree refines the set of names; a block has one reference to it, of the right kind (`SoleReferences`); the collector frees nothing in use and nothing twice, and loses nothing, and a power loss only the blocks in hand; the callers' positions survive it; listing agrees with lookup; every collection ends |
| `gc_twice` | 3 blocks, 2 sequence entries, fsyncs that end within a data block, no power loss | *Violated*: a block that two sequence entries name is listed as free while it is in use |

Bounds. The allocator's state is finite and counts nothing, so the geometry is the only
bound. With 8 blocks of 8 entries there is one allocator block for the entries and one to
spare, and 4 allocable blocks; with 4 entries there are three allocator blocks and 3
allocable blocks. Both let the queue wrap and each allocator block be used up, erased and
filled again any number of times; in the second the queue can cross a block boundary that is
not the end of the ring. The theorems below cover every geometry.

For a file the interesting events are the ends of things. 2 pages a block and 2 entries a
block let a chunk end at, before and after the end of a data block and of a sequence block,
both in one `r2f2_fsync`. Without faults, 4 indirection entries and 8 writes reach the
migration and further sequence blocks with a free slot, and stay within one indirection block, which is as far as
the refinement holds (`file_chain` shows what comes after). With faults, 1 indirection
entry makes every sequence block after the first extend the chain, so that 5 writes reach
a chain, a second extension of it through a descriptor that was opened on its first
block, and every error path; with 3 pages a block, three fsyncs can share a data block, which is
what it takes to leave a longer record behind a shorter one. `MaxWrites` and `NumBlocks` bound the file; as the system
stops there, the runs of `R2F2File` do not check for deadlock. The runs of `R2F2Alloc` do.

`FaultsView` leaves out of `file_faults`' fingerprints `app` and `acked`, which no guard,
no other variable and nothing in that run but the type part of `FileInv` reads (`FileTypes`, below,
is about all states), and the cells of `buf` that are stale
between calls: a write overwrites them before `r2f2_fsync` can read them.

The refinement of the log keeps apart what valid entries cover (`Durable`) and what a descriptor
opened now would read back (`Readable`). The two agree whenever the application can call, and
differ inside `r2f2_fsync`: from the commit of a new sequence block's indirection entry to the first valid
entry of that block, an open finds an empty last block and takes the file for empty
(`r2f2.c:223-241`). The log has a step for it, `Hide`; without it the refinement fails. It is
the state in which a power loss makes the run `file_crash` fail.

In `layout`, 13 bytes are two blocks of three pages and one byte more, and five entries
let several fsyncs share a block and still reach the third; pages of two bytes
can be short, full, or last in their block. All lengths of write and all positions and
lengths of read are tried. The system stops at `MaxBytes`, at the last entry or after an
assertion, so deadlock is not checked there.

In `tree`, 6 blocks are few enough for every call to run into the collector, and enough for a
file with an indirection block, next to a directory that grows by a block. With two entries
a block, the root fills up, is collected and moves. One sequence entry makes the
second append migrate. `gc_twice` needs two sequence entries that share a block, and only
3 blocks. Block numbers mean nothing to these modules, and `Init` admits every order of the
queue, so the blocks other than the root are symmetric; both runs check safety only.
Deadlock is checked: `Halt` stutters in the three states in which the model stops, so that
any other state without a step would be reported.

Fairness and liveness. r2f2 has no scheduler, no retry and no background task. The one
fairness it has is that of its thread: a call, once begun and with power on, runs on.
`FairSpec` of `R2F2File` says so with `WF_vars(FsyncStep)`, the steps of one `r2f2_fsync`, and
nothing of what the application does next; `FsyncStoresAll` is that every fsync
then comes to its end, with everything that was in the buffer in pages of valid entries. For the
collector, whose recursion is the other loop that could run on for ever, termination is
stated as safety: by `CollectionMovesOn` each of its steps descends in a well-founded order
(deeper in the tree, at an earlier entry, or with fewer references left), and no state of it is
without a step.

## 4. Findings

* **A mount after the ring has wrapped misplaces `_alloc_ptr`** (`r2f2_alloc.c:119`,
  run `alloc_mount`). The lowest live slot is taken for the front of the queue, which it
  is only before the first wrap. Free blocks before the wrap point are then out of reach, and
  the allocator runs into consumed slots.
* **Block 0 is handed out** (`r2f2_alloc.c:86`, run `alloc_reserved`). A mount does not set
  `_first_allocable_block`; it is 0 after a power cycle, and a consumed slot, all zeros,
  passes the check.
* **Data acknowledged by `r2f2_fsync` is not found** (`r2f2_metadata.c:902`, run
  `file_chain`). In a second indirection block the search starts at
  `expected - NUM_FILE_INDIR_ENTRIES`, which wraps round when the file used more entries
  than expected, as small fsyncs make it do.
* **A file opens as empty after a power loss** (`r2f2.c:643`, run `file_crash`). The
  indirection entry of a new sequence block is committed before the block has an entry.
* **A read returns other bytes than were written** (`r2f2_metadata.c:947`, run
  `layout_short`). The fill level of a sequence entry counts whole pages, and is compared with
  an offset in bytes. After an fsync that ended within a page, a read of bytes in the next
  data block finds the one before, in which no chunk has the offset, and gets the bytes at its
  beginning.
* **A block is free and in use** (`r2f2_gc.c:217`, run `gc_twice`). A data block that several
  fsyncs filled has several sequence entries, and the collector frees it for each of
  them.

The last one is what `R2F2Alloc` assumes not to happen: `UniqueOwnership` holds, across
power losses and wrong mounts, as long as the collector frees only blocks that are held. The run
`tree` shows that, where each data block has one entry, it does.

## 5. Proofs

`R2F2AllocProofs` proves, for every number of blocks and of entries per block that
`GeometryAssumption` admits:

| theorem | property |
|---|---|
| `RestartInvariance` | `RestartSpec => []RestartInv`, type correctness included |
| `OwnershipIsUnique`, `FreeBlocksAreErased` | `UniqueOwnership`, `FreeBlocksErased` |
| `SlotsFollowLifeCycle` | the action property `SlotLifeCycle` |
| `MountedInvariance` | `Spec => []MountedInv` |
| `AllocatorType` | `RestartSpec => []TypeOK` |
| `AllocatorIsQueue` | `Spec => ImplementsFreeList`, the refinement of `R2F2FreeList` |
| `PointersBracket`, `NextBlockIsEmpty`, `CollectionSucceeds`, `NoBlockIsLost` | `PointersBracketFreeEntries`, `NextBlockEmptyOnFree`, `CollectionLeavesEntry`, `NoBlockLost` |

Assumptions (`GeometryAssumption`). There is at least one block, an allocator block has at least one entry, and two allocable
blocks are left after the allocator's own (format takes one; with no other, a mount
fails).

*Across restarts*, nothing can be assumed of the two positions, since a mount may
misplace both. What saves ownership is the flash itself. `FilledInOrder` says that an
allocator block is programmed from its first slot on, so that where a scan finds an erased
slot, the slot before it is not erased, unless a block begins there; `NextFreeErased` says
that `next_free_ptr` is at such a slot whenever it is inside a block. At the start of
a block `free_block` checks, and erases. Hence a free programs an erased slot,
always. `ControlInv` ties the block being freed to the step `free_block` has reached: it
is held by its owner until its entry is written, and erased before that. These, with
ownership and erasure themselves, are inductive (`RestartInv`); neither is without them.

*While mounted*, the positions bracket the queue. The difficulty is that equal positions
mean empty, and that a free which enters an allocator block must find it used up. Both
follow from a count: the entries between the positions and the held blocks together are
at most the allocable blocks (`RoomInRing`), and the ring is longer than that by
an allocator block, since `get_num_allocator_blocks` adds one. So the queue never reaches round
into the block it is about to enter (`SpanMissesNextBlock`). `FirstLap \/ LaterLap` says
where erased slots are: from `next_free_ptr` to the end of the ring before it first
wraps, to the end of its block afterwards. `FreedEntryWritten` carries over a collection
that it left an entry. The geometry, division and wrap-around, is in the lemmas at the
top of the module.

*The refinement.* The queue is the ring's content from `alloc_ptr` up to `next_free_ptr`.
`MountedInv` is what makes each step one of the queue's: by `SpanSlots` the slots between
the positions are distinct and all free blocks, so taking the first shifts the others
(`TakeEntryAllocates`); by `RoomInRing` the slot that is programmed is the one after the
last (`WriteEntryFrees`); an allocator block is erased only when none of its slots is in the
queue (`QueueUnchanged`); and `free_block` never refuses, so that a block is lost to a flash
error only. Liveness is not part of it.

`R2F2FileProofs` proves, for every number of blocks, of pages a block, of sequence and of
indirection entries, and for every set of faults:

| theorem | property |
|---|---|
| `FileInvariance` | `Spec => []FileInv`, type correctness included |
| `FileTypes` | `TypeOK` |
| `DataWritten` | `CommittedDataWritten`: a valid entry covers written pages only |
| `EntriesKept` | the action property `CommittedEntriesKept` |
| `PagesKept` | the action property `CommittedPagesKept` |

None of the three properties is inductive, as each speaks of the valid entries, and what is valid
changes with one flag. `FileInv` speaks of all entries of all blocks, valid or not, in use or
not. That an entry becoming valid covers written pages needs that of entries that are not valid
(`RecordsSound`), since a power loss leaves them behind and a reopened file marks them used a second
time; that of the descriptor, from which entries are made (`DescriptorSound`); and where
`r2f2_fsync` stands in its buffer (`LoopSound`). That a valid entry stays as it is needs that the
place of the next one is not valid (`SeqInOrder`), also in the block that an open finds, hence
that this block is the newest that has a valid entry (`Newest`), which in turn needs the order in
which indirection entries are used and blocks are chained (`IndirInOrder`), and that a block
just handed out is blank (`Pristine`). That a covered page is not programmed needs that the fill levels
of the valid entries of one data block never decrease (`Growing`). This part fails after an
error that `r2f2.c:669` does not look at: then an entry is marked valid that an earlier fsync,
cut off by a power loss, wrote and that covers more than the descriptor knows of; the next fsync
programs pages it covers. TLC finds this with 3 pages a block, which is why `unnoticed` is in the model
and `CommittedPagesKept` is claimed only up to that point.

`Chain` is recursive over a link that leads to newer blocks. It is reasoned about as the least
set that holds the first block and is closed under the link (`From`), so that each fact about it
is a choice of a closed set; that the recursive definition is that set, and that it ends in one last
block, rests on the well-foundedness of `<` (`LeastElement`).

`R2F2FileReopenProofs` proves, for the same sizes and without faults, up to a full indirection block:

| theorem | property |
|---|---|
| `TidyInvariance` | `Spec => []TidyInv` |
| `ReopenGivesDescriptor` | `DescriptorMatchesFlash`: opening gives the descriptor that was in RAM |
| `BlocksFound` | `NoBlockLost`: every allocated block is reachable from the directory entry |

`TidyInv` holds what a power loss destroys: only the entry being made is not blank and not valid
(`EntriesTidy`), the descriptor is that of its last entry (`DescriptorTidy`), and a block is reachable
unless `r2f2_fsync` holds it (`BlocksTidy`). `Undisturbed`, in all three, is the absence of faults
and of a second indirection block. A file that has one is left out, because opening it goes back to the first
and then refuses to grow (`ChainRefused`), which loses the block just allocated.

`R2F2LayoutProofs` proves, for every page size, number of pages and of sequence entries:

| theorem | property |
|---|---|
| `LayoutType` | `TypeOK`: no fill level is beyond its block, the buffer never holds more than a block |
| `LayoutAssertions` | `AssertionsHold`: the assertions of `r2f2_fsync` and `r2f2_write_data`, and that no page is written twice |

The assertion that a write begins at a page is about a fill level that several fsyncs
advanced, and that the next one begins on erased flash is about pages the
descriptor does not mention. `PageAligned` says that a fill level is a whole number of pages;
it is kept as `Filled` counts the last page of a chunk in full, and a chunk of at most
`Capacity - fill` bytes cannot round up past the block. `BlankBehind` says that the pages of
the current data block from the fill level on are erased. Neither follows from the other, and
both need `Bounds` and `InCall` (what each variable is bounded by, and that `done` is behind
the buffer's end in the loop only). `IInv` is their conjunction. The arithmetic is in the
lemmas at the top of the module.

`R2F2LayoutBytesProofs` proves, for the same sizes and every way to cut the writes into fsyncs:

| theorem | property |
|---|---|
| `ContentInvariance` | `Spec => []ContentInv` |
| `BytesInOrder` | `NothingLostOrRepeated`: flash and buffer hold the file's bytes in order, each once |
| `EntriesPlaced` | `EntriesPlaceBlocks`: an entry's offset is where its data block begins in the file |

`ContentInv` is `IInv`, both properties, and `Placed`: the descriptor's data block is the last one,
and its offset the number of bytes before it. That is what `NextBlock` establishes, setting the
offset to a size that counts bytes when the fill level, which counts pages, says that the block
is full. The contents are `FlattenSeq` of chunks, a recursive function of the library. What it
computes is proved by a least counterexample (`Upwards`, from the well-foundedness of `<`): it
exists, is unique, and joining one more sequence appends it (`JoinedNext`). From that, `WriteData`
appends its chunk to the bytes of a block whose later pages are blank (`BytesWritten`,
where `BlankBehind` of `IInv` comes in), and a blank block adds nothing (`BlankBlockAdded`).

`R2F2LayoutReadProofs` proves, for the same sizes and every way to cut the writes into fsyncs:

| theorem | property |
|---|---|
| `ReadInvariance` | `Spec => []ReadInv` |
| `BlockReadsAlwaysRight` | `BlockReadsRight`: each stored byte is found, and read as written, in the block the search finds |
| `WholePagesAlwaysRight` | `WholePagesReadRight`: what a read returns while there are no short pages |

`ReadInv` adds to `ContentInv` what a search relies on. `PagesWritten`: a data block has a chunk in every
page up to its end. `r2f2_read_data` stops at the first page without one, so a gap would hide what is
behind it; with it, the page whose chunk has an offset is unique, and is found (`ChunkFound`).
`Findable`: every stored byte is covered by an entry at or behind the one at which
`find_data_block_for_off_direct` begins. The search begins at the entry there would be if each fsync had
filled a block; `off < j * Capacity` says that there can only be more entries than that. That an
entry covers its bytes needs that its fill level, which counts pages, is at least the
bytes behind its offset (`fd.size - fd.off <= fd.fill`). The rest is what a read returns:
`r2f2_read_data` gives a part of the bytes of its block (`ReadDataIs`), whose i-th byte is byte i behind the
blocks before it (`BytesInPlace`, from `NothingLostOrRepeated`), which is the place the entry gives it
(`EntriesPlaceBlocks`). Without short pages a block is its fill level long (`WholeBlock`), so
that the search can only find the block the offset is in.

`R2F2TreeProofs` proves of the directories with the collector in their allocations, for every set of
blocks, files and directories, every number of entries a block and of power losses, as long as
no fsync ends within a data block (`~ShortFsyncs`; with one, `FreeListSound` is violated, see
`gc_twice`):

| theorem | property |
|---|---|
| `Typing` | `TypeOK` |
| `StaysTree` | `TreeInv`: the blocks are a tree |
| `FreedIsFree` | `FreeListSound`: the collector frees no block twice, and none that is in use |
| `ReferencesSole` | `SoleReferences`: a block has one reference to it, of the right kind |
| `ListingIsLookup` | `ReaddirListsFound`: what is listed is what is found, wherever `r2f2_opendir` finds the directory |
| `LocalsStayValid` | `LocalsStillValid`: what a call chose before a collection is still right after it |
| `LeaksAreInHand` | `LeaksOnlyOwnBlocks`: only a call that is given up and a power loss lose blocks, those in hand |
| `CollectionsEnd` | `CollectionMovesOn`: a collection goes deeper, back, or leaves less at the same file |

That a block which is freed is not in use is a fact about every reference on flash, and about what
the call under way and the collector hold in RAM. `TreeInv` says of each reference that it is to a block
of the right kind (`Kinds`) and the only one to that block (`OneParent`), so that zeroing it leaves
the block without one; of a block that a call has allocated and not referred to yet, and of the one
the collector has in hand, that nothing refers to it (`NoParent`, in `Holds` and `Walks`); of what
is left of a file that is half taken apart, that its entry is marked reclaimable (`Whole`), which
is why no append can meet it; and of the collector's stack that its directories are where
their entries say (`Walks`). A collection inside an append must not free the append's own file: the
entry the call holds is live and the collector frees only below entries that are not, and by
`OneParent` the two share no block. Two parts are about what is reached: `Acyclic`, since `Reachable` is
recursive, and `Owned`, that the directory blocks can be coloured with the directory they belong to,
from which it follows that a new entry is made in a block of its own directory and that a new directory
never comes to hang below itself. `Owned` is stated as the existence of a colouring, which each step
extends, since a definition by recursion along references that change would have to be
proved anew at each step. `Acyclic` says that each set of blocks has one without a child in the set, so that
a step keeps it if no new reference closes a path. That the recursive `Chain`, `DirBlock` and `Reached`
are what their definitions say follows from it (from `TreeAssumption`, for `DirBlock`): what
relates each argument to its value is the least relation closed under the equations, and
the arguments at which it is not a function would be a set with a least element (`ChainSolved`,
`HomeRecursion`, `ReachSolvable`). TLC agrees that `TreeInv` holds, with the constants of `tree`; the run
checks `SoleReferences` only, the part that says what the invariant is for, as the whole
doubles its time.

`LocalsStayValid` rests on a second invariant, `Places`: the directory block that a call chose is in the
chain of its directory with nothing behind it, and the entry it found is the one that lookup finds.
A migration takes only the first block of a chain, and one without entries (`HeadTaken`), and what
lookup finds is followed through each step (`LookupStays`).

`ListingIsLookup` needs that a directory which `r2f2_opendir` finds in a later block of its parent is empty.
Nothing is made in it, as a path segment is looked up in the first block only, until a migration
makes that later block the first one. The invariant `Hollow` says so of all blocks: a directory
block to which an entry of a later block refers is blank. No step can take a block that has been
written to back to such a place, since a block that is linked is new and without entries, and the first
block of a chain is never behind another (`HeadUnlinked`).

`LeaksAreInHand` is about all that is reached from the root. `Reached` is recursive; it is the
least set that has the root and what its blocks refer to (`LeastReached`), so that a step can lose nothing
from it if what its blocks referred to before is still reached, or is taken out on purpose
(`ReachedStays`). The invariant, `Kept`, adds to both others that an erased block is in the
queue (`ErasedFree`) and that the directory block a call is writing to is in the tree
(`Grounded`).

`CollectionsEnd` follows from `Kept`. By `Acyclic`, the walk is in no directory block twice (`WayOnce`),
and each step that stands still erases a block or zeroes an entry, and does neither the other way
(`LessWork`). That a collection therefore ends, as there are finitely many blocks, is not a
statement about one step, and is left to the reader.

What ends the model is outside: `Kinds`, `OneParent`, `Whole`, `Holds` and `Walks` are claimed up to `dangling`,
where the collector leaves a reference to a block it has freed. The rest of `TreeInv` holds there too.

`R2F2Flags` proves, in every order of marks and flips:

| theorem | statement |
|---|---|
| `FlagsSound` | A flag reads as set exactly if it was marked, as long as at most four of its nine bits are wrong (`Tolerable`) |
| `ProgrammingKeepsFlags` | What is programmed over a word never unsets a flag: the order used, committed, reclaimable survives a power loss in any write of it |

The invariant is `OnlyFlippedWrong`: the bits of a flag that differ from what was
programmed are among the flipped ones. It holds although `MarkRead` programs wrong bits for
good, since the flags do not share bits (`Masks`). `FourOfNine` is then the count.

Only model-checked: that `R2F2File` refines `R2F2AppendLog`, which is about the search of a read
among entries of all fsyncs; of `R2F2Dir` and `R2F2Gc`, that they refine `R2F2Names`; `FsyncStoresAll`, which is liveness
under fairness and out of the prover's reach; and the properties that are violated.

## 6. Assumptions, and what is left out

* One flash write, or one erasure, is atomic, and one that reports an error changed
  nothing. Torn writes belong to the ECC, below.
* A word with a damaged code is reported as damaged; bit flips that the code corrects are
  invisible. Reading a record gives it intact, blank or damaged.
* `R2F2Alloc`: the collector frees only what is held and drops what it freed. Writing
  to a block while `free_block` works on it does not happen. Formatting is one step: it
  starts with the erasure of the superblock and ends with writing it, so that a power
  loss inside leaves nothing that could be mounted.
* `R2F2File`: one file that is registered, one descriptor, appending. Data is counted in
  pages; a page with its parity is one write. Blocks come from an allocator that
  hands out erased blocks nobody uses, which is what `R2F2Alloc` shows of it while the file system
  stays mounted; the collector does not touch the file. A last entry that is committed
  but blank, which an ignored error leaves behind (`r2f2.c:669`), opens as a file of
  2^32-1 bytes and then fails an assertion; `Open` leaves it out.
* `R2F2Layout`: one sequence block; the search through indirection blocks is in `R2F2File`.
  Parity bytes are left out: a chunk is read as it was written. A read that reaches into the
  block buffer (`r2f2.c:438-471`) is in the model; nothing is stated of it, as the code says that it
  is not implemented.
* `R2F2Dir`, `R2F2Gc`: flash operations do not fail. A path is one value, and cutting it at
  slashes or checking its length is left out. An append is open, write, fsync and close in one
  call, so that no descriptor is open across another; a file stays within one
  indirection block. Writes within a sequence or indirection entry are one step, as their protocol is
  `R2F2File`'s; the migration of a directory block is one step, and so is
  `free_block`, which `R2F2Alloc` has in detail. A power loss (`Crash`, at most
  `MaxCrashes`) comes between any two writes of a call or of the collector in it, but only while the
  root directory has not moved: the superblock does not follow it (TODO at
  `r2f2_gc.c:307`). A collection ends with the first file or block it has freed, as
  it is asked for one block. Removed directories are never collected, as in the code (TODO
  at `r2f2_gc.c:79`).

## 7. Plan

What could come next, in this order:

1. The collector with failing flash operations, whose error codes it adds to its counts
   (`r2f2_gc.c:149`), and composed with `R2F2Alloc` instead of its queue, so that a mount that
   misplaces the positions meets a half-freed tree.
2. Several descriptors: two of one file, and one that stays open while its file is removed
   (`r2f2_file.c:443`, `r2f2.c:713`). The sources do not say what is allowed; it
   would have to be stated first.
3. The superblock: a format whose steps fail (`r2f2.c:69`), and the root directory a mount
   finds after it moved.
4. Theorems: the refinement of `R2F2AppendLog`, for files without a chain; that of
   `R2F2Names`, for which `TreeInv` has to say that a path has one entry that is found.

## Not modelled

* The BCH code: vendored, and algebra over a Galois field. Its tables are out of reach for a
  model checker, and the rest of r2f2 relies on nothing but that decoding inverts encoding.
* Logging, the debug dump and the macros for return values: no state.
* The tests: their flash simulator is the environment, which the modules replace by NOR
  flash. `DOUBLE_METADATA` copies: they are written, and nothing reads them.
