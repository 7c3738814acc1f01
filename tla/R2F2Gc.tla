------------------------------- MODULE R2F2Gc -------------------------------
(***************************************************************************)
(* The garbage collector of r2f2 (r2f2_gc.c), composed with the calls of   *)
(* R2F2Dir in whose allocations it runs.                                   *)
(*                                                                         *)
(* When the allocator's queue is empty, allocate_block has r2f2_gc_entry   *)
(* walk the directories, from the root's last entry to its first and down  *)
(* into each directory it meets, until it has freed a block.  `walk` is    *)
(* the stack of its calls of r2f2_reclaim_dir_block: the directory block,  *)
(* the entry it is at, and this_dir_block_reclaimable.                     *)
(*                                                                         *)
(* Where the collector leaves what the program can go on from, the model   *)
(* ends, with pc saying where:                                             *)
(*   overflow   it allocates a block, which runs it again, without end;    *)
(*   dangling   it has freed a directory block that is still referred to,  *)
(*              or that still has entries, or power was lost when it had   *)
(*              freed a file's first block, before its entry was zeroed;   *)
(*   noptr      both pointers of a directory's entry are used up.          *)
(***************************************************************************)
EXTENDS R2F2Dir

Top == Last(walk)
TopEntry == ent[Top.dir][Top.at]
Frame(b) == [dir |-> b, at |-> DirEntries, clean |-> TRUE]

\* On to the next entry, the directory block being reclaimable as before and clean
Advance(w, clean) == Append(Front(w), [Last(w) EXCEPT !.at = @ - 1, !.clean = @ /\ clean])

\* allocate_block with an empty queue
StartGc ==
    /\ pc \in Allocating /\ walk = <<>> /\ free = <<>>
    /\ walk' = <<Frame(root)>>
    /\ UNCHANGED <<flash, free, root, pc, op, crashes>>

AtEntry == walk # <<>> /\ Top.at > 0
IsZeroed == TopEntry.path = Zeroed
HasNext == TopEntry.next # <<>>
NextIsDir == HasNext /\ kind[Last(TopEntry.next)] = "dir"

\* 3. An entry that was collected before
SkipZeroed ==
    /\ AtEntry /\ IsZeroed
    /\ walk' = Advance(walk, TRUE)
    /\ UNCHANGED <<flash, free, root, pc, op, crashes>>

\* An entry without a block, a removed directory (1a, a TODO), and a file that
\* is not removed (2b): none can be got rid of.
KeepEntry ==
    /\ AtEntry /\ ~IsZeroed
    /\ \/ ~HasNext
       \/ HasNext /\ TopEntry.reclaimable = NextIsDir
    /\ walk' = Advance(walk, FALSE)
    /\ UNCHANGED <<flash, free, root, pc, op, crashes>>

\* 2a. A directory that is not removed, committed or not: into its first block
Descend ==
    /\ AtEntry /\ ~TopEntry.reclaimable /\ NextIsDir
    /\ walk' = Append(walk, Frame(Last(TopEntry.next)))
    /\ UNCHANGED <<flash, free, root, pc, op, crashes>>

\* 1b. A removed file: r2f2_reclaim_file_blocks
AtVictim == AtEntry /\ TopEntry.reclaimable /\ HasNext /\ ~NextIsDir
VictimTop == Last(TopEntry.next)
TopFreed == AtVictim /\ kind[VictimTop] = "erased"
SetRefs(b) == {i \in DOMAIN refs[b] : refs[b][i] # None}
VictimSeqs == IF kind[VictimTop] = "indir"
              THEN {refs[VictimTop][i] : i \in {i \in SetRefs(VictimTop) :
                                                   i = Min(SetRefs(VictimTop))}}
              ELSE {VictimTop}

\* free_block, with the erasure
Free(b) ==
    /\ free' = Append(free, b)
    /\ kind' = [kind EXCEPT ![b] = "erased"]

\* Mutant: the entry is not zeroed.
ZeroDataRefNot ==
    /\ AtVictim /\ op.victim = None
    /\ \E s \in VictimSeqs :
          /\ SetRefs(s) # {}
          /\ op' = [op EXCEPT !.victim = refs[s][Min(SetRefs(s))]]
          /\ Len(free) < 2 * Cardinality(Blocks)
    /\ UNCHANGED <<flash, free, root, pc, walk, crashes>>

\* r2f2_reclaim_seq_block: the next entry is zeroed, its data block in hand.
ZeroDataRef ==
    /\ AtVictim /\ op.victim = None
    /\ \E s \in VictimSeqs :
          /\ SetRefs(s) # {}
          /\ refs' = [refs EXCEPT ![s][Min(SetRefs(s))] = None]
          /\ op' = [op EXCEPT !.victim = refs[s][Min(SetRefs(s))]]
    /\ UNCHANGED <<kind, ent, link, free, root, pc, walk, crashes>>

\* r2f2_reclaim_indir_block: its next entry, when that sequence block has none.
ZeroSeqRef ==
    /\ AtVictim /\ op.victim = None /\ kind[VictimTop] = "indir"
    /\ \E s \in VictimSeqs :
          /\ SetRefs(s) = {}
          /\ refs' = [refs EXCEPT ![VictimTop][Min(SetRefs(VictimTop))] = None]
          /\ op' = [op EXCEPT !.victim = s]
    /\ UNCHANGED <<kind, ent, link, free, root, pc, walk, crashes>>

\* The block in hand, which nothing refers to any more
FreeVictim ==
    /\ op.victim # None
    /\ Free(op.victim)
    /\ refs' = [refs EXCEPT ![op.victim] = <<>>]
    /\ op' = [op EXCEPT !.victim = None]
    /\ UNCHANGED <<ent, link, root, pc, walk, crashes>>

\* Mutant: the blocks below are not waited for.
FreeTopOnly ==
    /\ AtVictim /\ ~TopFreed /\ op.victim = None
    /\ Free(VictimTop)
    /\ refs' = [refs EXCEPT ![VictimTop] = <<>>]
    /\ UNCHANGED <<ent, link, root, pc, op, walk, crashes>>

\* The file's first block, while the directory entry still refers to it
FreeTop ==
    /\ AtVictim /\ ~TopFreed /\ op.victim = None
    /\ SetRefs(VictimTop) = {}
    /\ Free(VictimTop)
    /\ refs' = [refs EXCEPT ![VictimTop] = <<>>]
    /\ UNCHANGED <<ent, link, root, pc, op, walk, crashes>>

\* Mutant: the pointers are not zeroed.
ZeroedEntryPath(e) == [e EXCEPT !.path = Zeroed]
ZeroedEntry(e) == [e EXCEPT !.path = Zeroed, !.next = <<>>]

\* The directory entry.  Blocks have been freed, so the collection is over and
\* allocate_block goes on.
ZeroEntry ==
    /\ TopFreed
    /\ ent' = [ent EXCEPT ![Top.dir][Top.at] = ZeroedEntry(@)]
    /\ walk' = <<>>
    /\ UNCHANGED <<kind, link, refs, free, root, pc, op, crashes>>

AtEnd == walk # <<>> /\ Top.at = 0
EntriesLeft(b) == \E i \in Idx : ent[b][i].path # Zeroed

\* Mutant: back to the entry that the walk went down from.
LeaveDirSame ==
    /\ AtEnd /\ ~Top.clean /\ Len(walk) > 1
    /\ walk' = Front(walk)
    /\ UNCHANGED <<flash, free, root, pc, op, crashes>>

\* A directory block with something to keep: back to the directory above
LeaveDir ==
    /\ AtEnd /\ ~Top.clean /\ Len(walk) > 1
    /\ walk' = Advance(Front(walk), TRUE)
    /\ UNCHANGED <<flash, free, root, pc, op, crashes>>

\* Nothing was freed: RET_NOMEM.  What the call has allocated so far is lost.
NoMemory ==
    /\ AtEnd /\ ~Top.clean /\ Len(walk) = 1
    /\ walk' = <<>>
    /\ Return
    /\ UNCHANGED <<flash, free, root, crashes>>

FreeDirBlock(b) == Free(b) /\ link' = [link EXCEPT ![b] = None]

\* Mutant: a root with a next block is given up with what is in it.
MigrateRootAll ==
    /\ AtEnd /\ Top.clean /\ Len(walk) = 1
    /\ link[root] # None
    /\ root' = link[root]
    /\ ent' = [ent EXCEPT ![root] = ErasedDir]
    /\ FreeDirBlock(root)
    /\ walk' = <<>>
    /\ UNCHANGED <<refs, pc, op, crashes>>

\* r2f2_migrate_root_dir_block, path 2a: the next block is the root, in RAM.
MigrateRoot ==
    /\ AtEnd /\ Top.clean /\ Len(walk) = 1
    /\ ~EntriesLeft(root) /\ link[root] # None
    /\ root' = link[root]
    /\ ent' = [ent EXCEPT ![root] = ErasedDir]
    /\ FreeDirBlock(root)
    /\ walk' = <<>>
    /\ UNCHANGED <<refs, pc, op, crashes>>

\* Its other paths call allocate_block, with the queue as empty as before.
MigrateRootAllocates ==
    /\ AtEnd /\ Top.clean /\ Len(walk) = 1
    /\ EntriesLeft(root) \/ link[root] = None
    /\ walk' = <<>> /\ pc' = "overflow"
    /\ UNCHANGED <<flash, free, root, op, crashes>>

\* r2f2_migrate_dir_block_in_entry: the next block is what the entry of the
\* directory points to.  Without one it fails, and the block is freed all the same.
Above == walk[Len(walk) - 1]
MigrateDir ==
    /\ AtEnd /\ Top.clean /\ Len(walk) > 1
    /\ LET b == Top.dir IN
       /\ link[b] # None => Len(ent[Above.dir][Above.at].next) < 2
       /\ ent' = [ent EXCEPT
              ![Above.dir][Above.at].next = IF link[b] = None THEN @ ELSE Append(@, link[b]),
              ![b] = ErasedDir]
       /\ FreeDirBlock(b)
       /\ pc' = IF link[b] = None \/ EntriesLeft(b) THEN "dangling" ELSE pc
    /\ walk' = <<>>
    /\ UNCHANGED <<refs, root, op, crashes>>

\* Both pointers are used up.
MigrateDirNoPtr ==
    /\ AtEnd /\ Top.clean /\ Len(walk) > 1
    /\ link[Top.dir] # None /\ Len(ent[Above.dir][Above.at].next) = 2
    /\ walk' = <<>> /\ pc' = "noptr"
    /\ UNCHANGED <<flash, free, root, op, crashes>>

Collect ==
    \/ StartGc \/ SkipZeroed \/ KeepEntry \/ Descend
    \/ ZeroDataRef \/ ZeroSeqRef \/ FreeVictim \/ FreeTop \/ ZeroEntry
    \/ LeaveDir \/ NoMemory \/ MigrateRoot \/ MigrateRootAllocates
    \/ MigrateDir \/ MigrateDirNoPtr

\* A power loss and a mount, while the superblock names the root directory.  A
\* collection is left where it stands.
Crash ==
    /\ pc \in Allocating \cup Writing
    /\ root = FirstRoot
    /\ crashes < MaxCrashes /\ crashes' = crashes + 1
    /\ walk' = <<>> /\ op' = NoOp
    /\ pc' = IF TopFreed THEN "dangling" ELSE "idle"
    /\ UNCHANGED <<flash, free, root>>

\* Where the model ends it stays, so that any other state without a step is a
\* deadlock.
Halt == pc \in Stopped /\ UNCHANGED vars

Next == Call \/ Step \/ Collect \/ Crash \/ Halt

Spec == Init /\ [][Next]_vars
-----------------------------------------------------------------------------
\* What a block refers to, for a reader, and what it refers to at all, in entries
\* that are removed too
EntryRefs(b, all) ==
    {Last(ent[b][i].next) :
        i \in {i \in Idx : ent[b][i].next # <<>> /\ (ent[b][i].reclaimable => all)}}
RefsOf(b, all) == (({link[b]} \cup ToSet(refs[b])) \ {None}) \cup EntryRefs(b, all)

Reached(all) ==
    LET Below[b \in Blocks] == {b} \cup UNION {Below[c] : c \in RefsOf(b, all)}
    IN  Below[root]
Reachable == Reached(FALSE)
Pending == {op.dir, op.block, op.seq} \ {None}
InHand == Pending \cup ({op.victim} \ {None})
Accounted == ToSet(free) \cup Reached(TRUE) \cup InHand

\* r2f2_alloc.h:13: an entry of the ring is "a free block index": nothing that is
\* not removed refers to the block, nor has the call that runs it in hand.
FreeEntriesAreFree == ToSet(free) \cap (Reachable \cup Pending) = {}

\* The collector frees no block twice, and none that is in use; what it frees is
\* erased.
FreeListSound ==
    pc # "dangling" =>
        /\ IsInjective(free)
        /\ FreeEntriesAreFree
        /\ \A b \in ToSet(free) : kind[b] = "erased" /\ refs[b] = <<>>

\* r2f2_alloc.c:164: "any time we allocate in some function but can early-return
\* before we consume the block", the block is lost.  That is the only way to lose
\* one, next to a power loss, which loses what the call and the collector have in
\* hand and no more, in the middle of a file's tree too.  A call that succeeds, and
\* the collector in it, drop none.
LeaksOnlyOwnBlocks ==
    [][\/ Accounted \subseteq Accounted'
       \/ pc' = "dangling"
       \/ (NoMemory \/ Crash) /\ Accounted \ Accounted' \subseteq InHand]_vars

\* r2f2_file.c:341 and r2f2.c:340: the directory block and the entry chosen before
\* allocate_block are used after it, whatever the collector did in between; so are
\* the places r2f2_open put into the descriptor.  They are still the right ones.
LocalsStillValid ==
    walk = <<>> =>
        /\ pc \in {"extend", "block", "use"} =>
              /\ op.dir \in Chain[DirBlock[Home[op.path]]]
              /\ IF pc = "extend" THEN link[op.dir] = None
                 ELSE ent[op.dir][op.slot] = BlankEntry
        /\ pc \in {"data", "indir", "entry"} =>
              /\ Find(op.path) = {<<op.dir, op.slot>>}
              /\ LastSeq(EntryOf(<<op.dir, op.slot>>)) = op.seq

\* r2f2_readdir lists what r2f2_get_dir_entry finds, and all of it unless the
\* directory has grown past its first block (r2f2.c:775).  r2f2_opendir looks the
\* directory up as a last segment, in a whole chain, what is in it is looked up through
\* the first block of each chain: a directory that only the former finds is empty.
ReaddirListsFound ==
    \A d \in Dirs \cup {Root} : \A block \in Opendir(d) :
        LET found == {p \in Paths : Home[p] = d /\ Find(p) # {}}
        IN  /\ Listing(block) \subseteq found
            /\ link[block] = None => Listing(block) = found

\* Every collection comes to an end, with a block for allocate_block to take or
\* with the call given up, so that allocate_block runs it once.  From each step to
\* the next the walk is in a deeper directory, at an earlier entry, or at the same
\* file with less of it left.
GoneOn(to, from) ==
    \/ IsStrictPrefix(from, to)
    \/ \E i \in DOMAIN to \cap DOMAIN from :
          /\ SubSeq(to, 1, i - 1) = SubSeq(from, 1, i - 1)
          /\ to[i].dir = from[i].dir /\ to[i].at < from[i].at
WorkLeft == Cardinality({b \in Blocks : kind[b] # "erased"})
            + Cardinality(UNION {{b} \X SetRefs(b) : b \in Blocks})
CollectionMovesOn ==
    [][walk # <<>> =>
          IF walk' = <<>> THEN free' # <<>> \/ pc' \in Stopped \cup {"idle"}
          ELSE /\ IF walk' = walk THEN WorkLeft' < WorkLeft ELSE GoneOn(walk', walk)
               /\ IsInjective([i \in DOMAIN walk' |-> walk'[i].dir])]_vars
-----------------------------------------------------------------------------
(***************************************************************************)
(* The tree of blocks: what is true of it when no short fsync makes two    *)
(* references to one data block.  An inductive invariant.                  *)
(***************************************************************************)
\* A block has the contents of its kind only, and an erased one none.
Contents ==
    /\ \A b \in Blocks : /\ kind[b] # "dir" => ent[b] = ErasedDir /\ link[b] = None
                         /\ kind[b] \notin {"seq", "indir"} => refs[b] = <<>>
                         /\ kind[b] = "seq" => Len(refs[b]) <= SeqEntries
                         /\ kind[b] = "indir" => Len(refs[b]) <= IndirEntries
    /\ \A b \in Blocks, i \in Idx : /\ ~ent[b][i].used => ent[b][i] = BlankEntry
                                    /\ ent[b][i].committed => ent[b][i].path # Blank
                                    /\ ent[b][i].path = Zeroed => ent[b][i].reclaimable

FreeErased == IsInjective(free) /\ \A b \in ToSet(free) : kind[b] = "erased"

\* The directories have no cycle.
DirKids(b) == ({link[b]} \ {None}) \cup EntryRefs(b, TRUE)
Acyclic == \A T \in SUBSET {b \in Blocks : DirKids(b) # {}} :
               T # {} => \E b \in T : DirKids(b) \cap T = {}

\* Each directory block is that of one directory: it has the paths that are in it.
OwnedBy(own) ==
    /\ own[root] = Root
    /\ \A b \in Blocks : link[b] # None => own[link[b]] = own[b]
    /\ \A b \in Blocks, i \in Idx :
          /\ ent[b][i].path \in Paths => Home[ent[b][i].path] = own[b]
          /\ ent[b][i].path \in Dirs => own[Last(ent[b][i].next)] = ent[b][i].path
    /\ pc \in {"extend", "block", "use", "write"} => own[op.dir] = Home[op.path]
    /\ pc \in {"use", "write"} /\ op.call = "mkdir" => own[op.block] = op.path
Owned == \E own \in [Blocks -> Dirs \cup {Root}] : OwnedBy(own)

\* A reference is to a block of the right kind, but for the entry of a removed file
\* of which the last block has just been freed.
KindOf(e) == IF e.path \in Dirs THEN "dir" ELSE IF Len(e.next) = 1 THEN "seq" ELSE "indir"
Kinds ==
    /\ kind[root] = "dir"
    /\ \A b \in Blocks : link[b] # None => kind[link[b]] = "dir"
    /\ \A b \in Blocks, i \in Idx :
          ent[b][i].next # <<>> =>
              \/ kind[Last(ent[b][i].next)] = KindOf(ent[b][i])
              \/ TopFreed /\ op.victim = None /\ b = Top.dir /\ i = Top.at
    /\ \A b \in Blocks : \A i \in DOMAIN refs[b] :
          refs[b][i] # None => kind[refs[b][i]] = IF kind[b] = "seq" THEN "data" ELSE "seq"

\* Nothing refers to x.
NoParent(x) ==
    /\ x # root
    /\ \A b \in Blocks : link[b] # x
    /\ \A b \in Blocks, i \in Idx : ent[b][i].next # <<>> => Last(ent[b][i].next) # x
    /\ \A b \in Blocks : \A i \in DOMAIN refs[b] : refs[b][i] # x

\* There is one reference to a block, and none to the root.
OneParent ==
    /\ \A b \in Blocks : link[b] # None =>
          link[b] # root /\ \A c \in Blocks : link[c] = link[b] => c = b
    /\ \A b \in Blocks, i \in Idx : ent[b][i].next # <<>> =>
          LET x == Last(ent[b][i].next) IN
          /\ x # root /\ \A c \in Blocks : link[c] # x
          /\ \A c \in Blocks : \A j \in DOMAIN refs[c] : refs[c][j] # x
          /\ \A c \in Blocks, j \in Idx :
                ent[c][j].next # <<>> /\ Last(ent[c][j].next) = x => c = b /\ j = i
    /\ \A b \in Blocks : \A i \in DOMAIN refs[b] : refs[b][i] # None =>
          \A c \in Blocks : \A j \in DOMAIN refs[c] :
              refs[c][j] = refs[b][i] => c = b /\ j = i

\* The indirection block of a file that is there refers to sequence blocks.
Whole ==
    \A b \in Blocks, i \in Idx :
        ent[b][i].next # <<>> /\ ~ent[b][i].reclaimable =>
            LET top == Last(ent[b][i].next) IN
            kind[top] = "indir" =>
                refs[top] # <<>> /\ \A j \in DOMAIN refs[top] : refs[top][j] # None

\* What a call that makes an entry has found and allocated so far
OpEntry == ent[op.dir][op.slot]
MakesEntry ==
    pc \in {"extend", "block", "use", "write", "commit"} =>
        /\ op.call \in {"register", "mkdir"} /\ op.dir # None /\ op.seq = None
        /\ op.path \in IF op.call = "mkdir" THEN Dirs ELSE Files
        /\ pc = "extend" => link[op.dir] = None
        /\ pc \in {"extend", "block"} => op.block = None
        /\ pc \in {"block", "use"} => OpEntry = BlankEntry
        /\ pc = "write" => OpEntry = [BlankEntry EXCEPT !.used = TRUE]
        /\ pc \in {"use", "write"} =>
              /\ op.block # None /\ op.block # op.dir /\ NoParent(op.block)
              /\ kind[op.block] = IF op.call = "mkdir" THEN "dir" ELSE "seq"
              /\ ent[op.block] = ErasedDir /\ link[op.block] = None /\ refs[op.block] = <<>>
        /\ pc = "commit" =>
              OpEntry = [BlankEntry EXCEPT !.used = TRUE, !.path = op.path, !.next = <<op.block>>]

\* What an append has found and allocated so far
OpTop == Last(OpEntry.next)
Appends ==
    pc \in {"data", "indir", "seq", "entry"} =>
        /\ op.call = "append" /\ op.path \in Files /\ op.dir # None /\ op.seq # None
        /\ Live(OpEntry) /\ OpEntry.path = op.path /\ LastSeq(OpEntry) = op.seq
        /\ IF pc = "data" THEN op.block = None
           ELSE op.block # None /\ kind[op.block] = "data" /\ NoParent(op.block)
        /\ pc = "data" /\ SeqFull(op.seq) =>
              IF kind[OpTop] = "indir" THEN Len(refs[OpTop]) < IndirEntries ELSE IndirEntries > 1
        /\ pc = "indir" => kind[OpTop] = "seq" /\ IndirEntries > 1
        /\ pc = "seq" => kind[OpTop] = "indir" /\ Len(refs[OpTop]) < IndirEntries
        /\ pc = "entry" => ~SeqFull(op.seq)

Holds ==
    /\ pc = "idle" => op = NoOp
    /\ op.dir # None => kind[op.dir] = "dir"
    /\ op.block # None => kind[op.block] \in {"dir", "seq", "data"}
    /\ op.seq # None => kind[op.seq] = "seq"
    /\ MakesEntry /\ Appends

\* The collector runs in allocate_block only, and has a block in hand only as it runs.
Collecting ==
    /\ walk = <<>> => op.victim = None
    /\ pc \notin Allocating => walk = <<>>

\* The collector's way down, and the block it has in hand
Walks ==
    /\ walk # <<>> => walk[1].dir = root
    /\ \A i \in DOMAIN walk : i < Len(walk) =>
          LET e == ent[walk[i].dir][walk[i].at] IN
          /\ walk[i].at > 0 /\ e.next # <<>> /\ ~e.reclaimable
          /\ Last(e.next) = walk[i + 1].dir /\ kind[walk[i + 1].dir] = "dir"
    /\ op.victim # None =>
          /\ AtVictim /\ ~TopFreed /\ op.victim # op.block
          /\ kind[op.victim] \in {"seq", "data"} /\ NoParent(op.victim)

\* Whatever calls, collections and power losses leave behind, a block is of the kind
\* that what refers to it takes it for, and nothing else refers to it.
SoleReferences == pc # "dangling" => Kinds /\ OneParent

TreeInv ==
    /\ Contents /\ FreeErased /\ Acyclic /\ Owned /\ Collecting
    /\ pc # "dangling" => Kinds /\ OneParent /\ Whole /\ Holds /\ Walks
=============================================================================
