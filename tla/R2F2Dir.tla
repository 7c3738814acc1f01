------------------------------- MODULE R2F2Dir ------------------------------
(***************************************************************************)
(* The directories of r2f2 and the calls that change its tree of blocks:   *)
(* r2f2_register_file, r2f2_mkdir, r2f2_remove, and an append of data that *)
(* is r2f2_open, a write, r2f2_fsync and r2f2_close (r2f2.c, r2f2_file.c,  *)
(* r2f2_metadata.c).  R2F2Gc adds the garbage collector, which runs inside *)
(* the allocations these calls make.                                       *)
(*                                                                         *)
(* A directory is a chain of directory blocks.  An entry in one is a path  *)
(* and a pointer to the first block of a directory, to a file's sequence   *)
(* block or, from the second pointer on, to its indirection block; the     *)
(* last pointer holds.  A sequence block refers to data blocks.            *)
(*                                                                         *)
(* A step is the code up to a flash write that what the flash says depends *)
(* on.  A path is one value; Home says which directory it is in.  Data and *)
(* the protocol within a sequence or indirection entry are R2F2File's: an  *)
(* entry there is a reference, made by one step.  The allocator is         *)
(* R2F2FreeList: a queue.  Flash operations do not fail.                   *)
(***************************************************************************)
EXTENDS Integers, SequencesExt

CONSTANTS Blocks,         \* blocks the allocator knows; which is which is of no account
          FirstRoot,      \* the block that r2f2_format makes the root directory
          DirEntries,     \* NUM_DIR_META_ENTRIES
          SeqEntries,     \* NUM_FILE_SEQ_ENTRIES
          IndirEntries,   \* bound: NUM_FILE_INDIR_ENTRIES, all a file may use
          Files, Dirs,    \* paths of files and of directories
          Home,           \* Home[p]: the directory that path p is in
          ShortFsyncs,    \* an fsync may end within a data block
          MaxCrashes      \* bound: power losses in a behaviour

Root == "/"
Blank == "blank"                   \* the path of an entry that is all ones
Zeroed == "zeroed"                 \* the path of an entry that is all zeros
Paths == Files \cup Dirs

ASSUME TreeAssumption ==
    /\ \A n \in {DirEntries, SeqEntries, IndirEntries} : n \in Nat \ {0}
    /\ IsFiniteSet(Blocks) /\ FirstRoot \in Blocks /\ 0 \notin Blocks
    /\ Paths \cap {Root, Blank, Zeroed} = {} /\ Files \cap Dirs = {}
    /\ Home \in [Paths -> Dirs \cup {Root}]
    /\ \A D \in SUBSET Dirs : D # {} => \E d \in D : Home[d] \notin D
    /\ ShortFsyncs \in BOOLEAN /\ MaxCrashes \in Nat

Idx == 1 .. DirEntries
None == 0                          \* a block pointer that is not set

BlankEntry == [used |-> FALSE, committed |-> FALSE, reclaimable |-> FALSE,
               path |-> Blank, next |-> <<>>]
ErasedDir == [i \in Idx |-> BlankEntry]
Entry == [used : BOOLEAN, committed : BOOLEAN, reclaimable : BOOLEAN,
          path : Paths \cup {Blank, Zeroed}, next : Seq(Blocks)]

VARIABLES
    kind,   \* flash: the type in the block header
    ent,    \* flash: the entries of the directory blocks
    link,   \* flash: next of the directory blocks
    refs,   \* flash: what the entries of sequence and indirection blocks refer to
    free,   \* the allocator's queue
    root,   \* RAM: root_dir_block
    pc,     \* where the call stands
    op,     \* the call
    walk,   \* the collector's calls of r2f2_reclaim_dir_block
    crashes \* power losses so far

flash == <<kind, ent, link, refs>>
vars == <<flash, free, root, pc, op, walk, crashes>>

\* The call and its local variables, and the block that the collector inside it
\* has in hand
NoOp == [call |-> "none", path |-> Root, dir |-> None, slot |-> 1,
         block |-> None, seq |-> None, victim |-> None]

\* Where a call waits for allocate_block, where it writes, and where the model
\* ends (see R2F2Gc)
Allocating == {"extend", "block", "data", "indir", "seq"}
Writing == {"use", "write", "commit", "entry"}
Stopped == {"overflow", "dangling", "noptr"}

\* The most references a block of either kind has room for
MaxRefs == Max({SeqEntries, IndirEntries})

TypeOK ==
    /\ kind \in [Blocks -> {"erased", "dir", "seq", "indir", "data"}]
    /\ ent \in [Blocks -> [Idx -> Entry]]
    /\ \A b \in Blocks, i \in Idx :
          LET e == ent[b][i] IN
          \/ e.path \in {Blank, Zeroed} /\ e.next = <<>>
          \/ e.path \in Paths /\ Len(e.next) \in 1 .. 2
    /\ link \in [Blocks -> Blocks \cup {None}]
    /\ refs \in [Blocks -> Seq(Blocks \cup {None})]
    /\ \A b \in Blocks : Len(refs[b]) <= MaxRefs
    /\ free \in Seq(Blocks)
    /\ root \in Blocks
    /\ pc \in {"idle"} \cup Allocating \cup Writing \cup Stopped
    /\ op \in [call : {"none", "register", "mkdir", "append"}, path : Paths \cup {Root},
               dir : Blocks \cup {None}, slot : Idx,
               block : Blocks \cup {None}, seq : Blocks \cup {None},
               victim : Blocks \cup {None}]
    /\ walk \in Seq([dir : Blocks, at : 0 .. DirEntries, clean : BOOLEAN])
    /\ crashes \in 0 .. MaxCrashes

-----------------------------------------------------------------------------
(***************************************************************************)
(* Finding paths.                                                          *)
(***************************************************************************)
Live(e) == e.used /\ e.committed /\ ~e.reclaimable

\* The live entry for p in block b before the first unused one
EntriesFor(b, p) == {i \in Idx : /\ ent[b][i].path = p /\ Live(ent[b][i])
                                 /\ \A j \in 1 .. i : ent[b][j].used}

\* The chain of directory blocks from b on
Chain[b \in Blocks \cup {None}] == IF b = None THEN {} ELSE {b} \cup Chain[link[b]]
LastInChain(b) == CHOOSE c \in Chain[b] : link[c] = None

\* r2f2_find_dir_meta_block: the first block of directory d.  A path segment is
\* looked for in the first block of its directory only.
DirIn(b, d) == IF b = None \/ EntriesFor(b, d) = {} THEN None
               ELSE Last(ent[b][Min(EntriesFor(b, d))].next)
DirBlock[d \in Dirs \cup {Root}] ==
    IF d = Root THEN root ELSE DirIn(DirBlock[Home[d]], d)

\* r2f2_get_dir_entry: the last segment is looked for in the whole chain.  At most
\* one place, the directory block and the entry.
With(p) == {b \in Chain[DirBlock[Home[p]]] : EntriesFor(b, p) # {}}
Find(p) == LET with == With(p) IN
           {<<b, Min(EntriesFor(b, p))>> : b \in {b \in with : with \subseteq Chain[b]}}
Visible == {p \in Paths : Find(p) # {}}

EntryOf(place) == ent[place[1]][place[2]]

\* r2f2_opendir: the directory's first block, of the place where its path is found.
\* At most one block.
Opendir(d) == IF d = Root THEN {root} ELSE {Last(EntryOf(place).next) : place \in Find(d)}

\* Mutant: removed entries are listed.
ListingUsed(b) == {ent[b][i].path : i \in {i \in Idx : \A j \in 1 .. i : ent[b][j].used}}

\* The calls of r2f2_readdir until RET_OOB
Listing(b) == {ent[b][i].path : i \in {i \in Idx : /\ Live(ent[b][i])
                                                  /\ \A j \in 1 .. i : ent[b][j].used}}

-----------------------------------------------------------------------------
\* After r2f2_format: an empty root directory; the other blocks are free.
Init ==
    /\ kind = [b \in Blocks |-> IF b = FirstRoot THEN "dir" ELSE "erased"]
    /\ ent = [b \in Blocks |-> ErasedDir]
    /\ link = [b \in Blocks |-> None]
    /\ refs = [b \in Blocks |-> <<>>]
    /\ free \in SetToSeqs(Blocks \ {FirstRoot})
    /\ root = FirstRoot
    /\ pc = "idle" /\ op = NoOp
    /\ walk = <<>> /\ crashes = 0

\* allocate_block when there is a free block, also after a collection, with the
\* header the caller writes
Allocate(b, type) ==
    /\ walk = <<>> /\ free # <<>> /\ b = Head(free)
    /\ free' = Tail(free)
    /\ kind' = [kind EXCEPT ![b] = type]

Return == pc' = "idle" /\ op' = NoOp

\* Mutant: the entry is written to the first block of the directory.
BeginEntryFirst(call, p) ==
    /\ pc = "idle"
    /\ DirBlock[Home[p]] # None /\ Find(p) = {}
    /\ LET d == DirBlock[Home[p]]
           unused == {i \in Idx : ~ent[d][i].used}
       IN  /\ op' = [NoOp EXCEPT !.call = call, !.path = p, !.dir = d,
                                 !.slot = IF unused = {} THEN 1 ELSE Min(unused)]
           /\ pc' = IF unused = {} THEN "extend" ELSE "block"
    /\ UNCHANGED <<flash, free, root, walk, crashes>>

\* A new path: the last block of its directory, and its first unused entry
BeginEntry(call, p) ==
    /\ pc = "idle"
    /\ DirBlock[Home[p]] # None /\ Find(p) = {}
    /\ LET d == LastInChain(DirBlock[Home[p]])
           unused == {i \in Idx : ~ent[d][i].used}
       IN  /\ op' = [NoOp EXCEPT !.call = call, !.path = p, !.dir = d,
                                 !.slot = IF unused = {} THEN 1 ELSE Min(unused)]
           /\ pc' = IF unused = {} THEN "extend" ELSE "block"
    /\ UNCHANGED <<flash, free, root, walk, crashes>>

\* r2f2_register_file and r2f2_mkdir
Register(f) == f \in Files /\ BeginEntry("register", f)
Mkdir(d) == d \in Dirs /\ BeginEntry("mkdir", d)

\* r2f2_create_next_dir_meta_block
ExtendDir ==
    /\ pc = "extend"
    /\ \E b \in Blocks : /\ Allocate(b, "dir")
                         /\ link' = [link EXCEPT ![op.dir] = b]
                         /\ op' = [op EXCEPT !.dir = b, !.slot = 1]
    /\ pc' = "block"
    /\ UNCHANGED <<ent, refs, root, walk, crashes>>

\* The file's sequence block, or the directory's first block
TakeBlock ==
    /\ pc = "block"
    /\ \E b \in Blocks : /\ Allocate(b, IF op.call = "mkdir" THEN "dir" ELSE "seq")
                         /\ op' = [op EXCEPT !.block = b]
    /\ pc' = "use"
    /\ UNCHANGED <<ent, link, refs, root, walk, crashes>>

UseEntry ==
    /\ pc = "use"
    /\ ent' = [ent EXCEPT ![op.dir][op.slot].used = TRUE]
    /\ pc' = "write"
    /\ UNCHANGED <<kind, link, refs, free, root, op, walk, crashes>>

WriteEntry ==
    /\ pc = "write"
    /\ ent' = [ent EXCEPT ![op.dir][op.slot].path = op.path,
                          ![op.dir][op.slot].next = <<op.block>>]
    /\ pc' = "commit"
    /\ UNCHANGED <<kind, link, refs, free, root, op, walk, crashes>>

CommitEntry ==
    /\ pc = "commit"
    /\ ent' = [ent EXCEPT ![op.dir][op.slot].committed = TRUE]
    /\ Return
    /\ UNCHANGED <<kind, link, refs, free, root, walk, crashes>>

\* r2f2_remove
RemovePath(p) ==
    /\ pc = "idle"
    /\ \E place \in Find(p) :
          ent' = [ent EXCEPT ![place[1]][place[2]].reclaimable = TRUE]
    /\ UNCHANGED <<kind, link, refs, free, root, pc, op, walk, crashes>>

\* The sequence block an open file goes on in
LastSeq(e) == IF kind[Last(e.next)] = "indir" THEN Last(refs[Last(e.next)])
              ELSE Last(e.next)
SeqFull(s) == Len(refs[s]) = SeqEntries
\* Where the chunk's entry goes
PcForEntry == IF ~SeqFull(op'.seq) THEN "entry"
              ELSE IF kind[Last(EntryOf(<<op'.dir, op'.slot>>).next)] = "indir" THEN "seq"
              ELSE "indir"

\* An append: r2f2_open, r2f2_write, and r2f2_fsync up to its first allocation.
\* The chunk fills a data block of its own or, if short, goes to that of the last
\* entry.  Bound: the file's entries stay within one indirection block.
BeginAppend(f, short) ==
    /\ pc = "idle"
    /\ \E place \in Find(f) :
          LET top == Last(EntryOf(place).next)
              s == LastSeq(EntryOf(place))
          IN  /\ SeqFull(s) => IF kind[top] = "indir" THEN Len(refs[top]) < IndirEntries
                                ELSE IndirEntries > 1
              /\ short => refs[s] # <<>>
              /\ op' = [NoOp EXCEPT !.call = "append", !.path = f, !.dir = place[1],
                                    !.slot = place[2], !.seq = s,
                                    !.block = IF short THEN Last(refs[s]) ELSE None]
    /\ pc' = IF short THEN PcForEntry ELSE "data"
    /\ UNCHANGED <<flash, free, root, walk, crashes>>

TakeData ==
    /\ pc = "data"
    /\ \E b \in Blocks : Allocate(b, "data") /\ op' = [op EXCEPT !.block = b]
    /\ pc' = PcForEntry
    /\ UNCHANGED <<ent, link, refs, root, walk, crashes>>

\* r2f2_migrate_file_to_indir_block
Migrate ==
    /\ pc = "indir"
    /\ \E b \in Blocks :
          /\ Allocate(b, "indir")
          /\ refs' = [refs EXCEPT ![b] = <<op.seq>>]
          /\ ent' = [ent EXCEPT ![op.dir][op.slot].next = Append(@, b)]
    /\ pc' = "seq"
    /\ UNCHANGED <<link, root, op, walk, crashes>>

\* The next sequence block, and its entry in the indirection block
NewSeqBlock ==
    /\ pc = "seq"
    /\ LET top == Last(EntryOf(<<op.dir, op.slot>>).next) IN
       \E b \in Blocks : /\ Allocate(b, "seq")
                         /\ refs' = [refs EXCEPT ![top] = Append(@, b)]
                         /\ op' = [op EXCEPT !.seq = b]
    /\ pc' = "entry"
    /\ UNCHANGED <<ent, link, root, walk, crashes>>

RecordData ==
    /\ pc = "entry"
    /\ refs' = [refs EXCEPT ![op.seq] = Append(@, op.block)]
    /\ Return
    /\ UNCHANGED <<kind, ent, link, free, root, walk, crashes>>

\* What r2f2 does of its own accord once it is called
Step ==
    \/ ExtendDir \/ TakeBlock \/ UseEntry \/ WriteEntry \/ CommitEntry
    \/ TakeData \/ Migrate \/ NewSeqBlock \/ RecordData
\* The calls of the application
Call ==
    \/ \E f \in Files : Register(f)
    \/ \E d \in Dirs : Mkdir(d)
    \/ \E p \in Paths : RemovePath(p)
    \/ \E f \in Files, short \in BOOLEAN : (short => ShortFsyncs) /\ BeginAppend(f, short)
=============================================================================
