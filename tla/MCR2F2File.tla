----------------------------- MODULE MCR2F2File -----------------------------
(***************************************************************************)
(* Model checking the append path of a file.                               *)
(***************************************************************************)
EXTENDS R2F2File

AppendLog == INSTANCE R2F2AppendLog WITH
    Pages    <- 1 .. MaxWrites,
    written  <- app,
    durable  <- Durable,
    readable <- Readable

\* A file is an append-only log: every step of r2f2_write, r2f2_fsync,
\* r2f2_close and r2f2_open appends to it, makes more of it durable in order, or
\* reports all of it as stored.  What is durable stays so, and between calls
\* a descriptor opened now reads it back; within r2f2_fsync, from the commit
\* of a new sequence block's indirection entry to that block's first valid
\* entry, it would read nothing (r2f2.c:223-241).
ImplementsAppendLog == AppendLog!Spec

\* What the run with faults tells apart: not the content as the application
\* knows it, which no action there reads, and not what is left of earlier calls
\* in the block buffer, which the next write overwrites.
FaultsView ==
    <<flash, fresh, fd, count, pc, op, wrote, unnoticed,
      [p \in PageIdx |-> IF pc = "idle" /\ p >= count THEN Erased ELSE buf[p]]>>
=============================================================================
