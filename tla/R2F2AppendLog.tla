---------------------------- MODULE R2F2AppendLog ----------------------------
(***************************************************************************)
(* What a file of r2f2 promises to the application that appends to it: the *)
(* pages it wrote reach the flash in order, a page that a valid entry      *)
(* covers stays what it is, and when fsync reports success all of them are *)
(* there and can be read.  It does not promise that they can be read while *)
(* fsync runs: in the middle of it the file may look empty.                *)
(***************************************************************************)
EXTENDS Sequences, Integers

CONSTANT Pages

VARIABLES written,  \* the pages the application wrote
          durable,  \* the positions that valid entries on the flash cover
          readable, \* the positions a descriptor opened now reads them back from
          acked     \* what was written when fsync last reported success

vars == <<written, durable, readable, acked>>

Init == written = <<>> /\ durable = {} /\ readable = {} /\ acked = <<>>

\* Between calls, all that is durable can be read.
Write(p) ==
    /\ readable = durable
    /\ written' = Append(written, p)
    /\ UNCHANGED <<durable, readable, acked>>

\* A chunk is on the flash, and can be read with all before it.
Store ==
    /\ \E n \in 1 .. Len(written) : durable \subseteq 1 .. n /\ durable' = 1 .. n
    /\ readable' = durable'
    /\ UNCHANGED <<written, acked>>

\* Within fsync the file goes over to a new, empty block of entries.
Hide ==
    /\ readable' = {}
    /\ UNCHANGED <<written, durable, acked>>

\* fsync reports success.
Acknowledge ==
    /\ durable' = DOMAIN written
    /\ readable' = durable'
    /\ acked' = written
    /\ UNCHANGED written

Next == (\E p \in Pages : Write(p)) \/ Store \/ Hide \/ Acknowledge

Spec == Init /\ [][Next]_vars
=============================================================================
