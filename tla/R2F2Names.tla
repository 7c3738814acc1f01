----------------------------- MODULE R2F2Names ------------------------------
(***************************************************************************)
(* What the directories of r2f2 promise: a set of paths that are there.    *)
(* A path comes into it when its directory is there, with the return of    *)
(* the call that makes it, and leaves it when it or a directory above it   *)
(* is removed.  Nothing else changes the set: not a call that fails or     *)
(* loses power, nor what a call does on its way.                           *)
(***************************************************************************)
CONSTANTS Paths,    \* the paths of files and directories
          Home,     \* Home[p]: the directory p is in
          Root      \* the root directory, always there

VARIABLES names,    \* the paths that are there
          status    \* of the file system

TypeOK == names \subseteq Paths /\ status \in {"idle", "busy", "stopped"}

\* The directories p is in, and p
Above[p \in Paths \cup {Root}] == IF p = Root THEN {} ELSE {p} \cup Above[Home[p]]

Init == names = {} /\ status = "idle"

Start == status = "idle" /\ status' = "busy" /\ UNCHANGED names

Create(p) ==
    /\ p \notin names
    /\ Home[p] \in names \cup {Root}
    /\ names' = names \cup {p}

Return == /\ status = "busy" /\ status' = "idle"
          /\ UNCHANGED names \/ \E p \in Paths : Create(p)

Remove(p) ==
    /\ status = "idle" /\ UNCHANGED status
    /\ p \in names
    /\ names' = {q \in names : p \notin Above[q]}

\* Where it is in a state it cannot go on from, nothing is promised.
Stop == status = "busy" /\ status' = "stopped"

Next == Start \/ Return \/ Stop \/ \E p \in Paths : Remove(p)

Spec == Init /\ [][Next]_<<names, status>>
=============================================================================
