------------------------------ MODULE MCR2F2Gc ------------------------------
(***************************************************************************)
(* Model checking the directories and the garbage collector.               *)
(***************************************************************************)
EXTENDS R2F2Gc

\* A file in the root directory, a directory, and a file in it
MCFiles == {"f", "g"}
MCDirs == {"d"}
MCHome == [p \in MCFiles \cup MCDirs |-> IF p = "g" THEN "d" ELSE "/"]

BlockSymmetry == Permutations(Blocks \ {FirstRoot})

Status == CASE pc = "idle" -> "idle"
            [] pc \in Stopped -> "stopped"
            [] OTHER -> "busy"

Names == INSTANCE R2F2Names WITH names <- Visible, status <- Status

\* The paths that r2f2 finds are those that calls made, and did not remove: no
\* other step, of the collector or a power loss, changes them.
ImplementsNames == Names!Spec
=============================================================================
