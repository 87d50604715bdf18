---------------------------- MODULE MCSharedFiles ----------------------------
(* Children and four file names, of which f1 and f2 are there at the       *)
(* start, in a table of three slots.  The name s is so short that, written *)
(* over size, it makes it smaller than the number of files of the start.   *)
EXTENDS SharedFiles, TLC

CONSTANTS f1, f2, f3, s

MCInitial == <<f1, f2>>
MCFiles == {f1, f2, f3, s}
MCBytes == [f \in MCFiles |-> IF f = s THEN 1 ELSE FarOut]
Symmetry == Permutations(Children)
===============================================================================
