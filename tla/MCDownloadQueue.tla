-------------------------- MODULE MCDownloadQueue --------------------------
(* Instances of DownloadQueue for TLC: two files, one retry. *)
EXTENDS DownloadQueue, TLC

CONSTANTS f1, f2

MCFiles == {f1, f2}
Symmetry == Permutations(MCFiles)

AnyFault == [crash |-> 1, telegram |-> 1, retry |-> 1]
=============================================================================
