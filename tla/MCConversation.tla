--------------------------- MODULE MCConversation ---------------------------
(* An instance of Conversation for TLC: two files, and My Drive with one     *)
(* folder on the first of its two pages.                                     *)
EXTENDS Conversation, TLC

CONSTANTS f1, f2, my, sub

MCFiles == {f1, f2}
MCFolders == {my, sub}
MCContents == (my :> << <<sub>>, <<>> >>) @@ (sub :> << <<>> >>) @@ (Search :> << <<sub>> >>)
Symmetry == Permutations(MCFiles)

EveryFault == Faults
Failures == {"crash", "drive", "telegram"}
=============================================================================
