-------------------------- MODULE MCFolderBrowser --------------------------
(* An instance of FolderBrowser for TLC: one listing, two searches of which *)
(* the first is a prefix of the second, and the shared drives.              *)
EXTENDS FolderBrowser

MCLists == {"list"}
MCSearches == {"search:a", "search:ab"}
MCDrives == "shared_drives"
MCPlaces == {"drive"}
MCPlace == [k \in MCLists \cup MCSearches \cup {MCDrives} |-> "drive"]
MCPrefix == {<<k, k>> : k \in MCLists \cup MCSearches \cup {MCDrives}}
              \cup {<<"search:a", "search:ab">>}
=============================================================================
