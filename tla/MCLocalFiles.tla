---------------------------- MODULE MCLocalFiles ----------------------------
(* An instance of LocalFiles for TLC: two files sent under the same name, one *)
(* fetched by each kind of transfer, and a second name that looks temporary.  *)
EXTENDS LocalFiles

CONSTANTS f1, f2

MCFiles == {f1, f2}
MCNames == {"a", "a.part"}
MCOrigName == [f \in MCFiles |-> "a"]
MCTempOf == [n \in {"a.part"} |-> "a"]
MCBotApi == {f1}
MCSized == {f2}

EveryFault == Faults
OneClash == {"clash"}
=============================================================================
