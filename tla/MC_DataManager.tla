--------------------------- MODULE MC_DataManager ---------------------------
(* Instances of DataManager for TLC. *)
EXTENDS DataManager

Normal == [force |-> FALSE, nodump |-> FALSE, config |-> None]
\* No arguments, or all of them.
MCArgs == {Normal, [force |-> TRUE, nodump |-> TRUE, config |-> "good"]}

\* A new installation, and one with dumps of this program.
MCOwnDumps == {NoFile, Own(1)}
\* Dumps of an older program as well.
MCAnyDumps == MCOwnDumps \cup {[h |-> "old", v |-> 1]}
=============================================================================
