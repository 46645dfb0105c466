------------------------- MODULE MC_VariableExchange -------------------------
(* Instances of VariableExchange for TLC. *)
EXTENDS VariableExchange

MCVars == <<"r1", "w1", "r2", "w2">>
MCPair == <<"r1", "w1">>
=============================================================================
