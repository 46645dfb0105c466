---------------------------- MODULE MC_Metering ----------------------------
(* Metering for TLC: the station after its streams, and before one.        *)
EXTENDS Metering

MCLists == {<<"s1", "s2", "sikn">>, <<"s1", "sikn", "s2">>}
=============================================================================
