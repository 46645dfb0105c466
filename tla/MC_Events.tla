----------------------------- MODULE MC_Events -----------------------------
(* Events for TLC.                                                         *)
EXTENDS Events
=============================================================================
