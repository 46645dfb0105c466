----------------------------- MODULE MC_Report -----------------------------
(* Report for TLC.                                                         *)
EXTENDS Report

MCShifts == {-3, 1, 3}
=============================================================================
