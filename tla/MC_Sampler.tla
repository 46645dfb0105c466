----------------------------- MODULE MC_Sampler -----------------------------
(* Sampler for TLC.                                                        *)
EXTENDS Sampler
=============================================================================
