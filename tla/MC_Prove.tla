------------------------------ MODULE MC_Prove ------------------------------
(* Instances of Prove for TLC: one detector of each pair. *)
EXTENDS Prove

MCDetA == {"d1"}
MCDetB == {"d3"}

\* Provers with two detectors, with one and two passes, and with one and a
\* manual valve.
MCProvers == {{"STABILIZATION", "BOUNCE"},
              {"VALVE_4WAY", "ONEDETECTOR"},
              {"ONEDETECTOR", "NOVALVE", "NOSELECTSTR"}}

MCManual == {{"NOVALVE"}}
=============================================================================
