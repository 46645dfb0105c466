----------------------------- MODULE MC_Analog -----------------------------
(* Analog for TLC: objects that are off, plain, and that replace a fault.  *)
EXTENDS Analog

MCSetups == {{"OFF"}, {}, {"ERR_KEYPAD"}, {"ERR_LASTGOOD", "NOICE"}}
MCLimits ==
  {[lolo |-> 9, lo |-> 11, hi |-> 13, hihi |-> 15, hyst |-> 5,
    setup |-> {"LOLO", "LO", "HI", "HIHI"}]}
MCGarbage == {NaN}
=============================================================================
