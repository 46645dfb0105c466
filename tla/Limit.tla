------------------------------- MODULE Limit -------------------------------
(***************************************************************************)
(* rLimit (src/tritonn/data/limit.cpp): the status of a value between four *)
(* limits.  A limit that was passed counts as passed until the value has   *)
(* come back by the hysteresis.  Values are integers; NaN stands for the   *)
(* infinite ones too.                                                      *)
(***************************************************************************)
EXTENDS Integers

CONSTANT NaN
ASSUME NaNAssumption == NaN \notin Int

Bounds == {"LOLO", "LO", "HI", "HIHI"}
Status == Bounds \cup {"UNDEF", "ISNAN", "NORMAL"}

\* Values of a rLimit: m_setup is a set of flags.
Limits == [lolo : Int, lo : Int, hi : Int, hihi : Int, hyst : Nat,
           setup : SUBSET (Bounds \cup {"OFF"})]

Above(flag, limit, val, old, l) ==
  flag \in l.setup /\ (val > limit \/ (val > limit - l.hyst /\ old = flag))

\* Mutant: the hysteresis lies on the wrong side of the limit.
Below_Early(flag, limit, val, old, l) ==
  flag \in l.setup /\ (val < limit \/ (val < limit - l.hyst /\ old = flag))

Below(flag, limit, val, old, l) ==
  flag \in l.setup /\ (val < limit \/ (val < limit + l.hyst /\ old = flag))

\* rLimit::calculate, when the status was old.
calculate(val, old, l) ==
  IF "OFF" \in l.setup THEN "UNDEF"
  ELSE IF val = NaN THEN "ISNAN"
  ELSE IF Above("HIHI", l.hihi, val, old, l) THEN "HIHI"
  ELSE IF Below("LOLO", l.lolo, val, old, l) THEN "LOLO"
  ELSE IF Above("HI", l.hi, val, old, l) THEN "HI"
  ELSE IF Below("LO", l.lo, val, old, l) THEN "LO"
  ELSE "NORMAL"
=============================================================================
