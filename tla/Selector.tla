------------------------------ MODULE Selector ------------------------------
(***************************************************************************)
(* rSelector: one of several inputs is passed to the outputs, with a       *)
(* manual value (the keypad) in reserve; when the selected input fails the *)
(* selector may switch over by itself (src/tritonn/data_selector.cpp).     *)
(*                                                                         *)
(* A value is represented by where it comes from: the index of an input,   *)
(* or Keypad.  The operator writes Select and Mode between two             *)
(* calculations.                                                           *)
(***************************************************************************)
EXTENDS Integers, FiniteSetsExt

CONSTANTS
  MAX_INPUTS,  \* size of the arrays of inputs
  MaxLinks     \* bound: number of links in the configuration

ASSUME SelectorAssumption == MAX_INPUTS \in Nat /\ MaxLinks \in Nat

Keypad == -1
Modes == {"NOCHANGE", "TOERROR", "CHANGEPREV", "CHANGENEXT", "other"}

VARIABLES
  state,        \* "none", "loaded" or "refused" by loadFromXML
  CountInputs,
  off,          \* Setup::OFF
  mode,
  select,       \* m_select.Value
  saved,        \* m_select.Saved
  lockErr,      \* SELECTOR_LE_NOCHANGE: the event of a held fault was raised
  fault,        \* m_fault
  out,          \* where the outputs come from
  user          \* history: the operator wrote Select since the last calculation

config == <<state, CountInputs, off>>
result == <<fault, out>>
selectorVars == <<config, mode, select, saved, lockErr, result, user>>

SelectorInit ==
  /\ state = "none" /\ CountInputs = MAX_INPUTS /\ off = FALSE
  /\ mode = "CHANGENEXT" /\ select = Keypad /\ saved = Keypad
  /\ lockErr = FALSE /\ fault = FALSE /\ out = Keypad
  /\ user = FALSE
-----------------------------------------------------------------------------
\* Mutant: as many links as the array has places.
Accepts_Full(n) == n >= 2 /\ n <= MAX_INPUTS

\* The limit is tested after the index is increased.
Accepts(n) == n >= 2 /\ n < MAX_INPUTS

loadFromXML(n, m, s, o) ==
  /\ state = "none"
  /\ mode' = m /\ select' = s /\ saved' = s /\ off' = o
  /\ IF Accepts(n) THEN state' = "loaded" /\ CountInputs' = n
                   ELSE state' = "refused" /\ UNCHANGED CountInputs
  /\ UNCHANGED <<lockErr, result, user>>

SetSelect(s) ==
  /\ state = "loaded" /\ select' = s /\ user' = TRUE
  /\ UNCHANGED <<config, mode, saved, lockErr, result>>

SetMode(m) ==
  /\ state = "loaded" /\ mode' = m
  /\ UNCHANGED <<config, select, saved, lockErr, result, user>>
-----------------------------------------------------------------------------
(* calculate *)

\* Mutant: the first input is followed by itself.
Neighbour_Stuck(s) ==
  LET n == IF mode = "CHANGENEXT" THEN s + 1 ELSE s - 1
  IN  IF n < 0 THEN 0 ELSE IF n > CountInputs THEN 0 ELSE n

Neighbour(s) ==
  LET n == IF mode = "CHANGENEXT" THEN s + 1 ELSE s - 1
  IN  IF n < 0 THEN CountInputs - 1 ELSE IF n > CountInputs THEN 0 ELSE n

\* The loop: on to the next input until one has no fault, or for too long.
Switched(s, f) ==
  LET At[k \in 0..MAX_INPUTS] == IF k = 0 THEN s ELSE Neighbour(At[k - 1])
      tries == 1..Max({1, CountInputs - 2})
      good == {k \in tries : At[k] \notin f}
  IN  At[IF good = {} THEN Max(tries) ELSE Min(good)]

\* Mutant: the comparison leaves out the first index behind the inputs.
InvalidSelect_Last(s) == s > CountInputs \/ s < Keypad

InvalidSelect(s) == s >= CountInputs \/ s < Keypad

\* Mutant: NOCHANGE falls through to the switching.
Transition_NoBreak(s, f) ==
  LET t == Switched(s, f)
  IN  IF s = Keypad \/ s \notin f THEN [sel |-> s, lock |-> FALSE]
      ELSE [sel |-> IF t \in f THEN Keypad ELSE t, lock |-> FALSE]

\* The new selection and lock, when the selected input s may have a fault.
\* TOERROR selects the keypad and falls through to the switching.
Transition(s, f) ==
  LET t == Switched(IF mode = "TOERROR" THEN Keypad ELSE s, f)
  IN  IF s = Keypad THEN [sel |-> s, lock |-> lockErr]
      ELSE IF s \notin f THEN [sel |-> s, lock |-> FALSE]
      ELSE IF mode = "NOCHANGE" THEN [sel |-> s, lock |-> TRUE]
      ELSE [sel |-> IF t \in f THEN Keypad ELSE t, lock |-> FALSE]

calculateSelector(f) ==
  LET valid == IF InvalidSelect(select) THEN Keypad ELSE select
      r == Transition(valid, f)
  IN  /\ state = "loaded" /\ ~off
      /\ select' = r.sel /\ saved' = valid
      /\ lockErr' = r.lock
      /\ out' = r.sel
      /\ fault' = (r.sel = Keypad \/ r.sel \in f)
      /\ user' = FALSE
      /\ UNCHANGED <<config, mode>>

\* Setup::OFF: only rSource::calculate is done.
calculateOff ==
  /\ state = "loaded" /\ off /\ fault' = FALSE
  /\ UNCHANGED <<config, mode, select, saved, lockErr, out, user>>

\* What the operator or the configuration may write to Select.
Selections == -2..(MAX_INPUTS + 1)

SelectorNext ==
  \/ \E n \in 0..MaxLinks, m \in Modes \ {"other"}, s \in Selections, o \in BOOLEAN :
       loadFromXML(n, m, s, o)
  \/ \E s \in Selections : SetSelect(s)
  \/ \E m \in Modes : SetMode(m)
  \/ \E f \in SUBSET (0..(CountInputs - 1)) : calculateSelector(f)
  \/ calculateOff

SelectorSpec == SelectorInit /\ [][SelectorNext]_selectorVars
-----------------------------------------------------------------------------
(* Properties. *)

\* Every variable keeps its type, and the index that calculate reads the arrays
\* with is within them: behind the connected inputs there is always one place.
SelectorTypeOK ==
  /\ state \in {"none", "loaded", "refused"}
  /\ CountInputs \in 0..MAX_INPUTS /\ off \in BOOLEAN
  /\ mode \in Modes /\ select \in Selections /\ saved \in Selections
  /\ lockErr \in BOOLEAN /\ fault \in BOOLEAN
  /\ out \in Keypad..(MAX_INPUTS - 1)
  /\ user \in BOOLEAN

Failures == SUBSET (0..(CountInputs - 1))

\* Two redundant inputs: calculate leaves the failed one for the other one, if
\* that has no fault (NEXT only from the first input to the second).
PairSwitches ==
  [][\A f \in Failures :
       /\ calculateSelector(f) /\ CountInputs = 2 /\ select \in f /\ f # {0, 1}
       /\ mode = "CHANGEPREV" \/ (mode = "CHANGENEXT" /\ select = 0)
       => out' \in {0, 1} \ f /\ ~fault']_selectorVars

\* With the mode NOCHANGE calculate keeps a valid selection, whatever fails.
NoChangeHolds ==
  [][\A f \in Failures :
       calculateSelector(f) /\ mode = "NOCHANGE" /\ select \in 0..(CountInputs - 1)
       => select' = select]_selectorVars

\* When the outputs come from the place behind the inputs, the next calculate
\* notices it, unless the operator selects anew in between.
PhantomShort ==
  [][\A f \in Failures :
       calculateSelector(f) /\ out = CountInputs /\ ~user => out' # CountInputs]_selectorVars
=============================================================================
