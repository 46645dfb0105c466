------------------------------- MODULE Analog -------------------------------
(***************************************************************************)
(* An analog input, from the channel of its module (rModuleAI6a,           *)
(* rIOAIChannel) through the object (rAI) to the status of its value       *)
(* (rLimit).  The IO thread polls the module; the data thread reads the    *)
(* module's fault, the code of the channel and its state one after the     *)
(* other, and the module may be polled in between.                         *)
(*                                                                         *)
(* The operator writes under the mutex that a cycle of the data thread     *)
(* holds.  Events, the current and averaging are left out; scale and       *)
(* limits keep the values they were loaded with.                           *)
(***************************************************************************)
EXTENDS Limit

CONSTANTS
  Codes,           \* codes the converter may give
  MinADC, MaxADC,  \* those of a valid signal
  Min, Max,        \* m_scale: what they stand for
  Noise,           \* width of the zone that Setup::NOICE rounds off
  Setups,          \* values of m_setup
  Keypads,         \* values of m_keypad
  LimitSets,       \* values of m_present.m_limit
  Garbage          \* values of memory that was not initialised

ASSUME AnalogAssumption ==
  /\ Codes \subseteq Int /\ {MinADC, MaxADC, Min, Max} \subseteq Int /\ Noise \in Nat
  /\ MinADC < MaxADC /\ Min <= Max
  /\ \A s \in Setups : s \subseteq {"OFF", "ERR_KEYPAD", "ERR_LASTGOOD", "NOICE"}
  /\ Keypads \subseteq Int /\ LimitSets \subseteq Limits
  /\ Garbage \subseteq Int \cup {NaN}

\* The last one is any number the operator may write that is not a mode.
Modes == {"PHIS", "MKEYPAD", "LASTGOOD", "AKEYPAD", "other"}
Value == Int \cup {NaN}
NoChange == [from |-> "UNDEF", at |-> NaN]

VARIABLES
  chan,         \* m_ADC and m_state of the channel
  isFault,      \* m_isFault of the module
  pc,           \* where the data thread is in calculate
  adc, state,   \* what it has read: locals of calculate
  setup, m_keypad, m_mode, m_status,
  phValue, m_present, m_lastGood,
  limits, limitStatus,
  clean,        \* history: the code was read with a good channel, or a poll came since
  change        \* history: the last change of limitStatus, and the value it came with

module == <<chan, isFault>>
thread == <<pc, adc, state, clean>>
conf == <<setup, limits>>
outputs == <<m_status, phValue, m_present, m_lastGood, limitStatus, change>>
vars == <<module, thread, conf, m_keypad, m_mode, outputs>>

Init ==
  /\ chan = [adc |-> 0, state |-> FALSE] /\ isFault = FALSE
  /\ pc = "idle" /\ adc = 0 /\ state = FALSE /\ clean = FALSE
  /\ setup \in Setups /\ limits \in LimitSets
  /\ m_keypad \in Keypads /\ m_mode \in {"PHIS", "MKEYPAD"} /\ m_status = "UNDEF"
  /\ phValue = 0 /\ m_present = 0 /\ m_lastGood \in Garbage
  /\ limitStatus = "UNDEF" /\ change = NoChange

-----------------------------------------------------------------------------
(* The IO thread, under the write lock of the module.                      *)

\* rIOAIChannel::processing: the state of a channel with this code.
Bad(code, hard) == code < MinADC \/ code > MaxADC \/ hard

\* rModuleAI6a::processing, when the module answers.
Poll ==
  /\ \E code \in Codes, hard \in BOOLEAN : chan' = [adc |-> code, state |-> Bad(code, hard)]
  /\ isFault' = FALSE /\ clean' = (clean \/ pc = "state")
  /\ UNCHANGED <<pc, adc, state, conf, m_keypad, m_mode, outputs>>

\* The same when it does not: what was read last is processed again.
PollFails ==
  /\ isFault' = TRUE
  /\ chan' = [chan EXCEPT !.state = @ \/ Bad(chan.adc, FALSE)]
  /\ UNCHANGED <<thread, conf, m_keypad, m_mode, outputs>>

-----------------------------------------------------------------------------
(* The operator.                                                           *)

SetKeypad ==
  /\ pc = "idle" /\ m_keypad' \in Keypads
  /\ UNCHANGED <<module, thread, conf, m_mode, outputs>>

SetMode ==
  /\ pc = "idle" /\ m_mode' \in Modes
  /\ UNCHANGED <<module, thread, conf, m_keypad, outputs>>

-----------------------------------------------------------------------------
(* rAI::calculate, in the data thread.                                     *)

CalculateOff ==
  /\ pc = "idle" /\ "OFF" \in setup
  /\ phValue' = NaN /\ m_present' = NaN /\ m_mode' = "PHIS" /\ m_status' = "UNDEF"
  /\ UNCHANGED <<module, thread, conf, m_keypad, m_lastGood, limitStatus, change>>

\* Mutant: the code of a faulty module is read.
Begin_Reads ==
  /\ pc = "idle" /\ "OFF" \notin setup
  /\ pc' = "value" /\ state' = TRUE
  /\ UNCHANGED <<module, adc, clean, conf, m_keypad, m_mode, outputs>>

\* A faulty module is not read: state keeps the value it was declared with.
Begin ==
  /\ pc = "idle" /\ "OFF" \notin setup
  /\ pc' = (IF isFault THEN "rest" ELSE "value") /\ state' = TRUE
  /\ UNCHANGED <<module, adc, clean, conf, m_keypad, m_mode, outputs>>

ReadValue ==
  /\ pc = "value" /\ pc' = "state"
  /\ adc' = chan.adc /\ clean' = ~chan.state
  /\ UNCHANGED <<module, state, conf, m_keypad, m_mode, outputs>>

Physical == Min + ((Max - Min) * (adc - MinADC)) \div (MaxADC - MinADC)

ReadState ==
  /\ pc = "state" /\ pc' = "rest"
  /\ state' = chan.state /\ phValue' = Physical
  /\ UNCHANGED <<module, adc, clean, conf, m_keypad, m_mode, m_status, m_present,
                 m_lastGood, limitStatus, change>>

\* The mode after a faulty channel has been looked for.
Mode ==
  IF ~state \/ m_mode # "PHIS" THEN m_mode
  ELSE IF "ERR_KEYPAD" \in setup THEN "AKEYPAD"
  ELSE IF "ERR_LASTGOOD" \in setup THEN "LASTGOOD"
  ELSE "PHIS"

\* The physical value, with the noise at the ends of the scale rounded off.
Smooth ==
  IF "NOICE" \notin setup THEN phValue
  ELSE IF phValue < Min /\ phValue >= Min - Noise THEN Min
  ELSE IF phValue > Max /\ phValue <= Max + Noise THEN Max
  ELSE phValue

\* Mutant: the last good value is looked for in the old mode.
Output_Old ==
  IF Mode \in {"MKEYPAD", "AKEYPAD"} THEN m_keypad
  ELSE IF m_mode = "LASTGOOD" THEN m_lastGood
  ELSE Smooth

Output ==
  IF Mode \in {"MKEYPAD", "AKEYPAD"} THEN m_keypad
  ELSE IF Mode = "LASTGOOD" THEN m_lastGood
  ELSE Smooth

\* Mutant: the status of a value is looked for although the channel is faulty.
StatusOf_Always(v) ==
  IF v # NaN /\ v > Max THEN "MAX"
  ELSE IF v # NaN /\ v < Min THEN "MIN"
  ELSE "NORMAL"

\* A value that is not a number is neither above nor below the scale.
StatusOf(v) ==
  IF state THEN "FAULT"
  ELSE IF v # NaN /\ v > Max THEN "MAX"
  ELSE IF v # NaN /\ v < Min THEN "MIN"
  ELSE "NORMAL"

\* postCalculate
Limited(v) ==
  LET s == calculate(v, limitStatus, limits)
  IN  /\ limitStatus' = s
      /\ change' = IF s = limitStatus THEN change
                   ELSE [from |-> limitStatus, at |-> v]

Rest ==
  /\ pc = "rest" /\ pc' = "idle"
  /\ m_mode' = Mode /\ m_present' = Output /\ m_status' = StatusOf(Output)
  /\ m_lastGood' = IF StatusOf(Output) = "NORMAL" /\ Mode = "PHIS" THEN Output ELSE m_lastGood
  /\ Limited(Output)
  /\ adc' = 0 /\ state' = FALSE /\ clean' = FALSE
  /\ UNCHANGED <<module, conf, m_keypad, phValue>>

DataThread == CalculateOff \/ Begin \/ ReadValue \/ ReadState \/ Rest

Next == Poll \/ PollFails \/ SetKeypad \/ SetMode \/ DataThread

Spec == Init /\ [][Next]_vars /\ WF_vars(DataThread)

-----------------------------------------------------------------------------
(* Properties.                                                             *)

\* Every variable holds a value of its type; a channel whose code does not lie in the
\* range is bad, but before the first poll.
TypeOK ==
  /\ chan \in [adc : Int, state : BOOLEAN] /\ isFault \in BOOLEAN
  /\ chan.state \/ chan.adc \in MinADC..MaxADC \/ chan.adc = 0
  /\ pc \in {"idle", "value", "state", "rest"}
  /\ adc \in Int /\ state \in BOOLEAN /\ clean \in BOOLEAN
  /\ setup \in Setups /\ limits \in LimitSets
  /\ m_keypad \in Int /\ m_mode \in Modes
  /\ m_status \in {"UNDEF", "NORMAL", "MIN", "MAX", "FAULT"}
  /\ phValue \in Value /\ m_present \in Value /\ m_lastGood \in Value
  /\ limitStatus \in Status /\ change \in [from : Status, at : Value]

\* What becomes the last good value was read from a good channel, or from one that was
\* polled while it was read: value and state are then those of two polls.
GoodOrTorn == [][m_lastGood' # m_lastGood => clean]_vars

\* The last good value lies on the scale, unless none was ever taken: then it is what
\* the memory held.
OnScale == m_lastGood \in Garbage \/ (m_lastGood \in Int /\ m_lastGood >= Min /\ m_lastGood <= Max)

\* A calculation that finds the channel faulty never puts out what it has read when a
\* substitute is configured, whatever modes the operator has set before.
Substituted ==
  [][pc = "rest" /\ pc' = "idle" /\ state /\ m_mode # "other"
       /\ setup \cap {"ERR_KEYPAD", "ERR_LASTGOOD"} # {}
     => m_present' = m_keypad \/ (m_mode' = "LASTGOOD" /\ m_present' = m_lastGood)]_vars

\* The status of the limits does not go to and fro unless the value has moved by the
\* hysteresis in between.
NoChatter ==
  [][limitStatus' # limitStatus /\ limitStatus' = change.from
     /\ change.at # NaN /\ m_present' # NaN
     => \/ m_present' - change.at >= limits.hyst
        \/ change.at - m_present' >= limits.hyst]_vars

\* A module that stays faulty is reported in the end, whatever is read and written
\* meanwhile, as long as the signal is on.
FaultFollows ==
  <>[](isFault /\ "OFF" \notin setup) => <>[](pc = "idle" => m_status = "FAULT")
=============================================================================
