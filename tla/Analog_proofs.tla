---------------------------- MODULE Analog_proofs ----------------------------
(***************************************************************************)
(* Theorems about Analog and Limit, for every converter, scale, setup and  *)
(* set of limits: the type invariant, what may become the last good value, *)
(* what replaces a fault, and that the status of the limits does not       *)
(* chatter, whichever limits there are and in whatever order they lie.     *)
(***************************************************************************)
EXTENDS Analog, TLAPS

-----------------------------------------------------------------------------
(* The limits.                                                             *)

\* rLimit::calculate gives a status, and UNDEF only when it is off.
LEMMA LimitStatus ==
  ASSUME NEW v \in Value, NEW old \in Status, NEW l \in Limits
  PROVE  /\ calculate(v, old, l) \in Status
         /\ calculate(v, old, l) = "UNDEF" <=> "OFF" \in l.setup
BY DEF calculate, Status, Bounds

\* A status with a limit is kept until the value has come back by the hysteresis,
\* and taken only when the limit is passed, or another limit has hidden it.
LEMMA LimitKept ==
  ASSUME NEW v \in Int, NEW old \in Status, NEW l \in Limits, "OFF" \notin l.setup
  PROVE  LET s == calculate(v, old, l) IN
         /\ s \notin {"UNDEF", "ISNAN"}
         /\ s = "HIHI" /\ old # "HIHI" => v > l.hihi
         /\ s # "HIHI" /\ old = "HIHI" => v <= l.hihi - l.hyst \/ "HIHI" \notin l.setup
         /\ s # "HIHI" => "HIHI" \notin l.setup \/ v <= l.hihi
         /\ s = "LOLO" /\ old # "LOLO" => v < l.lolo
         /\ s \notin {"HIHI", "LOLO"} /\ old = "LOLO" => v >= l.lolo + l.hyst \/ "LOLO" \notin l.setup
         /\ s = "HI" /\ old # "HI" => v > l.hi
         /\ s \notin {"HIHI", "LOLO", "HI"} /\ old = "HI" => v <= l.hi - l.hyst \/ "HI" \notin l.setup
         /\ s = "LO" /\ old # "LO" => v < l.lo
         /\ s \notin {"HIHI", "LOLO", "HI", "LO"} /\ old = "LO" => v >= l.lo + l.hyst \/ "LO" \notin l.setup
         /\ s \in Bounds => s \in l.setup
<1>1. v # NaN
  BY NaNAssumption
<1>2. /\ l.lolo \in Int /\ l.lo \in Int /\ l.hi \in Int /\ l.hihi \in Int /\ l.hyst \in Nat
  BY DEF Limits
<1>. QED  BY <1>1, <1>2 DEF calculate, Above, Below, Bounds

\* Whatever the limits, and in whatever order they lie: a status that is left and
\* taken again, with nothing in between, shows that the value has moved by the
\* hysteresis (rLimit::calculate).
THEOREM NoChatterOfLimits ==
  ASSUME NEW v \in Int, NEW w \in Int, NEW s \in Status, NEW l \in Limits,
         calculate(v, s, l) # s, calculate(w, calculate(v, s, l), l) = s
  PROVE  w - v >= l.hyst \/ v - w >= l.hyst
<1>. DEFINE t == calculate(v, s, l)
<1>1. v \in Value /\ w \in Value /\ t \in Status
  BY LimitStatus DEF Value
<1>2. "OFF" \notin l.setup
  BY <1>1, LimitStatus
<1>3. /\ l.lolo \in Int /\ l.lo \in Int /\ l.hi \in Int /\ l.hihi \in Int /\ l.hyst \in Nat
  BY DEF Limits
<1>4. s \in Bounds \cup {"NORMAL"} /\ t \in Bounds \cup {"NORMAL"}
  BY <1>1, <1>2, LimitKept DEF Status
<1>. HIDE DEF t
<1>5. CASE s = "HIHI" \/ t = "HIHI"
  BY <1>1, <1>2, <1>3, <1>4, <1>5, LimitKept DEF t, Bounds
<1>6. CASE ~(s = "HIHI" \/ t = "HIHI") /\ (s = "LOLO" \/ t = "LOLO")
  BY <1>1, <1>2, <1>3, <1>4, <1>6, LimitKept DEF t, Bounds
<1>7. CASE {s, t} \cap {"HIHI", "LOLO"} = {} /\ (s = "HI" \/ t = "HI")
  BY <1>1, <1>2, <1>3, <1>4, <1>7, LimitKept DEF t, Bounds
<1>8. CASE {s, t} \cap {"HIHI", "LOLO", "HI"} = {}
  BY <1>1, <1>2, <1>3, <1>4, <1>8, LimitKept DEF t, Bounds
<1>. QED  BY <1>5, <1>6, <1>7, <1>8

-----------------------------------------------------------------------------
(* The analog input.                                                       *)

\* While the channel is read, what the history says of the last change of the
\* limits' status is how that status came about.
LastChange ==
  \/ change = NoChange /\ limitStatus = "UNDEF"
  \/ change.from # limitStatus /\ limitStatus = calculate(change.at, change.from, limits)

\* A value that was read from a good channel, and not polled since, is that of a
\* code in the range; a channel that was not read counts as faulty.
ReadClean ==
  /\ pc = "state" => clean \/ chan.state
  /\ pc = "rest" => clean \/ state
  /\ pc = "value" => state
  /\ pc = "rest" => state \/ phValue \in Int

\* The inductive invariant.
IInv == TypeOK /\ OnScale /\ LastChange /\ ReadClean

\* What the constants are, of the sets they are taken from.
LEMMA Constants ==
  /\ \A l \in LimitSets : l \in Limits
  /\ \A k \in Keypads : k \in Int
  /\ \A c \in Codes : c \in Int
  /\ MinADC \in Int /\ MaxADC \in Int /\ Min \in Int /\ Max \in Int /\ Noise \in Nat
  /\ MinADC < MaxADC /\ Min <= Max
BY AnalogAssumption

LEMMA InitInv == Init => IInv
<1>. SUFFICES ASSUME Init PROVE IInv
  OBVIOUS
<1>1. TypeOK
  <2>1. m_keypad \in Int /\ m_mode \in Modes /\ m_lastGood \in Value
    BY AnalogAssumption DEF Init, Value, Modes
  <2>2. 0 \in Value /\ NaN \in Value
    BY DEF Value
  <2>3. change \in [from : Status, at : Value] /\ limitStatus \in Status
    BY <2>2 DEF Init, NoChange, Status
  <2>4. /\ chan \in [adc : Int, state : BOOLEAN]
        /\ chan.state \/ chan.adc \in MinADC..MaxADC \/ chan.adc = 0
    BY DEF Init
  <2>5. isFault \in BOOLEAN /\ state \in BOOLEAN /\ clean \in BOOLEAN
    BY Zenon DEF Init
  <2>6. /\ pc \in {"idle", "value", "state", "rest"} /\ adc \in Int
        /\ setup \in Setups /\ limits \in LimitSets
    BY DEF Init
  <2>7. m_status \in {"UNDEF", "NORMAL", "MIN", "MAX", "FAULT"}
        /\ phValue \in Value /\ m_present \in Value
    BY <2>2 DEF Init
  <2>. QED  BY <2>1, <2>3, <2>4, <2>5, <2>6, <2>7, Zenon DEF TypeOK
<1>2. OnScale
  BY DEF Init, OnScale
<1>3. LastChange /\ ReadClean
  BY DEF Init, LastChange, ReadClean
<1>. QED  BY <1>1, <1>2, <1>3 DEF IInv

\* The polls change the channel only.
LEMMA PollInv == IInv /\ (Poll \/ PollFails) => IInv'
<1>. SUFFICES ASSUME IInv, Poll \/ PollFails PROVE IInv'
  OBVIOUS
<1>. DEFINE InRange(c) == c.state \/ c.adc \in MinADC..MaxADC \/ c.adc = 0
            b == chan.state \/ Bad(chan.adc, FALSE)
<1>1. /\ pc' = pc /\ adc' = adc /\ state' = state /\ setup' = setup /\ limits' = limits
      /\ m_keypad' = m_keypad /\ m_mode' = m_mode /\ m_status' = m_status /\ phValue' = phValue
      /\ m_present' = m_present /\ m_lastGood' = m_lastGood
      /\ limitStatus' = limitStatus /\ change' = change
  BY DEF Poll, PollFails, thread, conf, outputs
<1>2. ASSUME Poll
     PROVE  /\ chan' \in [adc : Int, state : BOOLEAN] /\ InRange(chan')
            /\ isFault' \in BOOLEAN /\ clean' \in BOOLEAN
  <2>1. PICK code \in Codes, hard \in BOOLEAN : chan' = [adc |-> code, state |-> Bad(code, hard)]
    BY <1>2 DEF Poll
  <2>2. code \in Int /\ Bad(code, hard) \in BOOLEAN
    BY Constants DEF Bad
  <2>3. Bad(code, hard) \/ code \in MinADC..MaxADC
    BY <2>2, Constants DEF Bad
  <2>4. isFault' \in BOOLEAN /\ clean' \in BOOLEAN
    BY <1>2 DEF Poll
  <2>. QED  BY <2>1, <2>2, <2>3, <2>4
<1>3. ASSUME PollFails
     PROVE  /\ chan' \in [adc : Int, state : BOOLEAN] /\ InRange(chan')
            /\ isFault' \in BOOLEAN /\ clean' \in BOOLEAN
            /\ (chan.state => chan'.state) /\ clean' = clean
  <2>1. b \in BOOLEAN /\ (chan.state => b)
    BY DEF Bad, IInv, TypeOK
  <2>2. chan' = [chan EXCEPT !.state = b]
    BY <1>3 DEF PollFails
  <2>3. isFault' \in BOOLEAN /\ clean' \in BOOLEAN /\ clean' = clean
    BY <1>3 DEF PollFails, thread, IInv, TypeOK
  <2>. HIDE DEF b
  <2>4. /\ chan \in [adc : Int, state : BOOLEAN]
        /\ chan.state \/ chan.adc \in MinADC..MaxADC \/ chan.adc = 0
    BY DEF IInv, TypeOK
  <2>. QED  BY <2>1, <2>2, <2>3, <2>4
<1>4. TypeOK'
  <2>. HIDE DEF InRange
  <2>1. /\ chan' \in [adc : Int, state : BOOLEAN] /\ InRange(chan')
        /\ isFault' \in BOOLEAN /\ clean' \in BOOLEAN
    BY <1>2, <1>3, Zenon
  <2>2. /\ pc' \in {"idle", "value", "state", "rest"}
        /\ adc' \in Int /\ state' \in BOOLEAN
        /\ setup' \in Setups /\ limits' \in LimitSets
    BY <1>1 DEF IInv, TypeOK
  <2>3. /\ m_keypad' \in Int /\ m_mode' \in Modes
        /\ m_status' \in {"UNDEF", "NORMAL", "MIN", "MAX", "FAULT"}
        /\ phValue' \in Value /\ m_present' \in Value /\ m_lastGood' \in Value
        /\ limitStatus' \in Status /\ change' \in [from : Status, at : Value]
    BY <1>1 DEF IInv, TypeOK
  <2>. QED  BY <2>1, <2>2, <2>3, Zenon DEF TypeOK, InRange
<1>5. OnScale' /\ LastChange'
  BY <1>1 DEF OnScale, LastChange, IInv
<1>6. ReadClean'
  <2>1. CASE Poll
    <3>1. (pc = "state" => clean') /\ (clean => clean')
      BY <2>1, Zenon DEF Poll
    <3>. QED  BY <1>1, <3>1, Zenon DEF ReadClean, IInv
  <2>2. CASE PollFails
    BY <1>1, <1>3, <2>2 DEF ReadClean, IInv
  <2>. QED  BY <2>1, <2>2
<1>. QED  BY <1>4, <1>5, <1>6 DEF IInv

\* The operator changes the mode and the keypad only.
LEMMA OperatorInv == IInv /\ (SetKeypad \/ SetMode) => IInv'
<1>. SUFFICES ASSUME IInv, SetKeypad \/ SetMode PROVE IInv'
  OBVIOUS
<1>1. /\ UNCHANGED <<module, thread, conf, outputs>>
      /\ m_keypad' \in Int /\ m_mode' \in Modes
  BY Constants DEF SetKeypad, SetMode, IInv, TypeOK
<1>. QED  BY <1>1 DEF IInv, TypeOK, OnScale, LastChange, ReadClean, module, thread, conf, outputs

\* The last step of a calculation: its output, its status and the limits.
LEMMA Calculated ==
  ASSUME IInv, pc = "rest"
  PROVE  /\ Mode \in Modes /\ Output \in Value
         /\ Mode = "PHIS" => Output = Smooth /\ Smooth \in Value
         /\ StatusOf(Output) \in {"UNDEF", "NORMAL", "MIN", "MAX", "FAULT"}
         /\ StatusOf(Output) = "NORMAL" => ~state
         /\ StatusOf(Output) = "NORMAL" /\ Output # NaN => Output \in Int /\ Output >= Min /\ Output <= Max
         /\ calculate(Output, limitStatus, limits) \in Status
<1>1. Mode \in Modes
  BY DEF IInv, TypeOK, Mode, Modes
<1>2. Smooth \in Value
  BY Constants DEF IInv, TypeOK, Smooth, Value
<1>3. Output \in Value
  BY <1>2 DEF IInv, TypeOK, Output, Value
<1>4. Mode = "PHIS" => Output = Smooth
  BY DEF Output
<1>5. StatusOf(Output) \in {"UNDEF", "NORMAL", "MIN", "MAX", "FAULT"}
  BY DEF StatusOf
<1>6. StatusOf(Output) = "NORMAL" => ~state
  BY DEF StatusOf
<1>7. StatusOf(Output) = "NORMAL" /\ Output # NaN => Output \in Int /\ Output >= Min /\ Output <= Max
  BY <1>3, Constants DEF StatusOf, Value
<1>8. limits \in Limits /\ limitStatus \in Status
  BY Constants DEF IInv, TypeOK
<1>9. calculate(Output, limitStatus, limits) \in Status
  BY <1>3, <1>8, LimitStatus
<1>. QED  BY <1>1, <1>2, <1>3, <1>4, <1>5, <1>6, <1>7, <1>9

\* The steps of a calculation before its last, and that of a signal that is off.
LEMMA ReadInv == IInv /\ (CalculateOff \/ Begin \/ ReadValue \/ ReadState) => IInv'
<1>. SUFFICES ASSUME IInv, CalculateOff \/ Begin \/ ReadValue \/ ReadState PROVE IInv'
  OBVIOUS
<1>. USE DEF IInv
<1>1. NaN \in Value /\ "PHIS" \in Modes
  BY DEF Value, Modes
<1>2. CASE CalculateOff
  <2>1. UNCHANGED <<chan, isFault, pc, adc, state, clean, setup, limits, m_keypad,
                    m_lastGood, limitStatus, change>>
    BY <1>2 DEF CalculateOff, module, thread, conf
  <2>2. phValue' = NaN /\ m_present' = NaN /\ m_mode' = "PHIS" /\ m_status' = "UNDEF" /\ pc = "idle"
    BY <1>2 DEF CalculateOff
  <2>3. TypeOK'
    BY <1>1, <2>1, <2>2 DEF TypeOK
  <2>4. (OnScale /\ LastChange /\ ReadClean)'
    BY <2>1, <2>2 DEF OnScale, LastChange, ReadClean
  <2>. QED  BY <2>3, <2>4
<1>3. CASE Begin
  <2>1. UNCHANGED <<chan, isFault, adc, clean, setup, limits, m_keypad, m_mode, m_status,
                    phValue, m_present, m_lastGood, limitStatus, change>>
    BY <1>3 DEF Begin, module, conf, outputs
  <2>2. pc' \in {"rest", "value"} /\ state' = TRUE
    BY <1>3 DEF Begin
  <2>3. TypeOK'
    BY <2>1, <2>2 DEF TypeOK
  <2>4. (OnScale /\ LastChange /\ ReadClean)'
    BY <2>1, <2>2 DEF OnScale, LastChange, ReadClean
  <2>. QED  BY <2>3, <2>4
<1>4. CASE ReadValue
  <2>1. UNCHANGED <<chan, isFault, state, setup, limits, m_keypad, m_mode, m_status,
                    phValue, m_present, m_lastGood, limitStatus, change>>
    BY <1>4 DEF ReadValue, module, conf, outputs
  <2>2. pc' = "state" /\ adc' = chan.adc /\ clean' = ~chan.state
    BY <1>4 DEF ReadValue
  <2>3. chan.adc \in Int /\ chan.state \in BOOLEAN
    BY DEF TypeOK
  <2>4. clean' \in BOOLEAN /\ (clean' \/ chan.state)
    BY <2>2, <2>3, Zenon
  <2>5. TypeOK'
    BY <2>1, <2>2, <2>3, <2>4 DEF TypeOK
  <2>6. (OnScale /\ LastChange /\ ReadClean)'
    BY <2>1, <2>2, <2>4 DEF OnScale, LastChange, ReadClean
  <2>. QED  BY <2>5, <2>6
<1>5. CASE ReadState
  <2>1. UNCHANGED <<chan, isFault, adc, clean, setup, limits, m_keypad, m_mode, m_status,
                    m_present, m_lastGood, limitStatus, change>>
    BY <1>5 DEF ReadState, module, conf
  <2>2. pc = "state" /\ pc' = "rest" /\ state' = chan.state /\ phValue' = Physical
    BY <1>5 DEF ReadState
  <2>3. Physical \in Int
    <3>. DEFINE n == (Max - Min) * (adc - MinADC)
                d == MaxADC - MinADC
    <3>1. n \in Int /\ d \in Int /\ d > 0
      BY Constants DEF TypeOK
    <3>. HIDE DEF n, d
    <3>2. n \div d \in Int
      BY <3>1
    <3>. QED  BY <3>2, Constants DEF Physical, n, d
  <2>4. chan.state \in BOOLEAN /\ phValue' \in Int /\ phValue' \in Value
    BY <2>2, <2>3 DEF TypeOK, Value
  <2>5. TypeOK'
    BY <2>1, <2>2, <2>4 DEF TypeOK
  <2>6. (OnScale /\ LastChange /\ ReadClean)'
    BY <2>1, <2>2, <2>4 DEF OnScale, LastChange, ReadClean
  <2>. QED  BY <2>5, <2>6
<1>. QED  BY <1>2, <1>3, <1>4, <1>5

\* The last step: what it puts out becomes the last good value only when the channel
\* was read as good, and the value lies on the scale.
LEMMA RestInv == IInv /\ Rest => IInv'
<1>. SUFFICES ASSUME IInv, Rest PROVE IInv'
  OBVIOUS
<1>. USE DEF IInv
<1>. DEFINE good == StatusOf(Output) = "NORMAL" /\ Mode = "PHIS"
            s == calculate(Output, limitStatus, limits)
<1>1. UNCHANGED <<chan, isFault, setup, limits, m_keypad, phValue>>
  BY DEF Rest, module, conf
<1>2. /\ pc = "rest" /\ pc' = "idle" /\ adc' = 0 /\ state' = FALSE /\ clean' = FALSE
      /\ m_mode' = Mode /\ m_present' = Output /\ m_status' = StatusOf(Output)
  BY DEF Rest
<1>3. m_lastGood' = IF good THEN Output ELSE m_lastGood
  BY DEF Rest
<1>4. /\ limitStatus' = s
      /\ change' = IF s = limitStatus THEN change ELSE [from |-> limitStatus, at |-> Output]
  BY DEF Rest, Limited
<1>5. /\ Mode \in Modes /\ Output \in Value /\ s \in Status
      /\ StatusOf(Output) \in {"UNDEF", "NORMAL", "MIN", "MAX", "FAULT"}
  BY <1>2, Calculated
<1>6. good => Output \in Int /\ Output >= Min /\ Output <= Max
  <2>1. good => ~state /\ Output = Smooth
    BY <1>2, Calculated
  <2>2. ~state => phValue \in Int
    BY <1>2 DEF ReadClean
  <2>3. phValue \in Int => Smooth \in Int
    BY Constants DEF Smooth
  <2>4. good => Output # NaN
    BY <2>1, <2>2, <2>3, NaNAssumption
  <2>. QED  BY <1>2, <2>4, Calculated
<1>. HIDE DEF good, s
<1>7. TypeOK'
  <2>1. m_lastGood' \in Value
    BY <1>3, <1>5 DEF TypeOK
  <2>2. limitStatus' \in Status /\ change' \in [from : Status, at : Value]
    BY <1>4, <1>5 DEF TypeOK
  <2>3. /\ chan' \in [adc : Int, state : BOOLEAN] /\ isFault' \in BOOLEAN
        /\ chan'.state \/ chan'.adc \in MinADC..MaxADC \/ chan'.adc = 0
        /\ setup' \in Setups /\ limits' \in LimitSets /\ m_keypad' \in Int /\ phValue' \in Value
    BY <1>1 DEF TypeOK
  <2>4. /\ pc' \in {"idle", "value", "state", "rest"} /\ adc' \in Int
        /\ m_mode' \in Modes /\ m_status' \in {"UNDEF", "NORMAL", "MIN", "MAX", "FAULT"}
        /\ m_present' \in Value
    BY <1>2, <1>5
  <2>5. state' \in BOOLEAN /\ clean' \in BOOLEAN
    BY <1>2, Zenon
  <2>. QED  BY <2>1, <2>2, <2>3, <2>4, <2>5, Zenon DEF TypeOK
<1>8. OnScale'
  BY <1>3, <1>6 DEF OnScale
<1>9. LastChange'
  <2>1. CASE s = limitStatus
    BY <1>1, <1>4, <2>1 DEF LastChange
  <2>2. CASE s # limitStatus
    BY <1>1, <1>4, <2>2 DEF LastChange, s
  <2>. QED  BY <2>1, <2>2
<1>10. ReadClean'
  BY <1>2 DEF ReadClean
<1>. QED  BY <1>7, <1>8, <1>9, <1>10

LEMMA StepInv == IInv /\ [Next]_vars => IInv'
<1>. SUFFICES ASSUME IInv, [Next]_vars PROVE IInv'
  OBVIOUS
<1>1. CASE Poll \/ PollFails
  BY <1>1, PollInv
<1>2. CASE SetKeypad \/ SetMode
  BY <1>2, OperatorInv
<1>3. CASE CalculateOff \/ Begin \/ ReadValue \/ ReadState
  BY <1>3, ReadInv
<1>4. CASE Rest
  BY <1>4, RestInv
<1>5. CASE UNCHANGED vars
  BY <1>5 DEF vars, module, thread, conf, outputs, IInv, TypeOK, OnScale, LastChange, ReadClean
<1>. QED  BY <1>1, <1>2, <1>3, <1>4, <1>5 DEF Next, DataThread

LEMMA Invariant == Spec => []IInv
BY InitInv, StepInv, PTL DEF Spec

\* Every variable holds a value of its type, whatever the converter gives and whatever
\* the operator writes.
THEOREM TypeCorrect == Spec => []TypeOK
<1>1. IInv => TypeOK
  BY DEF IInv
<1>. QED  BY Invariant, <1>1, PTL

\* Whatever is polled between the two reads of the data thread, the last good value
\* lies on the scale once there is one (rAI::calculate).
THEOREM LastGoodOnScale == Spec => []OnScale
<1>1. IInv => OnScale
  BY DEF IInv
<1>. QED  BY Invariant, <1>1, PTL

\* A last good value is taken only by a calculation that read the code from a good
\* channel, or had a poll between the code and the state (rAI::calculate).
THEOREM LastGoodClean == Spec => GoodOrTorn
<1>1. IInv /\ [Next]_vars => [m_lastGood' # m_lastGood => clean]_vars
  <2>. SUFFICES ASSUME IInv, Next, m_lastGood' # m_lastGood PROVE clean
    OBVIOUS
  <2>1. Rest
    BY DEF Next, DataThread, Poll, PollFails, SetKeypad, SetMode, CalculateOff, Begin,
           ReadValue, ReadState, outputs
  <2>2. pc = "rest" /\ StatusOf(Output) = "NORMAL"
    BY <2>1 DEF Rest
  <2>3. ~state
    BY <2>2, Calculated
  <2>. QED  BY <2>2, <2>3 DEF IInv, ReadClean
<1>. QED  BY Invariant, <1>1, PTL DEF Spec, GoodOrTorn

\* A calculation that finds the channel faulty puts out the keypad or the last good
\* value when one of the two is configured, whatever the mode was (rAI::calculate).
THEOREM FaultIsReplaced == Spec => Substituted
<1>. DEFINE A == pc = "rest" /\ pc' = "idle" /\ state /\ m_mode # "other"
                   /\ setup \cap {"ERR_KEYPAD", "ERR_LASTGOOD"} # {}
                 => m_present' = m_keypad \/ (m_mode' = "LASTGOOD" /\ m_present' = m_lastGood)
<1>1. IInv /\ [Next]_vars => [A]_vars
  <2>. SUFFICES ASSUME IInv, Next, pc = "rest", pc' = "idle", state, m_mode # "other",
                       setup \cap {"ERR_KEYPAD", "ERR_LASTGOOD"} # {}
                PROVE  m_present' = m_keypad \/ (m_mode' = "LASTGOOD" /\ m_present' = m_lastGood)
    OBVIOUS
  <2>1. Rest
    BY DEF Next, DataThread, Poll, PollFails, SetKeypad, SetMode, CalculateOff, Begin,
           ReadValue, ReadState, thread
  <2>2. m_mode' = Mode /\ m_present' = Output
    BY <2>1 DEF Rest
  <2>3. Mode \in {"MKEYPAD", "AKEYPAD", "LASTGOOD"}
    BY DEF Mode, IInv, TypeOK, Modes
  <2>. QED  BY <2>2, <2>3 DEF Output
<1>. QED  BY Invariant, <1>1, PTL DEF Spec, Substituted

\* The status of a value's limits is left and taken again only after the value has
\* moved by the hysteresis (rLimit::calculate, called by rAI::calculate).
THEOREM StatusDoesNotChatter == Spec => NoChatter
<1>. DEFINE A == limitStatus' # limitStatus /\ limitStatus' = change.from
                   /\ change.at # NaN /\ m_present' # NaN
                 => \/ m_present' - change.at >= limits.hyst
                    \/ change.at - m_present' >= limits.hyst
<1>1. IInv /\ [Next]_vars => [A]_vars
  <2>. SUFFICES ASSUME IInv, Next, limitStatus' # limitStatus, limitStatus' = change.from,
                       change.at # NaN, m_present' # NaN
                PROVE  \/ m_present' - change.at >= limits.hyst
                       \/ change.at - m_present' >= limits.hyst
    OBVIOUS
  <2>1. Rest
    BY DEF Next, DataThread, Poll, PollFails, SetKeypad, SetMode, CalculateOff, Begin,
           ReadValue, ReadState, outputs
  <2>2. m_present' = Output /\ limitStatus' = calculate(Output, limitStatus, limits) /\ pc = "rest"
    BY <2>1 DEF Rest, Limited
  <2>3. Output \in Int
    BY <2>2, Calculated DEF Value
  <2>4. change.at \in Int /\ change.from \in Status /\ limits \in Limits
    BY Constants DEF IInv, TypeOK, Value
  <2>5. limitStatus = calculate(change.at, change.from, limits)
    BY DEF IInv, LastChange, NoChange
  <2>. QED  BY <2>2, <2>3, <2>4, <2>5, NoChatterOfLimits
<1>. QED  BY Invariant, <1>1, PTL DEF Spec, NoChatter
=============================================================================
