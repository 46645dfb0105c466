------------------------------- MODULE Prove -------------------------------
(***************************************************************************)
(* rProve, the prover (pipe-prover calibration) procedure of a metering    *)
(* station: src/tritonn/data/prove.cpp and prove.h.                        *)
(*                                                                         *)
(* calculate() runs once per cycle of the data thread, which holds the     *)
(* mutex of rDataManager while it does; interfaces write the "command" and *)
(* "setup" variables between two cycles, under the same mutex.  So a cycle *)
(* and a write are each one atomic step.  ("stream_no" is bound to a       *)
(* member that calculate never reads.)  Time is abstract: a started        *)
(* rTickCount becomes due at any later moment.  Measured values are        *)
(* abstracted to what the procedure tells apart: whether there is flow,    *)
(* whether a parameter has drifted, which detectors are lit and where the  *)
(* valve is.                                                               *)
(***************************************************************************)
EXTENDS Naturals

CONSTANTS
  DetA,            \* detectors 1 and 2, the first ones of a forward pass
  DetB,            \* detectors 3 and 4, the second ones of a forward pass
  Setups,          \* values interfaces write to the "setup" variable
  StreamCount,     \* streams of the station
  StreamOnModule,  \* some stream's counter is an input of an I/O module
  RecursiveMutex   \* the data thread may lock its own mutex again;
                   \* FALSE in the build (rThreadClass(), thread_class.cpp:25)

Flags == {"VALVE_4WAY", "STABILIZATION", "NOVALVE", "ONEDETECTOR", "BOUNCE",
          "NOSELECTSTR", "SIMULATE"}

ASSUME ProveAssumption ==
  /\ DetA \cap DetB = {}
  /\ Setups \subseteq SUBSET Flags
  /\ StreamCount \in Nat
  /\ StreamOnModule \in BOOLEAN /\ RecursiveMutex \in BOOLEAN

VARIABLES
  m_state,       \* State
  m_way,         \* pass of the ball: "FORWARD" or "REVERSE"
  m_command,     \* Command written by an interface and not yet handled
  setupValue,    \* m_setup.Value, what interfaces write
  setupSaved,    \* m_setup.Saved, the last accepted one
  m_timer,       \* the step timer
  m_timerBounce, \* the contact-bounce timer
  m_fixDet,      \* latched detectors
  m_open,        \* output "open the valve"
  m_close,       \* output "close the valve"
  m_inProgress,  \* output "measurement in progress"
  freqOut,       \* streams whose frequency output is switched on
  halted,        \* rDataManager is in Live::HALT: calculate is not called
  hung           \* the data thread waits for the mutex it holds itself

setupVars == <<setupValue, setupSaved>>
valve == <<m_open, m_close>>
vars == <<m_state, m_way, m_command, setupVars, m_timer, m_timerBounce,
          m_fixDet, valve, m_inProgress,
          freqOut, halted, hung>>

Command == {"NONE", "START", "ABORT", "RESET"}
Detector == DetA \cup DetB
Timer == {"off", "run", "due"}

\* States in which setState drives the output "in progress".
Measuring == {"RUNBALL", "VALVETOUP", "WAITTOUP", "VALVETODOWN", "WAITD1",
              "WAITD2", "CALCULATE", "RETURNBALL", "WAITD1_REVERSE",
              "WAITD2_REVERSE", "WAYCOMPLITED"}
Errors == {"ERRORFLOW", "ERRORSTAB", "ERRORTOUP", "ERRORTODOWN", "ERRORD1",
           "ERRORD2", "ERRORDETECTOR", "ERRORRETURN", "ERRORSTREAMID",
           "ERRORD1_REVERSE", "ERRORD2_REVERSE"}
\* State::ABORT is left out: no code enters it.
State == {"IDLE", "FINISH", "START", "STABILIZATION"} \cup Measuring \cup Errors

\* m_strIdx, the stream to prove: it keeps its initial value, no code and no
\* variable writes it.
StrIdx == 0
-----------------------------------------------------------------------------
Init ==
  /\ m_state = "IDLE" /\ m_way = "FORWARD" /\ m_command = "NONE"
  /\ setupValue = {} /\ setupSaved = {}
  /\ m_timer = "off" /\ m_timerBounce = "off"
  /\ m_fixDet = {}
  /\ m_open = 0 /\ m_close = 0 /\ m_inProgress = 0
  /\ freqOut = {}
  /\ halted = FALSE /\ hung = FALSE
-----------------------------------------------------------------------------
(* Steps of a cycle that every state shares. *)

\* The accepted setup: a change is taken in IDLE and undone elsewhere.
AcceptSetup == IF m_state = "IDLE" THEN setupValue ELSE setupSaved

\* calcAverage: without a stream a measurement in progress becomes an error.
AfterAverage ==
  IF m_inProgress = 1 /\ StrIdx >= StreamCount THEN "ERRORSTREAMID" ELSE m_state

\* detectorsProcessing: lit detectors are latched unless the bounce timer runs.
Latches(det) == m_timerBounce = "off" /\ ~(det \subseteq m_fixDet)
FixedBy(det) == IF Latches(det) THEN m_fixDet \cup det ELSE m_fixDet
BounceBy(det, su) ==
  IF m_timerBounce = "off"
  THEN IF Latches(det) /\ "BOUNCE" \in su THEN "run" ELSE "off"
  ELSE IF m_timerBounce = "due" THEN "off" ELSE "run"

setState(s) == m_state' = s /\ m_inProgress' = IF s \in Measuring THEN 1 ELSE 0

\* The state is left as calcAverage left it.
Stay == /\ m_state' = AfterAverage
        /\ m_inProgress' = IF AfterAverage = m_state THEN m_inProgress ELSE 0

\* rSnapshot::set locks the mutex of rDataManager, which the caller holds.
Relock == IF RecursiveMutex THEN UNCHANGED hung ELSE hung' = TRUE

isSimulate(su) == su = {"SIMULATE"}
isValveOpened(in) == in.valve = "opened"
isValveClosed(in) == in.valve = "closed"

ByWay(forward, reverse) == IF m_way = "FORWARD" THEN forward ELSE reverse

\* checkDetectors(first): an error, a hit, or nothing yet.
Bad(first, fix, su) ==
  /\ "ONEDETECTOR" \notin su
  /\ fix \cap (IF first = (m_way = "FORWARD") THEN DetB ELSE DetA) # {}
Hit(first, fix, su) ==
  /\ ~Bad(first, fix, su)
  /\ IF "ONEDETECTOR" \in su
     THEN fix \cap Detector # {}
     ELSE fix \cap (IF first = (m_way = "FORWARD") THEN DetA ELSE DetB) # {}

-----------------------------------------------------------------------------
(* The handlers.  Each decides m_state, m_inProgress, m_way, m_timer, the  *)
(* valve outputs, freqOut, hung and what remains of the latched   *)
(* detectors; "in" are the inputs of this cycle, su the accepted setup and *)
(* fix the latched detectors.                                              *)

Rest == UNCHANGED <<m_way, valve, freqOut, hung>>

onIdle(fix) ==
  /\ AfterAverage \in {"IDLE", "FINISH"}
  /\ m_fixDet' = fix
  /\ \/ m_command = "START" /\ setState("START")
     \/ m_command # "START" /\ Stay
  /\ UNCHANGED <<m_way, valve, freqOut, hung, m_timer>>

\* checkCommand: ABORT goes back to IDLE at once and leaves the timer as it is.
checkCommand(fix) ==
  /\ AfterAverage \in ({"START", "STABILIZATION"} \cup Measuring) \ {"WAYCOMPLITED"}
  /\ m_command = "ABORT"
  /\ setState("IDLE")
  /\ m_fixDet' = fix /\ UNCHANGED m_timer /\ Rest

In(states) == AfterAverage \in states /\ m_command # "ABORT"

\* onStart with a stopped timer: clearAverage, connectToLine, m_way = FORWARD.
onStartBegin(fix, su) ==
  /\ In({"START"}) /\ m_timer = "off"
  /\ m_fixDet' = {}
  /\ UNCHANGED valve
  /\ \/ /\ StrIdx >= StreamCount
        /\ setState("ERRORSTREAMID")
        /\ UNCHANGED <<m_way, m_timer, freqOut, hung>>
     \/ /\ StrIdx < StreamCount
        /\ Stay
        /\ IF "NOSELECTSTR" \notin su /\ StreamOnModule
           THEN Relock
           ELSE UNCHANGED hung
        /\ IF hung'
           THEN UNCHANGED <<freqOut, m_timer, m_way>>
           ELSE /\ freqOut' = IF "NOSELECTSTR" \in su THEN freqOut ELSE {StrIdx}
                /\ m_timer' = "run" /\ m_way' = "FORWARD"

onStartWait(in, fix, su) ==
  /\ In({"START"}) /\ m_timer # "off"
  /\ m_fixDet' = fix /\ Rest
  /\ \/ m_timer = "run" /\ Stay /\ UNCHANGED m_timer
     \/ /\ m_timer = "due" /\ m_timer' = "off"
        /\ setState(IF ~in.flow THEN "ERRORFLOW"
                    ELSE IF "STABILIZATION" \in su THEN "STABILIZATION"
                    ELSE "RUNBALL")

onStabilization(in, fix) ==
  /\ In({"STABILIZATION"})
  /\ m_fixDet' = fix /\ Rest
  /\ \/ m_timer = "off" /\ m_timer' = "run" /\ Stay
     \/ m_timer = "due" /\ m_timer' = "off" /\ setState("RUNBALL")
     \/ /\ m_timer = "run" /\ UNCHANGED m_timer    \* checkStab, four times
        /\ IF in.drift THEN setState("ERRORSTAB") ELSE Stay

onRunBall(fix, su) ==
  /\ In({"RUNBALL"})
  /\ m_fixDet' = fix /\ Rest
  /\ \/ m_timer = "off" /\ "NOVALVE" \in su /\ m_timer' = "run" /\ Stay
     \/ m_timer = "off" /\ "NOVALVE" \notin su /\ UNCHANGED m_timer /\ setState("VALVETOUP")
     \/ m_timer = "run" /\ UNCHANGED m_timer /\ Stay
     \/ m_timer = "due" /\ m_timer' = "off" /\ setState(ByWay("WAITD1", "WAITD1_REVERSE"))

onValveToUp(in, fix, su) ==
  /\ In({"VALVETOUP"})
  /\ m_fixDet' = fix /\ UNCHANGED <<m_way, m_timer, freqOut, hung>>
  /\ \/ /\ isValveOpened(in) \/ isSimulate(su)
        /\ setState("VALVETODOWN") /\ UNCHANGED valve
     \/ /\ ~isValveOpened(in) /\ ~isSimulate(su)
        /\ m_close' = 0 /\ m_open' = 1
        /\ setState("WAITTOUP")

onWaitToUp(in, fix, su) ==
  /\ In({"WAITTOUP"})
  /\ m_fixDet' = fix /\ Rest
  /\ \/ m_timer = "off" /\ m_timer' = "run" /\ Stay
     \/ m_timer = "run" /\ UNCHANGED m_timer /\ Stay
     \/ /\ m_timer = "due" /\ m_timer' = "off"
        /\ setState(IF isValveOpened(in) \/ isSimulate(su) THEN "VALVETODOWN" ELSE "ERRORTOUP")

onValveToDown(in, fix, su) ==
  /\ In({"VALVETODOWN"})
  /\ m_fixDet' = fix /\ UNCHANGED <<m_way, freqOut, hung>>
  /\ \/ /\ m_timer = "off" /\ m_timer' = "run" /\ Stay
        /\ IF isSimulate(su) THEN UNCHANGED valve ELSE m_close' = 1 /\ m_open' = 0
     \/ /\ m_timer = "due" /\ m_timer' = "off" /\ UNCHANGED valve
        /\ setState("ERRORTODOWN")
     \/ /\ m_timer = "run" /\ UNCHANGED valve
        /\ IF isValveClosed(in) \/ isSimulate(su)
           THEN m_timer' = "off" /\ setState(ByWay("WAITD1", "WAITD1_REVERSE"))
           ELSE UNCHANGED m_timer /\ Stay

\* A timed-out wait: moduleStop, then the timer and the error state.
WaitTimeout(error) ==
  /\ m_timer = "due" /\ Relock
  /\ IF hung' THEN Stay /\ UNCHANGED m_timer ELSE m_timer' = "off" /\ setState(error)

\* Mutant: the first detector leads to WAITD2 whatever the pass.
onWaitD1_OneWay(fix, su) ==
  /\ In({"WAITD1", "WAITD1_REVERSE"})
  /\ m_fixDet' = fix /\ UNCHANGED <<m_way, valve, freqOut>>
  /\ \/ m_timer = "off" /\ m_timer' = "run" /\ Relock /\ Stay
     \/ WaitTimeout(ByWay("ERRORD1", "ERRORD2_REVERSE"))
     \/ /\ m_timer = "run" /\ UNCHANGED hung
        /\ \/ Hit(TRUE, fix, su) /\ m_timer' = "off" /\ setState("WAITD2")
           \/ ~Hit(TRUE, fix, su) /\ UNCHANGED m_timer /\ Stay

onWaitD1(fix, su) ==
  /\ In({"WAITD1", "WAITD1_REVERSE"})
  /\ m_fixDet' = fix /\ UNCHANGED <<m_way, valve, freqOut>>
  /\ \/ m_timer = "off" /\ m_timer' = "run" /\ Relock /\ Stay    \* moduleStart
     \/ WaitTimeout(ByWay("ERRORD1", "ERRORD2_REVERSE"))
     \/ /\ m_timer = "run" /\ UNCHANGED hung
        /\ \/ Bad(TRUE, fix, su) /\ m_timer' = "off" /\ setState("ERRORDETECTOR")
           \/ Hit(TRUE, fix, su) /\ m_timer' = "off" /\ setState(ByWay("WAITD2", "WAITD2_REVERSE"))
           \/ ~Bad(TRUE, fix, su) /\ ~Hit(TRUE, fix, su) /\ UNCHANGED m_timer /\ Stay

onWaitD2(fix, su) ==
  /\ In({"WAITD2", "WAITD2_REVERSE"})
  /\ m_fixDet' = fix /\ UNCHANGED <<m_way, valve, freqOut>>
  /\ \/ m_timer = "off" /\ m_timer' = "run" /\ UNCHANGED hung /\ Stay
     \/ WaitTimeout(ByWay("ERRORD2", "ERRORD1_REVERSE"))
     \/ /\ m_timer = "run" /\ UNCHANGED hung
        /\ \/ Bad(FALSE, fix, su) /\ m_timer' = "off" /\ setState("ERRORDETECTOR")
           \/ Hit(FALSE, fix, su) /\ m_timer' = "off" /\ setState("CALCULATE")
           \/ ~Bad(FALSE, fix, su) /\ ~Hit(FALSE, fix, su) /\ UNCHANGED m_timer /\ Stay

\* Mutant: the timer of CALCULATE is started again by every cycle.
onCalculate_Restart(fix) ==
  In({"CALCULATE"}) /\ m_fixDet' = fix /\ Rest /\ m_timer' = "run" /\ Stay

onCalculate(fix) ==
  /\ In({"CALCULATE"})
  /\ m_fixDet' = fix /\ Rest
  /\ \/ m_timer = "off" /\ m_timer' = "run" /\ Stay
     \/ m_timer = "run" /\ UNCHANGED m_timer /\ Stay
     \/ m_timer = "due" /\ m_timer' = "off" /\ setState("RETURNBALL")

onReturnBall_NoValve(fix, su) ==
  /\ In({"RETURNBALL"}) /\ "NOVALVE" \in su
  /\ m_fixDet' = fix /\ Rest
  /\ \/ m_timer = "off" /\ m_timer' = "run" /\ Stay
     \/ m_timer = "run" /\ UNCHANGED m_timer /\ Stay
     \/ m_timer = "due" /\ m_timer' = "off" /\ setState("WAYCOMPLITED")

\* Mutant: the close output is not taken back when the valve is opened.
onReturnBall_KeepsClose(in, fix, su) ==
  /\ In({"RETURNBALL"}) /\ "NOVALVE" \notin su
  /\ m_fixDet' = fix /\ UNCHANGED <<m_way, freqOut, hung>>
  /\ \/ m_timer = "off" /\ m_timer' = "run" /\ Stay /\ m_open' = 1 /\ UNCHANGED m_close
     \/ m_timer # "off" /\ m_timer' = "off" /\ UNCHANGED valve /\ setState("WAYCOMPLITED")

onReturnBall(in, fix, su) ==
  /\ In({"RETURNBALL"}) /\ "NOVALVE" \notin su
  /\ m_fixDet' = fix /\ UNCHANGED <<m_way, freqOut, hung>>
  /\ \/ /\ m_timer = "off" /\ m_timer' = "run" /\ Stay
        /\ IF isSimulate(su) THEN UNCHANGED valve ELSE m_close' = 0 /\ m_open' = 1
     \/ /\ m_timer = "due" /\ m_timer' = "off" /\ UNCHANGED valve
        /\ setState("ERRORRETURN")
     \/ /\ m_timer = "run" /\ UNCHANGED valve
        /\ IF isValveOpened(in) \/ isSimulate(su)
           THEN m_timer' = "off" /\ setState("WAYCOMPLITED")
           ELSE UNCHANGED m_timer /\ Stay

onWayComplited(fix, su) ==
  /\ AfterAverage = "WAYCOMPLITED"
  /\ m_fixDet' = fix /\ UNCHANGED <<valve, freqOut, hung, m_timer>>
  /\ IF "VALVE_4WAY" \in su /\ m_way = "FORWARD"
     THEN m_way' = "REVERSE" /\ setState("RUNBALL")
     ELSE UNCHANGED m_way /\ setState("FINISH")

onErrorState(fix) ==
  /\ AfterAverage \in Errors
  /\ m_fixDet' = fix /\ Rest /\ UNCHANGED m_timer
  /\ \/ m_command = "ABORT" /\ setState("IDLE")
     \/ m_command = "RESET" /\ m_state' = "IDLE"
        /\ m_inProgress' = IF AfterAverage = m_state THEN m_inProgress ELSE 0
     \/ m_command \notin {"ABORT", "RESET"} /\ Stay
-----------------------------------------------------------------------------
Handler(in, fix, su) ==
  \/ onIdle(fix)
  \/ checkCommand(fix)
  \/ onStartBegin(fix, su)
  \/ onStartWait(in, fix, su)
  \/ onStabilization(in, fix)
  \/ onRunBall(fix, su)
  \/ onValveToUp(in, fix, su)
  \/ onWaitToUp(in, fix, su)
  \/ onValveToDown(in, fix, su)
  \/ onWaitD1(fix, su)
  \/ onWaitD2(fix, su)
  \/ onCalculate(fix)
  \/ onReturnBall_NoValve(fix, su)
  \/ onReturnBall(in, fix, su)
  \/ onWayComplited(fix, su)
  \/ onErrorState(fix)

\* What a cycle reads: the end switches of the valve ("between": both or none),
\* whether a stabilized parameter has drifted, ~(m_moduleFreq < 0.001) and
\* m_moduleDet.  A faulty module leaves the last two as they were, which is one
\* of the choices.
Inputs == [valve : {"opened", "closed", "between"}, drift : BOOLEAN,
           flow : BOOLEAN, det : SUBSET Detector]

calculateWith(in) ==
  /\ setupValue' = AcceptSetup /\ setupSaved' = AcceptSetup
  /\ m_timerBounce' = BounceBy(in.det, AcceptSetup)
  /\ Handler(in, FixedBy(in.det), AcceptSetup)
  /\ m_command' = IF hung' THEN m_command ELSE "NONE"

\* A cycle of the data thread that reaches the switch on m_state.
calculate ==
  /\ ~halted /\ ~hung
  /\ \E in \in Inputs : calculateWith(in)
  /\ UNCHANGED halted

\* A cycle in which the module is missing or its counter is faulty.
calculateHalt ==
  /\ ~halted /\ ~hung
  /\ setupValue' = AcceptSetup /\ setupSaved' = AcceptSetup
  /\ halted' = TRUE
  /\ UNCHANGED <<m_state, m_way, m_command, m_timer, m_timerBounce, m_fixDet,
                 valve, m_inProgress, freqOut, hung>>

Unwritten == <<m_state, m_way, m_timer, m_timerBounce, m_fixDet,
               valve, m_inProgress, freqOut, halted, hung>>

\* rVariableClass::set of the variables of the procedure, by an interface.
\* (After HALT nothing reads them any more, so such writes are left out.)
SetCommand(c) == ~halted /\ ~hung /\ m_command' = c /\ UNCHANGED <<setupVars, Unwritten>>
SetSetup(s) == ~halted /\ ~hung /\ setupValue' = s
  /\ UNCHANGED <<setupSaved, m_command, Unwritten>>

\* The setting of a started rTickCount elapses.
TimerElapses ==
  /\ m_timer = "run" /\ m_timer' = "due"
  /\ UNCHANGED <<m_state, m_way, m_command, setupVars, m_timerBounce, m_fixDet,
                 valve, m_inProgress, freqOut, halted, hung>>
BounceElapses ==
  /\ m_timerBounce = "run" /\ m_timerBounce' = "due"
  /\ UNCHANGED <<m_state, m_way, m_command, setupVars, m_timer, m_fixDet,
                 valve, m_inProgress, freqOut, halted, hung>>

Next ==
  \/ calculate
  \/ calculateHalt
  \/ \E c \in Command : SetCommand(c)
  \/ \E s \in Setups : SetSetup(s)
  \/ TimerElapses
  \/ BounceElapses

\* The data thread cycles for ever unless it halts or hangs, and time passes.
Fairness == WF_vars(calculate) /\ WF_vars(TimerElapses) /\ WF_vars(BounceElapses)

Spec == Init /\ [][Next]_vars /\ Fairness
-----------------------------------------------------------------------------
TypeOK ==
  /\ m_state \in State /\ m_way \in {"FORWARD", "REVERSE"} /\ m_command \in Command
  /\ setupValue \in SUBSET Flags /\ setupSaved \in SUBSET Flags
  /\ m_timer \in Timer /\ m_timerBounce \in Timer
  /\ m_fixDet \subseteq Detector
  /\ m_open \in {0, 1} /\ m_close \in {0, 1}
  /\ m_inProgress \in {0, 1} /\ freqOut \subseteq Nat
  /\ halted \in BOOLEAN /\ hung \in BOOLEAN

\* The output "inprogress" tells exactly whether a measurement runs, although
\* onErrorState's RESET assigns m_state without setState.
InProgressCoherent == (m_inProgress = 1) <=> (m_state \in Measuring)

\* The valve is never told to open and to close at once, whichever way a
\* procedure was aborted, failed or restarted (outputs are never cleared).
ValveExclusive == m_open + m_close < 2

\* The waits of a pass agree with its direction, also after an ABORT in the
\* middle of a reverse pass and a new START.
WayCoherent ==
  /\ m_state \in {"WAITD1", "WAITD2"} => m_way = "FORWARD"
  /\ m_state \in {"WAITD1_REVERSE", "WAITD2_REVERSE"} => m_way = "REVERSE"

\* A setup written while a procedure runs never takes effect: calculate puts
\* the old one back, so one procedure runs under one setup.
SetupFrozen == [][m_state # "IDLE" => setupSaved' = setupSaved]_vars

\* A procedure is under way.
Active == m_state \in {"START", "STABILIZATION"} \cup Measuring

\* What a procedure has before it at most: the states of this pass and of the next
\* one, and in each state the timer that is started, runs and is due.
Pass == [RUNBALL |-> 9, VALVETOUP |-> 8, WAITTOUP |-> 7, VALVETODOWN |-> 6,
         WAITD1 |-> 5, WAITD1_REVERSE |-> 5, WAITD2 |-> 4, WAITD2_REVERSE |-> 4,
         CALCULATE |-> 3, RETURNBALL |-> 2, WAYCOMPLITED |-> 1]
Stage(s, way) ==
  IF s \in Measuring THEN Pass[s] + (IF way = "FORWARD" THEN 9 ELSE 0)
  ELSE IF s = "START" THEN 20 ELSE 19
TimerLeft == [off |-> 2, run |-> 1, due |-> 0]
Ahead == 3 * Stage(m_state, m_way) + TimerLeft[m_timer]

\* No step of a procedure takes it back, and every cycle takes it on that does not
\* wait for a running timer: whatever an abort has left over, whatever the inputs, the
\* commands and the setups that are written, a procedure has no loop.
Advances ==
  [][Active /\ Active' =>
       /\ Ahead' <= Ahead
       /\ calculate /\ m_timer # "run" => Ahead' < Ahead \/ hung']_vars

\* Every started procedure ends, in FINISH, IDLE or an error: each wait has a
\* timer, so no combination of inputs and commands keeps it going.
ProcedureEnds == Active ~> (~Active \/ halted)

-----------------------------------------------------------------------------
(* What the comments and the help pages say and the code does not do. *)

\* WAITD1 lasts at most the time of timer.detector1.
WaitD1Ends == (m_state = "WAITD1") ~> (m_state # "WAITD1" \/ halted)

\* WAITD2 is the wait for the second detector, of timer.volume at most: without a
\* command it is left when a detector of the second pair has come or the timer is due.
WaitD2Waits ==
  [][m_state = "WAITD2" /\ m_state' # "WAITD2" /\ m_command = "NONE"
     => m_timer = "due" \/ m_fixDet' \cap DetB # {}]_vars

\* What it does instead: the detector latched in the first wait is never released
\* (m_fixDet is cleared by onStart only), so the second wait of a two-detector pass
\* always ends in an error, and only a ONEDETECTOR prover gets to CALCULATE and FINISH.
CompletesWithOneDetector ==
  m_state \in {"CALCULATE", "RETURNBALL", "WAYCOMPLITED", "FINISH"}
    => "ONEDETECTOR" \in setupSaved
=============================================================================
