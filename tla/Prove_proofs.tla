---------------------------- MODULE Prove_proofs ----------------------------
(***************************************************************************)
(* Theorems about Prove: its type invariant, the coherence of its outputs  *)
(* with its state, and what a latched detector implies, for every number   *)
(* of detectors and streams and every set of written setups.               *)
(***************************************************************************)
EXTENDS Prove, TLAPS

\* In the second wait of a two-detector pass a detector of the first wait is
\* still latched: it was needed to get there, and only onStart clears it.
FirstDetectorLatched ==
  "ONEDETECTOR" \notin setupSaved =>
    /\ m_state = "WAITD2" => m_fixDet \cap DetA # {}
    /\ m_state = "WAITD2_REVERSE" => m_fixDet \cap DetB # {}

\* The inductive invariant.
Safe == InProgressCoherent /\ ValveExclusive /\ WayCoherent
        /\ CompletesWithOneDetector /\ FirstDetectorLatched
IInv == TypeOK /\ Safe

\* What a handler may rely on: the accepted setup, the latched detectors and
\* the state left by calcAverage are of their types.
LEMMA CycleTypes ==
  ASSUME IInv, NEW in \in Inputs
  PROVE  /\ AcceptSetup \in SUBSET Flags
         /\ FixedBy(in.det) \subseteq Detector
         /\ m_fixDet \subseteq FixedBy(in.det)
         /\ BounceBy(in.det, AcceptSetup) \in Timer
         /\ AfterAverage \in {m_state, "ERRORSTREAMID"}
         /\ in.det \subseteq Detector /\ in.flow \in BOOLEAN /\ in.drift \in BOOLEAN
<1>1. in.det \subseteq Detector /\ in.flow \in BOOLEAN /\ in.drift \in BOOLEAN
  BY DEF Inputs
<1>. QED  BY <1>1 DEF IInv, TypeOK, AcceptSetup, FixedBy, BounceBy, Timer, AfterAverage

\* A handler preserves the type invariant.
LEMMA HandlerType ==
  ASSUME IInv, NEW in \in Inputs, calculateWith(in), UNCHANGED halted
  PROVE  TypeOK'
<1>. DEFINE fix == FixedBy(in.det)
            su == AcceptSetup
<1>1. /\ su \in SUBSET Flags /\ fix \subseteq Detector
      /\ BounceBy(in.det, su) \in Timer /\ AfterAverage \in State
      /\ in.det \subseteq Detector /\ in.flow \in BOOLEAN /\ in.drift \in BOOLEAN
  BY CycleTypes DEF IInv, TypeOK, State, Errors
<1>2. /\ setupValue' \in SUBSET Flags /\ setupSaved' \in SUBSET Flags
      /\ m_timerBounce' \in Timer /\ halted' \in BOOLEAN
      /\ m_command' \in Command
  BY <1>1 DEF calculateWith, IInv, TypeOK, Command
<1>. DEFINE Rested == /\ m_state' \in State /\ m_inProgress' \in {0, 1}
                      /\ m_way' \in {"FORWARD", "REVERSE"} /\ m_timer' \in Timer
                      /\ m_fixDet' \subseteq Detector /\ m_open' \in {0, 1}
                      /\ m_close' \in {0, 1} /\ freqOut' \subseteq Nat
                      /\ hung' \in BOOLEAN
<1>3. Handler(in, fix, su)
  BY DEF calculateWith
<1>. HIDE DEF fix, su
<1>4. ASSUME onIdle(fix) PROVE Rested
  BY <1>1, <1>4 DEF onIdle, setState, Stay, IInv, TypeOK, State, Measuring, Errors, valve
<1>5. ASSUME checkCommand(fix) PROVE Rested
  BY <1>1, <1>5 DEF checkCommand, setState, Rest, IInv, TypeOK, State, Measuring, Errors, valve
<1>6. ASSUME onStartBegin(fix, su) PROVE Rested
  <2>2. hung' \in BOOLEAN
    BY <1>6 DEF onStartBegin, Relock, IInv, TypeOK
  <2>3. m_fixDet' \subseteq Detector /\ m_open' \in {0, 1} /\ m_close' \in {0, 1}
    BY <1>6 DEF onStartBegin, IInv, TypeOK, valve
  <2>4. m_state' \in State /\ m_inProgress' \in {0, 1}
    BY <1>1, <1>6 DEF onStartBegin, setState, Stay, IInv, TypeOK, State, Measuring, Errors
  <2>5. freqOut' \subseteq Nat
    <3>1. freqOut' = freqOut \/ freqOut' = {StrIdx}
      BY <1>6, <2>2 DEF onStartBegin
    <3>2. freqOut \subseteq Nat
      BY DEF IInv, TypeOK
    <3>3. {StrIdx} \subseteq Nat
      BY DEF StrIdx
    <3>. QED  BY <3>1, <3>2, <3>3
  <2>6. m_way' \in {"FORWARD", "REVERSE"} /\ m_timer' \in Timer
    BY <1>6, <2>2 DEF onStartBegin, IInv, TypeOK, Timer
  <2>. QED  BY <2>2, <2>3, <2>4, <2>5, <2>6
<1>7. ASSUME onStartWait(in, fix, su) PROVE Rested
  BY <1>1, <1>7 DEF onStartWait, In, Rest, setState, Stay, IInv, TypeOK, State, Measuring, Errors, valve, Timer
<1>8. ASSUME onStabilization(in, fix) PROVE Rested
  BY <1>1, <1>8 DEF onStabilization, In, Rest, setState, Stay, IInv, TypeOK, State, Measuring, Errors, valve, Timer
<1>9. ASSUME onRunBall(fix, su) PROVE Rested
  BY <1>1, <1>9 DEF onRunBall, In, Rest, ByWay, setState, Stay, IInv, TypeOK, State, Measuring, Errors, valve, Timer
<1>10. ASSUME onValveToUp(in, fix, su) PROVE Rested
  BY <1>1, <1>10 DEF onValveToUp, In, setState, Stay, IInv, TypeOK, State, Measuring, Errors, valve, Timer
<1>11. ASSUME onWaitToUp(in, fix, su) PROVE Rested
  BY <1>1, <1>11 DEF onWaitToUp, In, Rest, setState, Stay, IInv, TypeOK, State, Measuring, Errors, valve, Timer
<1>12. ASSUME onValveToDown(in, fix, su) PROVE Rested
  BY <1>1, <1>12 DEF onValveToDown, In, ByWay, setState, Stay, IInv, TypeOK, State, Measuring, Errors, valve, Timer
<1>13. ASSUME onWaitD1(fix, su) PROVE Rested
  BY <1>1, <1>13, ProveAssumption DEF onWaitD1, WaitTimeout, Relock, In, ByWay, setState, Stay, IInv, TypeOK, State, Measuring, Errors, valve, Timer
<1>14. ASSUME onWaitD2(fix, su) PROVE Rested
  BY <1>1, <1>14, ProveAssumption DEF onWaitD2, WaitTimeout, Relock, In, ByWay, setState, Stay, IInv, TypeOK, State, Measuring, Errors, valve, Timer
<1>15. ASSUME onCalculate(fix) PROVE Rested
  BY <1>1, <1>15 DEF onCalculate, In, Rest, setState, Stay, IInv, TypeOK, State, Measuring, Errors, valve, Timer
<1>16. ASSUME onReturnBall_NoValve(fix, su) PROVE Rested
  BY <1>1, <1>16 DEF onReturnBall_NoValve, In, Rest, setState, Stay, IInv, TypeOK, State, Measuring, Errors, valve, Timer
<1>17. ASSUME onReturnBall(in, fix, su) PROVE Rested
  BY <1>1, <1>17 DEF onReturnBall, In, setState, Stay, IInv, TypeOK, State, Measuring, Errors, valve, Timer
<1>18. ASSUME onWayComplited(fix, su) PROVE Rested
  BY <1>1, <1>18 DEF onWayComplited, setState, Stay, IInv, TypeOK, State, Measuring, Errors, valve, Timer
<1>19. ASSUME onErrorState(fix) PROVE Rested
  BY <1>1, <1>19 DEF onErrorState, Rest, setState, Stay, IInv, TypeOK, State, Measuring, Errors, valve, Timer
<1>20. Rested
  BY <1>3, <1>4, <1>5, <1>6, <1>7, <1>8, <1>9, <1>10, <1>11, <1>12, <1>13, <1>14, <1>15,
     <1>16, <1>17, <1>18, <1>19 DEF Handler
<1>. QED  BY <1>2, <1>20 DEF TypeOK
\* A handler preserves the rest of the invariant.
LEMMA HandlerSafe ==
  ASSUME IInv, NEW in \in Inputs, calculateWith(in)
  PROVE  Safe'
<1>. DEFINE fix == FixedBy(in.det)
            su == AcceptSetup
<1>1. /\ fix \subseteq Detector /\ m_fixDet \subseteq fix
      /\ AfterAverage \in {m_state, "ERRORSTREAMID"}
      /\ setupSaved' = su /\ (m_state # "IDLE" => su = setupSaved)
      /\ in.drift \in BOOLEAN
  BY CycleTypes DEF calculateWith, AcceptSetup
<1>2. Handler(in, fix, su)
  BY DEF calculateWith
<1>. HIDE DEF fix, su
<1>3. ASSUME onIdle(fix) PROVE Safe'
  BY <1>1, <1>3 DEF onIdle, setState, Stay, IInv, TypeOK, InProgressCoherent, ValveExclusive, WayCoherent,
     CompletesWithOneDetector, FirstDetectorLatched, Safe, State, Measuring, Errors, valve, Timer
<1>4. ASSUME checkCommand(fix) PROVE Safe'
  BY <1>1, <1>4 DEF checkCommand, setState, Rest, IInv, TypeOK, InProgressCoherent, ValveExclusive, WayCoherent,
     CompletesWithOneDetector, FirstDetectorLatched, Safe, State, Measuring, Errors, valve, Timer
<1>5. ASSUME onStartBegin(fix, su) PROVE Safe'
  BY <1>1, <1>5, ProveAssumption DEF onStartBegin, In, Relock, setState, Stay, StrIdx, IInv, TypeOK, InProgressCoherent, ValveExclusive, WayCoherent,
     CompletesWithOneDetector, FirstDetectorLatched, Safe, State, Measuring, Errors, valve, Timer
<1>6. ASSUME onStartWait(in, fix, su) PROVE Safe'
  BY <1>1, <1>6 DEF onStartWait, In, Rest, setState, Stay, IInv, TypeOK, InProgressCoherent, ValveExclusive, WayCoherent,
     CompletesWithOneDetector, FirstDetectorLatched, Safe, State, Measuring, Errors, valve, Timer
<1>7. ASSUME onStabilization(in, fix) PROVE Safe'
  BY <1>1, <1>7 DEF onStabilization, In, Rest, setState, Stay, IInv, TypeOK, InProgressCoherent, ValveExclusive, WayCoherent,
     CompletesWithOneDetector, FirstDetectorLatched, Safe, State, Measuring, Errors, valve, Timer
<1>8. ASSUME onRunBall(fix, su) PROVE Safe'
  BY <1>1, <1>8 DEF onRunBall, In, Rest, ByWay, setState, Stay, IInv, TypeOK, InProgressCoherent, ValveExclusive, WayCoherent,
     CompletesWithOneDetector, FirstDetectorLatched, Safe, State, Measuring, Errors, valve, Timer
<1>9. ASSUME onValveToUp(in, fix, su) PROVE Safe'
  BY <1>1, <1>9 DEF onValveToUp, In, setState, Stay, IInv, TypeOK, InProgressCoherent, ValveExclusive, WayCoherent,
     CompletesWithOneDetector, FirstDetectorLatched, Safe, State, Measuring, Errors, valve, Timer
<1>10. ASSUME onWaitToUp(in, fix, su) PROVE Safe'
  BY <1>1, <1>10 DEF onWaitToUp, In, Rest, setState, Stay, IInv, TypeOK, InProgressCoherent, ValveExclusive, WayCoherent,
     CompletesWithOneDetector, FirstDetectorLatched, Safe, State, Measuring, Errors, valve, Timer
<1>11. ASSUME onValveToDown(in, fix, su) PROVE Safe'
  BY <1>1, <1>11 DEF onValveToDown, In, ByWay, setState, Stay, IInv, TypeOK, InProgressCoherent, ValveExclusive, WayCoherent,
     CompletesWithOneDetector, FirstDetectorLatched, Safe, State, Measuring, Errors, valve, Timer
<1>12. ASSUME onWaitD1(fix, su) PROVE Safe'
  BY <1>1, <1>12, ProveAssumption DEF onWaitD1, WaitTimeout, Relock, In, ByWay, Bad, Hit, setState, Stay, IInv, TypeOK, InProgressCoherent, ValveExclusive, WayCoherent,
     CompletesWithOneDetector, FirstDetectorLatched, Safe, State, Measuring, Errors, valve, Timer
<1>13. ASSUME onWaitD2(fix, su) PROVE Safe'
  BY <1>1, <1>13, ProveAssumption DEF onWaitD2, WaitTimeout, Relock, In, ByWay, Bad, Hit, setState, Stay, IInv, TypeOK, InProgressCoherent, ValveExclusive, WayCoherent,
     CompletesWithOneDetector, FirstDetectorLatched, Safe, State, Measuring, Errors, valve, Timer
<1>14. ASSUME onCalculate(fix) PROVE Safe'
  BY <1>1, <1>14 DEF onCalculate, In, Rest, setState, Stay, IInv, TypeOK, InProgressCoherent, ValveExclusive, WayCoherent,
     CompletesWithOneDetector, FirstDetectorLatched, Safe, State, Measuring, Errors, valve, Timer
<1>15. ASSUME onReturnBall_NoValve(fix, su) PROVE Safe'
  BY <1>1, <1>15 DEF onReturnBall_NoValve, In, Rest, setState, Stay, IInv, TypeOK, InProgressCoherent, ValveExclusive, WayCoherent,
     CompletesWithOneDetector, FirstDetectorLatched, Safe, State, Measuring, Errors, valve, Timer
<1>16. ASSUME onReturnBall(in, fix, su) PROVE Safe'
  BY <1>1, <1>16 DEF onReturnBall, In, setState, Stay, IInv, TypeOK, InProgressCoherent, ValveExclusive, WayCoherent,
     CompletesWithOneDetector, FirstDetectorLatched, Safe, State, Measuring, Errors, valve, Timer
<1>17. ASSUME onWayComplited(fix, su) PROVE Safe'
  BY <1>1, <1>17 DEF onWayComplited, setState, Stay, IInv, TypeOK, InProgressCoherent, ValveExclusive, WayCoherent,
     CompletesWithOneDetector, FirstDetectorLatched, Safe, State, Measuring, Errors, valve, Timer
<1>18. ASSUME onErrorState(fix) PROVE Safe'
  BY <1>1, <1>18 DEF onErrorState, Rest, setState, Stay, IInv, TypeOK, InProgressCoherent, ValveExclusive, WayCoherent,
     CompletesWithOneDetector, FirstDetectorLatched, Safe, State, Measuring, Errors, valve, Timer
<1>. QED  BY <1>2, <1>3, <1>4, <1>5, <1>6, <1>7, <1>8, <1>9, <1>10, <1>11, <1>12, <1>13, <1>14, <1>15, <1>16, <1>17, <1>18 DEF Handler

\* The invariant is inductive.
LEMMA Inductive == IInv /\ [Next]_vars => IInv'
<1>. SUFFICES ASSUME IInv, [Next]_vars PROVE IInv'
  OBVIOUS
<1>. USE DEF IInv
<1>1. CASE calculate
  <2>1. PICK in \in Inputs : calculateWith(in)
    BY <1>1 DEF calculate
  <2>2. UNCHANGED halted
    BY <1>1 DEF calculate
  <2>. QED  BY <2>1, <2>2, HandlerType, HandlerSafe
<1>. USE DEF TypeOK, Safe, InProgressCoherent, ValveExclusive, WayCoherent,
             CompletesWithOneDetector, FirstDetectorLatched, valve, setupVars
<1>2. CASE calculateHalt
  BY <1>2 DEF calculateHalt, AcceptSetup
<1>3. ASSUME NEW c \in Command, SetCommand(c) PROVE IInv'
  BY <1>3 DEF SetCommand, Unwritten
<1>4. ASSUME NEW st \in Setups, SetSetup(st) PROVE IInv'
  BY <1>4, ProveAssumption DEF SetSetup, Unwritten
<1>6. CASE TimerElapses
  BY <1>6 DEF TimerElapses, Timer
<1>7. CASE BounceElapses
  BY <1>7 DEF BounceElapses, Timer
<1>8. CASE UNCHANGED vars
  BY <1>8 DEF vars
<1>. QED  BY <1>1, <1>2, <1>3, <1>4, <1>6, <1>7, <1>8 DEF Next

\* IInv holds in every reachable state.
LEMMA Invariance == Spec => []IInv
<1>1. Init => TypeOK
  BY ProveAssumption DEF Init, TypeOK, State, Command, Timer
<1>2. Init => Safe
  BY DEF Init, Safe, InProgressCoherent, ValveExclusive, WayCoherent,
     CompletesWithOneDetector, FirstDetectorLatched, Measuring
<1>. QED  BY <1>1, <1>2, Inductive, PTL DEF Spec, IInv

\* rProve: every variable keeps its type; in particular no handler and no
\* write leads to a state that calculate's switch does not list.
THEOREM TypeCorrect == Spec => []TypeOK
BY Invariance, PTL DEF IInv

\* rProve: the output "inprogress" is on exactly while a measurement runs.
THEOREM InProgressCorrect == Spec => []InProgressCoherent
BY Invariance, PTL DEF IInv, Safe

\* rProve: the valve is never told to open and to close at once.
THEOREM ValveSafe == Spec => []ValveExclusive
BY Invariance, PTL DEF IInv, Safe

\* rProve: the state names the direction the ball moves in.
THEOREM WayCorrect == Spec => []WayCoherent
BY Invariance, PTL DEF IInv, Safe

\* rProve: without ONEDETECTOR no procedure ever gets past the second wait, whatever
\* the detectors, the streams and the written setups: the defect that WaitD2Waits
\* finds is met by every two-detector prover.
THEOREM OnlyOneDetectorCompletes == Spec => []CompletesWithOneDetector
BY Invariance, PTL DEF IInv, Safe

\* rProve: a procedure runs under the setup it was started with.
THEOREM SetupIsFrozen == Spec => SetupFrozen
<1>1. [Next]_vars => [m_state # "IDLE" => setupSaved' = setupSaved]_vars
  BY DEF Next, vars, setupVars, calculate, calculateWith, calculateHalt, AcceptSetup,
     SetCommand, SetSetup, TimerElapses, BounceElapses
<1>. QED  BY <1>1, PTL DEF Spec, SetupFrozen
-----------------------------------------------------------------------------
(* The variant of a procedure.                                             *)

\* The stages in numbers.
LEMMA Stages ==
  ASSUME NEW way \in {"FORWARD", "REVERSE"}
  PROVE  /\ Stage("START", way) = 20 /\ Stage("STABILIZATION", way) = 19
         /\ Stage("RUNBALL", way) = IF way = "FORWARD" THEN 18 ELSE 9
         /\ Stage("VALVETOUP", way) = IF way = "FORWARD" THEN 17 ELSE 8
         /\ Stage("WAITTOUP", way) = IF way = "FORWARD" THEN 16 ELSE 7
         /\ Stage("VALVETODOWN", way) = IF way = "FORWARD" THEN 15 ELSE 6
         /\ Stage("WAITD1", way) = IF way = "FORWARD" THEN 14 ELSE 5
         /\ Stage("WAITD1_REVERSE", way) = IF way = "FORWARD" THEN 14 ELSE 5
         /\ Stage("WAITD2", way) = IF way = "FORWARD" THEN 13 ELSE 4
         /\ Stage("WAITD2_REVERSE", way) = IF way = "FORWARD" THEN 13 ELSE 4
         /\ Stage("CALCULATE", way) = IF way = "FORWARD" THEN 12 ELSE 3
         /\ Stage("RETURNBALL", way) = IF way = "FORWARD" THEN 11 ELSE 2
         /\ Stage("WAYCOMPLITED", way) = IF way = "FORWARD" THEN 10 ELSE 1
<1>1. /\ "START" \notin Measuring /\ "STABILIZATION" \notin Measuring
      /\ {"RUNBALL", "VALVETOUP", "WAITTOUP", "VALVETODOWN", "WAITD1", "WAITD1_REVERSE",
          "WAITD2", "WAITD2_REVERSE", "CALCULATE", "RETURNBALL", "WAYCOMPLITED"} \subseteq Measuring
  BY DEF Measuring
<1>2. /\ Pass["RUNBALL"] = 9 /\ Pass["VALVETOUP"] = 8 /\ Pass["WAITTOUP"] = 7
      /\ Pass["VALVETODOWN"] = 6 /\ Pass["WAITD1"] = 5 /\ Pass["WAITD1_REVERSE"] = 5
      /\ Pass["WAITD2"] = 4 /\ Pass["WAITD2_REVERSE"] = 4 /\ Pass["CALCULATE"] = 3
      /\ Pass["RETURNBALL"] = 2 /\ Pass["WAYCOMPLITED"] = 1
  BY DEF Pass
<1>. QED  BY <1>1, <1>2 DEF Stage

LEMMA StageType ==
  ASSUME NEW s, s \in {"START", "STABILIZATION"} \cup Measuring, NEW way \in {"FORWARD", "REVERSE"}
  PROVE  Stage(s, way) \in Nat
BY Stages DEF Measuring

\* A cycle takes the procedure on, if it goes to a later state, or starts the timer;
\* it waits if the timer runs, and if the thread hangs.
LEMMA Descent ==
  ASSUME TypeOK, TypeOK', Active, Active',
         \/ Stage(m_state', m_way') < Stage(m_state, m_way)
         \/ /\ Stage(m_state', m_way') = Stage(m_state, m_way)
            /\ \/ m_timer = "off" /\ m_timer' = "run"
               \/ m_timer = "run" /\ m_timer' = "run"
               \/ hung' /\ m_timer' = m_timer
  PROVE  Ahead' <= Ahead /\ (m_timer # "run" => Ahead' < Ahead \/ hung')
<1>. DEFINE a == Stage(m_state, m_way)
            b == Stage(m_state', m_way')
            T(x) == TimerLeft[x]
<1>1. a \in Nat /\ b \in Nat
  BY StageType DEF TypeOK, Active
<1>2. Ahead = 3 * a + T(m_timer) /\ Ahead' = 3 * b + T(m_timer')
  BY DEF Ahead
<1>3. T("off") = 2 /\ T("run") = 1 /\ T("due") = 0
  BY DEF TimerLeft
<1>4. T(m_timer) \in 0..2 /\ T(m_timer') \in 0..2
  BY <1>3 DEF TypeOK, Timer
<1>. HIDE DEF a, b, T
<1>5. CASE b < a
  BY <1>1, <1>2, <1>4, <1>5
<1>6. CASE b = a /\ m_timer = "off" /\ m_timer' = "run"
  BY <1>1, <1>2, <1>3, <1>6
<1>7. CASE b = a /\ m_timer = "run" /\ m_timer' = "run"
  BY <1>1, <1>2, <1>3, <1>7
<1>8. CASE b = a /\ hung' /\ m_timer' = m_timer
  BY <1>1, <1>2, <1>4, <1>8
<1>. QED  BY <1>5, <1>6, <1>7, <1>8 DEF a, b

\* Where a handler leads, in the stages.
LEMMA HandlerDescends ==
  ASSUME IInv, Active, NEW in \in Inputs, calculateWith(in), Active'
  PROVE  \/ Stage(m_state', m_way') < Stage(m_state, m_way)
         \/ /\ Stage(m_state', m_way') = Stage(m_state, m_way)
            /\ \/ m_timer = "off" /\ m_timer' = "run"
               \/ m_timer = "run" /\ m_timer' = "run"
               \/ hung' /\ m_timer' = m_timer
<1>. DEFINE fix == FixedBy(in.det)
            su == AcceptSetup
            Later == Stage(m_state', m_way') < Stage(m_state, m_way)
            Waits == /\ Stage(m_state', m_way') = Stage(m_state, m_way)
                     /\ \/ m_timer = "off" /\ m_timer' = "run"
                        \/ m_timer = "run" /\ m_timer' = "run"
                        \/ hung' /\ m_timer' = m_timer
<1>1. Handler(in, fix, su)
  BY DEF calculateWith
<1>2. /\ AfterAverage \in {m_state, "ERRORSTREAMID"} /\ m_way \in {"FORWARD", "REVERSE"}
      /\ m_timer \in Timer /\ Active /\ in.drift \in BOOLEAN
      /\ m_state \in {"START", "STABILIZATION"} \cup Measuring
      /\ m_state' \in {"START", "STABILIZATION"} \cup Measuring
  BY CycleTypes DEF IInv, TypeOK, Active
<1>. HIDE DEF fix, su
<1>. USE DEF In, Rest, setState, Stay, Measuring, Errors, Timer
<1>3. ASSUME onIdle(fix) \/ checkCommand(fix) \/ onErrorState(fix) PROVE FALSE
  BY <1>2, <1>3 DEF onIdle, checkCommand, onErrorState, Active
<1>4. ASSUME onStartBegin(fix, su) PROVE Later \/ Waits
  <2>1. m_state = "START" /\ m_state' = "START" /\ m_timer = "off"
    BY <1>2, <1>4 DEF onStartBegin
  <2>2. m_way' \in {"FORWARD", "REVERSE"} /\ (m_timer' = "run" \/ (hung' /\ m_timer' = m_timer))
    BY <1>2, <1>4, <2>1 DEF onStartBegin
  <2>. QED  BY <1>2, <2>1, <2>2, Stages
<1>5. ASSUME onStartWait(in, fix, su) PROVE Later \/ Waits
  BY <1>2, <1>5, Stages DEF onStartWait
<1>6. ASSUME onStabilization(in, fix) PROVE Later \/ Waits
  BY <1>2, <1>6, Stages DEF onStabilization
<1>7. ASSUME onRunBall(fix, su) PROVE Later \/ Waits
  BY <1>2, <1>7, Stages DEF onRunBall, ByWay
<1>8. ASSUME onValveToUp(in, fix, su) PROVE Later \/ Waits
  BY <1>2, <1>8, Stages DEF onValveToUp
<1>9. ASSUME onWaitToUp(in, fix, su) PROVE Later \/ Waits
  BY <1>2, <1>9, Stages DEF onWaitToUp
<1>10. ASSUME onValveToDown(in, fix, su) PROVE Later \/ Waits
  BY <1>2, <1>10, Stages DEF onValveToDown, ByWay
<1>11. ASSUME onWaitD1(fix, su) PROVE Later \/ Waits
  <2>1. m_state \in {"WAITD1", "WAITD1_REVERSE"} /\ m_way' = m_way
    BY <1>2, <1>11 DEF onWaitD1
  <2>2. \/ m_state' \in {"WAITD2", "WAITD2_REVERSE"}
        \/ /\ m_state' = m_state
           /\ \/ m_timer \in {"off", "run"} /\ m_timer' = "run"
              \/ hung' /\ m_timer' = m_timer
    <3>1. CASE WaitTimeout(ByWay("ERRORD1", "ERRORD2_REVERSE"))
      BY <1>2, <3>1 DEF WaitTimeout, ByWay
    <3>2. CASE m_timer = "off" /\ m_timer' = "run" /\ Stay
      BY <1>2, <3>2
    <3>3. CASE m_timer = "run" /\ m_timer' = "off" /\ setState("ERRORDETECTOR")
      BY <1>2, <3>3
    <3>4. CASE m_timer = "run" /\ m_timer' = "off" /\ setState(ByWay("WAITD2", "WAITD2_REVERSE"))
      BY <1>2, <3>4 DEF ByWay
    <3>5. CASE m_timer = "run" /\ UNCHANGED m_timer /\ Stay
      BY <1>2, <3>5
    <3>. QED  BY <1>11, <3>1, <3>2, <3>3, <3>4, <3>5 DEF onWaitD1
  <2>. QED  BY <1>2, <2>1, <2>2, Stages
<1>12. ASSUME onWaitD2(fix, su) PROVE Later \/ Waits
  <2>1. m_state \in {"WAITD2", "WAITD2_REVERSE"} /\ m_way' = m_way
    BY <1>2, <1>12 DEF onWaitD2
  <2>2. \/ m_state' \in {"CALCULATE"}
        \/ /\ m_state' = m_state
           /\ \/ m_timer \in {"off", "run"} /\ m_timer' = "run"
              \/ hung' /\ m_timer' = m_timer
    <3>1. CASE WaitTimeout(ByWay("ERRORD2", "ERRORD1_REVERSE"))
      BY <1>2, <3>1 DEF WaitTimeout, ByWay
    <3>2. CASE m_timer = "off" /\ m_timer' = "run" /\ Stay
      BY <1>2, <3>2
    <3>3. CASE m_timer = "run" /\ m_timer' = "off" /\ setState("ERRORDETECTOR")
      BY <1>2, <3>3
    <3>4. CASE m_timer = "run" /\ m_timer' = "off" /\ setState("CALCULATE")
      BY <1>2, <3>4 DEF ByWay
    <3>5. CASE m_timer = "run" /\ UNCHANGED m_timer /\ Stay
      BY <1>2, <3>5
    <3>. QED  BY <1>12, <3>1, <3>2, <3>3, <3>4, <3>5 DEF onWaitD2
  <2>. QED  BY <1>2, <2>1, <2>2, Stages
<1>13. ASSUME onCalculate(fix) PROVE Later \/ Waits
  BY <1>2, <1>13, Stages DEF onCalculate
<1>14. ASSUME onReturnBall_NoValve(fix, su) PROVE Later \/ Waits
  BY <1>2, <1>14, Stages DEF onReturnBall_NoValve
<1>15. ASSUME onReturnBall(in, fix, su) PROVE Later \/ Waits
  BY <1>2, <1>15, Stages DEF onReturnBall
<1>16. ASSUME onWayComplited(fix, su) PROVE Later \/ Waits
  BY <1>2, <1>16, Stages DEF onWayComplited
<1>. QED  BY <1>1, <1>3, <1>4, <1>5, <1>6, <1>7, <1>8, <1>9, <1>10, <1>11, <1>12, <1>13,
             <1>14, <1>15, <1>16 DEF Handler

\* rProve: a procedure has no loop, whatever is left over from an earlier one.
THEOREM ProcedureAdvances == Spec => Advances
<1>1. ASSUME IInv, IInv', [Next]_vars, Active, Active'
      PROVE  Ahead' <= Ahead /\ (calculate /\ m_timer # "run" => Ahead' < Ahead \/ hung')
  <2>1. CASE calculate
    BY <1>1, <2>1, HandlerDescends, Descent DEF IInv, calculate
  <2>2. CASE ~calculate
    <3>1. UNCHANGED <<m_state, m_way>> /\ (m_timer' = m_timer \/ TimerElapses)
      BY <1>1, <2>2 DEF Next, vars, calculateHalt, SetCommand, SetSetup, Unwritten, BounceElapses, TimerElapses
    <3>2. CASE m_timer' = m_timer
      <4>1. Ahead' = Ahead /\ Ahead \in Nat
        <5>1. Stage(m_state, m_way) \in Nat /\ TimerLeft[m_timer] \in Nat
          BY <1>1, StageType DEF IInv, TypeOK, Active, Timer, TimerLeft
        <5>. QED  BY <3>1, <3>2, <5>1 DEF Ahead
      <4>. QED  BY <2>2, <4>1
    <3>3. CASE TimerElapses
      <4>1. Stage(m_state, m_way) \in Nat
        BY <1>1, StageType DEF IInv, TypeOK, Active
      <4>2. m_timer = "run" /\ m_timer' = "due"
        BY <3>3 DEF TimerElapses
      <4>. QED  BY <2>2, <3>1, <4>1, <4>2 DEF Ahead, TimerLeft
    <3>. QED  BY <3>1, <3>2, <3>3
  <2>. QED  BY <2>1, <2>2
<1>2. IInv /\ IInv' /\ [Next]_vars =>
        [Active /\ Active' =>
           /\ Ahead' <= Ahead
           /\ calculate /\ m_timer # "run" => Ahead' < Ahead \/ hung']_vars
  BY <1>1
<1>. QED  BY <1>2, Invariance, PTL DEF Spec, Advances
=============================================================================
