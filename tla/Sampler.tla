------------------------------ MODULE Sampler ------------------------------
(***************************************************************************)
(* rSampler: doses of the product are taken into a can, by time, by volume *)
(* or by mass, or as a test (src/tritonn/data_sampler.cpp).  The operator  *)
(* writes commands and settings between two calculations; two contacts     *)
(* start and stop the sampling as well.                                    *)
(*                                                                         *)
(* The object is one record, and each method of the class is an operator   *)
(* from the record before the call to the record after it.  The unit of    *)
(* time is a second; rTickCount::SysTick wraps at UDINT, while UnixTime is *)
(* represented by what is read of it, the time since m_timeStart.  Both    *)
(* are gettimeofday, which the operator may set (system_variable.cpp): a   *)
(* clock set on is several ticks between two calculations, one set back an *)
(* action.  The volumes are counted in doses; the fill level that is only  *)
(* displayed (can.present, can.remain) is left out.                        *)
(***************************************************************************)
EXTENDS Integers, FiniteSetsExt

CONSTANTS
  UDINT,     \* the numbers of the type UDINT are 0..UDINT-1
  CAN_MAX,   \* number of cans
  Methods, Selects, Periods, Tests, CanDoses,  \* what the operator writes
  Growths,   \* how the total grows between two calculations
  MaxBack    \* bound: by how many seconds the clock is set back in all

ASSUME SamplerAssumption ==
  /\ UDINT \in Nat \ {0} /\ CAN_MAX \in Nat /\ MaxBack \in Nat
  /\ Selects \subseteq Nat /\ Methods # {} /\ Selects # {}
  /\ \A S \in {Periods, Tests, CanDoses} : S # {} /\ S \subseteq 0..(UDINT - 1)

Commands == {"NONE", "START", "STOP", "TEST", "CONFIRM", "PAUSE", "RESUME"}
Working == {"TEST", "WORKTIME", "WORKVOLUME", "WORKMASS"}
\* TRAPPED: the process was ended by the signal of an integer division by zero.
States == Working \cup {"IDLE", "FINISH", "PAUSE", "ERROR", "TRAPPED"}

\* A contact, in halves: calculate tests it by "> 0" and, truncated, by "= 0".
Contact == 0..2
Contacts == {"START", "STOP"}

\* How the total grows: m_inc.Volume below 0.00001; above it; above it, and since
\* the last dose by more than a (finite) interval.
Growth == {"none", "some", "far"}
ASSUME GrowthsAssumption == Growths \subseteq Growth

Infinite == -1  \* the LREAL quotient by zero

\* Bound: a time longer than every period, whatever is set back.
Long == Max(Periods) + MaxBack + 1

VARIABLES
  s,     \* the rSampler
  tick,  \* rTickCount::SysTick
  held,  \* history: for how many calculations the start contact is closed
  back   \* bound: how many seconds the clock may still be set back

vars == <<s, tick, held, back>>

Wrap(n) == n % UDINT

Fresh(m, sel, p, t, c) ==
  [state |-> "IDLE", method |-> m, select |-> sel,
   period |-> p, test |-> t, canDoses |-> c,
   interval |-> 0, noflow |-> FALSE, grab |-> FALSE, timeRemain |-> 0,
   grabCount |-> 0, grabPresent |-> 0, grabRemain |-> 0,
   timerInterval |-> 0, sinceStart |-> Long, lockErr |-> {}]

Init ==
  /\ \E m \in Methods, sel \in Selects, p \in Periods, t \in Tests, c \in CanDoses :
       s = Fresh(m, sel, p, t, c)
  /\ tick \in 0..(UDINT - 1) /\ held = 0 /\ back = MaxBack
-----------------------------------------------------------------------------
(* Starting and stopping. *)

checkInterval(i) == i > 1

\* The new sampling is counted, whatever became of the state.
Begun(r, i, st) ==
  [r EXCEPT !.state = st, !.interval = i, !.grabRemain = r.grabCount,
            !.sinceStart = 0, !.timerInterval = tick]

\* The interval is divided by the number of doses that was just set to zero: an
\* integer division for the period, a division of LREAL for volume and mass.
Divides(r) == r.method = "PERIOD" /\ r.grabRemain = 0

onStart(r) ==
  LET z == [r EXCEPT !.interval = 0, !.grabCount = 0, !.grabPresent = 0,
                     !.grabRemain = 0, !.timeRemain = 0, !.noflow = FALSE,
                     !.sinceStart = Long, !.timerInterval = 0]
      c == [z EXCEPT !.grabCount = r.canDoses]
  IN CASE r.select >= CAN_MAX  -> [z EXCEPT !.state = "ERROR"]
       [] r.select < CAN_MAX /\ Divides(c) -> [c EXCEPT !.state = "TRAPPED"]
       [] r.select < CAN_MAX /\ ~Divides(c) /\ r.method = "PERIOD" ->
            LET i == r.period \div c.grabRemain
            IN  Begun(c, i, IF checkInterval(i) THEN "WORKTIME" ELSE r.state)
       [] r.select < CAN_MAX /\ ~Divides(c) /\ r.method = "VOLUME" -> Begun(c, Infinite, "WORKVOLUME")
       [] r.select < CAN_MAX /\ ~Divides(c) /\ r.method = "MASS" -> Begun(c, Infinite, "WORKMASS")
       [] OTHER -> [z EXCEPT !.method = "PERIOD", !.state = "ERROR"]

onStop(r) == [r EXCEPT !.state = "IDLE"]

\* Mutant: a test goes on counting the doses of the last sampling.
onStartTest_Counts(r) ==
  [Begun([r EXCEPT !.grabCount = r.test], Wrap(2 * r.test), "TEST")
     EXCEPT !.noflow = FALSE, !.timeRemain = 0]

onStartTest(r) ==
  [Begun([r EXCEPT !.grabCount = r.test], Wrap(2 * r.test), "TEST")
     EXCEPT !.noflow = FALSE, !.grabPresent = 0, !.timeRemain = 0]

onPause(r) == [r EXCEPT !.state = "PAUSE"]

\* CONFIRM, PAUSE and RESUME do nothing here.
onIdle(r, command) ==
  CASE command = "START" -> onStart(r)
    [] command = "STOP"  -> onStop(r)
    [] command = "TEST"  -> onStartTest(r)
    [] OTHER               -> r

onWorkError(r, command) == IF command = "CONFIRM" THEN onStop(r) ELSE r

\* The contact k has the value v: once open, its next closing counts again.
Opened(r, k, v) == IF v \div 2 = 0 THEN [r EXCEPT !.lockErr = @ \ {k}] ELSE r
Locked(r, k) == [r EXCEPT !.lockErr = @ \cup {k}]

\* Mutant: the closing of the start contact is kept only if it has an effect.
checkIO_Lost(r, stop, start) ==
  LET stopEdge == stop > 0 /\ "STOP" \notin r.lockErr
      a == IF stopEdge THEN Locked(r, "STOP") ELSE r
      b == Opened(a, "STOP", stop)
  IN  IF stopEdge /\ "START" \notin r.lockErr THEN onStop(a)
      ELSE IF start > 0 /\ b.lockErr = {} THEN onStart(Locked(b, "START"))
      ELSE Opened(b, "START", start)

\* Each contact is disregarded while the closing of the other one is kept.
checkIO(r, stop, start) ==
  LET stopEdge == stop > 0 /\ "STOP" \notin r.lockErr
      a == IF stopEdge THEN Locked(r, "STOP") ELSE r
      b == Opened(a, "STOP", stop)
      startEdge == start > 0 /\ "START" \notin b.lockErr
      c == IF startEdge THEN Locked(b, "START") ELSE b
  IN  IF stopEdge /\ "START" \notin r.lockErr THEN onStop(a)
      ELSE IF startEdge /\ "STOP" \notin b.lockErr THEN onStart(c)
      ELSE Opened(c, "START", start)
-----------------------------------------------------------------------------
(* Taking the doses. *)

Dose(r) ==
  [r EXCEPT !.grab = TRUE, !.grabPresent = Wrap(@ + 1), !.grabRemain = Wrap(@ - 1)]

\* Mutant: a dose sets the moment of the start too.
TimerDose_Restarts(r) ==
  IF tick >= r.timerInterval + r.interval
    THEN [Dose(r) EXCEPT !.timeRemain = Wrap(@ - r.interval), !.sinceStart = 0,
                         !.timerInterval = Wrap(@ + r.interval)]
    ELSE r

\* The moment is compared in LREAL, so it may lie behind the wrap of the tick.
TimerDose(r) ==
  IF tick >= r.timerInterval + r.interval
    THEN [Dose(r) EXCEPT !.timeRemain = Wrap(@ - r.interval),
                         !.timerInterval = Wrap(@ + r.interval)]
    ELSE r

recalcInterval(r) ==
  IF r.grabRemain = 0 THEN [r EXCEPT !.state = "TRAPPED"]
  ELSE LET i == r.timeRemain \div r.grabRemain
       IN  [r EXCEPT !.interval = i,
                     !.state = IF checkInterval(i) THEN @ ELSE "IDLE"]

\* Mutant: nothing looks at the time.
TimeOver_Never(r) == FALSE

TimeOver(r) == r.sinceStart > r.period
IsCanOverflow(r, full) == r.select < CAN_MAX /\ full

Finished(r, over) ==
  IF r.grabRemain = 0 \/ over THEN [r EXCEPT !.state = "FINISH"] ELSE r

\* STOP and PAUSE; another command is refused, and the work goes on.
Interrupted(command) == command \in {"STOP", "PAUSE"}
Interrupt(r, command) == IF command = "STOP" THEN [r EXCEPT !.state = "FINISH"] ELSE onPause(r)

Flowing(r, growth) ==
  IF growth = "none" THEN [r EXCEPT !.noflow = TRUE]
  ELSE IF r.noflow THEN [recalcInterval(r) EXCEPT !.noflow = FALSE] ELSE r

onWorkTimer(r, command, checkflow, growth, full) ==
  LET f == IF checkflow THEN Flowing(r, growth) ELSE r
      d == TimerDose(f)
  IN  IF Interrupted(command) THEN Interrupt(r, command)
      ELSE IF f.state = "TRAPPED" \/ (checkflow /\ f.noflow) THEN f
      ELSE Finished(d, TimeOver(d) \/ IsCanOverflow(d, full))

onWorkVolume(r, command, growth, full) ==
  LET d == IF growth = "far" /\ r.interval # Infinite THEN Dose(r) ELSE r
  IN  IF Interrupted(command) THEN Interrupt(r, command) ELSE Finished(d, IsCanOverflow(d, full))

Turn(r, command, growth, full) ==
  CASE r.state \in {"IDLE", "FINISH"}         -> onIdle(r, command)
    [] r.state = "TEST"                       -> onWorkTimer(r, command, FALSE, growth, full)
    [] r.state = "WORKTIME"                   -> onWorkTimer(r, command, TRUE, growth, full)
    [] r.state \in {"WORKVOLUME", "WORKMASS"} -> onWorkVolume(r, command, growth, full)
    [] r.state = "ERROR"                      -> onWorkError(r, command)
    [] OTHER                                  -> r
-----------------------------------------------------------------------------
Alive == s.state # "TRAPPED"

calculate(command, stop, start, growth, full) ==
  /\ Alive
  /\ LET idle == [s EXCEPT !.grab = FALSE]
     IN  s' = Turn(checkIO(idle, stop, start), command, growth, full)
  /\ held' = IF start = 2 THEN Min({held + 1, 2}) ELSE 0
  /\ UNCHANGED <<tick, back>>

\* A reader of an output had the object calculated: rSource::calculate returns 1
\* in the turn of the object itself, behind the reset of m_grab.
calculateAgain ==
  /\ Alive /\ s' = [s EXCEPT !.grab = FALSE] /\ UNCHANGED <<tick, held, back>>

Write(field, v) ==
  /\ Alive /\ s' = [s EXCEPT ![field] = v] /\ UNCHANGED <<tick, held, back>>

Tick ==
  /\ Alive
  /\ tick' = Wrap(tick + 1)
  /\ s' = [s EXCEPT !.sinceStart = Min({@ + 1, Long})]
  /\ UNCHANGED <<held, back>>

\* The operator sets the clock back by d seconds.
SetClock(d) ==
  /\ Alive
  /\ tick' = Wrap(tick - d)
  /\ s' = [s EXCEPT !.sinceStart = @ - d]
  /\ back' = back - d
  /\ UNCHANGED held

Calculations ==
  \E command \in Commands, stop, start \in Contact, growth \in Growths, full \in BOOLEAN :
    calculate(command, stop, start, growth, full)

Next ==
  \/ Calculations
  \/ calculateAgain
  \/ \E v \in Methods : Write("method", v)
  \/ \E v \in Selects : Write("select", v)
  \/ \E v \in Periods : Write("period", v)
  \/ \E v \in Tests : Write("test", v)
  \/ \E v \in CanDoses : Write("canDoses", v)
  \/ Tick
  \/ \E d \in 1..back : SetClock(d)

\* Two threads of the program: the calculation goes on, and so does the clock.
Spec == Init /\ [][Next]_vars /\ WF_vars(Calculations) /\ WF_vars(Tick)
-----------------------------------------------------------------------------
(* Properties. *)

\* Every variable keeps its type.
TypeOK ==
  /\ s \in [state : States, method : Methods \cup {"PERIOD"}, select : Selects,
            period : Periods, test : Tests, canDoses : CanDoses,
            interval : {Infinite} \cup 0..(UDINT - 1),
            noflow : BOOLEAN, grab : BOOLEAN, timeRemain : 0..(UDINT - 1),
            grabCount : 0..(UDINT - 1), grabPresent : 0..(UDINT - 1),
            grabRemain : 0..(UDINT - 1), timerInterval : 0..(UDINT - 1),
            sinceStart : Int, lockErr : SUBSET Contacts]
  /\ tick \in 0..(UDINT - 1) /\ held \in 0..2 /\ back \in 0..MaxBack

\* In the type UDINT, the doses taken and the doses that remain make up the doses
\* that were ordered, over all restarts by command or contact, tests and pauses.
DosesAdd ==
  s.state \in Working \cup {"PAUSE"} => Wrap(s.grabPresent + s.grabRemain) = s.grabCount

\* A start contact that stays closed starts one sampling: after that is finished
\* no further one begins without a command.
HeldStartsOnce ==
  [][held = 2 /\ s.state = "FINISH" /\ s'.state \notin {"FINISH", "IDLE"}
     => \A stop \in Contact, growth \in Growths, full \in BOOLEAN :
          ~calculate("NONE", stop, 2, growth, full)]_vars

\* Nothing puts off the end of a test but a clock that is set back, by as much as it
\* is, and a new start, by the command TEST in the calculation that a stop contact has
\* ended the test in: no other command, contact, dose or setting takes its time back,
\* and no calculation goes on with a test whose time is over.
TestAdvances ==
  [][s.state = "TEST" /\ s'.state = "TEST" =>
       \/ /\ s'.sinceStart >= s.sinceStart - (back - back')
          /\ TimeOver(s) => ~Calculations
       \/ /\ s'.sinceStart = 0
          /\ \E stop \in Contact \ {0}, start \in Contact, growth \in Growths, full \in BOOLEAN :
               calculate("TEST", stop, start, growth, full)]_vars

\* A test ends or is begun anew, at the latest when its time is over, even if the
\* tick has wrapped and no dose is taken any more.  A clock set back takes the time to
\* zero MaxBack times at most, so that it excuses no test without end.
TestEnds == s.state = "TEST" ~> s.state # "TEST" \/ s.sinceStart = 0
-----------------------------------------------------------------------------
(* What the help page says and the code does not do.                       *)

\* "145: go on": the command RESUME takes a paused sampler out of the pause.
ResumeLeavesPause ==
  [][/\ s.state = "PAUSE"
     /\ \E growth \in Growths, full \in BOOLEAN : calculate("RESUME", 0, 0, growth, full)
     => s'.state # "PAUSE"]_vars

\* What it does instead: only a contact takes a paused sampler out of the pause.
PauseHeld ==
  [][s.state = "PAUSE" /\ s'.state # "PAUSE"
     => \E command \in Commands, stop, start \in Contact, growth \in Growths, full \in BOOLEAN :
          calculate(command, stop, start, growth, full) /\ stop + start > 0]_vars
=============================================================================
