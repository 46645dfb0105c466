------------------------------- MODULE Report -------------------------------
(***************************************************************************)
(* rReport (src/tritonn/data_report.cpp): a periodic report runs from the  *)
(* first cycle of a period to the first cycle of the next one and carries  *)
(* a mark that says whether it can be relied upon.  The data thread        *)
(* calculates reports after the objects, in every cycle; the main thread   *)
(* starts each report once, without the mutex of the cycle; the operator   *)
(* may set the clock, which happens at the beginning of a cycle.           *)
(*                                                                         *)
(* A period is a number of hours (HOUR .. HOUR_12; the other periods look  *)
(* at another field of the date in the same way), an hour a few units of   *)
(* the clock, and a cycle takes no time.  A report has one total, in mass. *)
(* Its averages and snapshots are numbers that decide nothing.             *)
(***************************************************************************)
EXTENDS Integers, FiniteSets

CONSTANTS
  Units,     \* units of the clock in an hour
  Hours,     \* hours of a day
  Period,    \* hours of a period, which divide the day
  Types,     \* types of report
  Limit,     \* MAX_TOTAL_LIMIT
  Incs,      \* what a cycle may add to the total
  Shifts,    \* by how many units the operator sets the clock
  MaxSets    \* bound: how often

ASSUME ReportAssumption ==
  /\ {Units, Hours, Period, Limit} \subseteq Nat \ {0} /\ Hours % Period = 0
  /\ Types \subseteq {"PERIODIC", "BATCH"}
  /\ Incs \subseteq 0..(Limit - 1) /\ Shifts \subseteq Int /\ MaxSets \in Nat

Day == Hours * Units
Length == Period * Units    \* GetUNIXPeriod
Garbage == Limit            \* what an uninitialised total holds
NoHour == Hours             \* what an uninitialised hour may hold
NoStart == Length + 2       \* the age that stands for m_timeStart._UNIX = 0

Marks == {"UNDEF", "ILLEGAL", "INCOMPLETE", "VALIDATE"}

VARIABLES
  m_type, m_status,
  clock,      \* time of the day
  PastTM,     \* hour of the last test for the end of a period
  age,        \* m_curTime - m_present.m_timeStart, NoStart before there is one
  m_present,  \* mark, start and final total of the running report
  m_completed,\* the same of the last completed one, and what the properties tell of it
  total,      \* m_present.Mass of the source of the total
  inc,        \* what the present cycle has added to it
  dpc, mpc,   \* where the data thread and the main thread are
  cycled,     \* there was a cycle in this unit of the clock
  sets,       \* settings of the clock that may still come
  atBegin,    \* history: the report was started at the beginning of a period
  doubt       \* history: reports to end until the effect of a restart, or of a
              \* clock that was set, must be over

report == <<m_status, PastTM, age, m_present, m_completed, atBegin, doubt>>
vars == <<m_type, report, clock, total, inc, dpc, mpc, cycled, sets>>

Hour == clock \div Units

\* rReport and its datasets initialise m_status and m_mark only.
Init ==
  /\ m_type \in Types /\ m_status = "IDLE"
  /\ clock \in 0..(Day - 1) /\ PastTM \in 0..NoHour
  /\ age \in {NoStart, 0, Length}
  /\ m_present = [mark |-> "UNDEF", start |-> Garbage, final |-> Garbage]
  /\ m_completed = [mark |-> "UNDEF", final |-> Garbage, whole |-> FALSE, doubt |-> 2]
  /\ total \in {0, Limit - 1} /\ inc = 0
  /\ dpc = "source" /\ mpc = "before" /\ cycled = FALSE /\ sets = MaxSets
  /\ atBegin = FALSE /\ doubt = 2

-----------------------------------------------------------------------------
(* Time.                                                                   *)

\* Ages above the length of a period are not told apart.
Older(a, d) == IF a = NoStart THEN a ELSE IF a + d > Length THEN Length + 1 ELSE a + d

\* The data thread has a cycle every 100 ms, so at least one in each unit.
Tick ==
  /\ dpc = "source" /\ cycled /\ cycled' = FALSE
  /\ clock' = (clock + 1) % Day /\ age' = Older(age, 1)
  /\ UNCHANGED <<m_type, m_status, PastTM, m_present, m_completed, atBegin, doubt,
                 total, inc, dpc, mpc, sets>>

\* setCurrentTime, in rSystemVariable::processing.
SetClock(d) ==
  /\ dpc = "source" /\ sets > 0 /\ sets' = sets - 1
  /\ clock' = (clock + d) % Day /\ age' = Older(age, d)
  /\ doubt' = 2
  /\ UNCHANGED <<m_type, m_status, PastTM, m_present, m_completed, atBegin,
                 total, inc, dpc, mpc, cycled>>

-----------------------------------------------------------------------------
(* A cycle of the data thread.                                             *)

\* The objects are calculated before the reports, the source of the total too.
SourceCalculates ==
  /\ dpc = "source" /\ dpc' = "calculate" /\ cycled' = TRUE
  /\ \E i \in Incs : inc' = i /\ total' = (total + i) % Limit
  /\ UNCHANGED <<m_type, report, clock, mpc, sets>>

\* Mutant: every new hour is the end of a period.
CheckFinishPeriodic_Hourly == PastTM # Hour

\* rReport::CheckFinishPeriodic, for a period of hours.
CheckFinishPeriodic == PastTM # Hour /\ Hour % Period = 0

\* Mutant: the start total is copied twice.
Stored_Start(mark) ==
  [mark |-> mark, final |-> m_present.start, whole |-> atBegin /\ age = Length, doubt |-> doubt]

\* rReport::store copies the running report; the report is whole if it covers a period.
Stored(mark) ==
  [mark |-> mark, final |-> m_present.final, whole |-> atBegin /\ age = Length, doubt |-> doubt]

store(mark) ==
  /\ m_completed' = Stored(mark) /\ m_status' = "COMPLETED"
  /\ m_present' = [m_present EXCEPT !.start = 0, !.final = 0]
  /\ doubt' = IF doubt > 0 /\ mpc = "done" THEN doubt - 1 ELSE doubt
  /\ UNCHANGED <<age, atBegin>>

\* rReport::calculate up to store.
calculate ==
  /\ dpc = "calculate"
  /\ \/ /\ m_type = "PERIODIC" /\ m_status = "RUNNING"
        /\ PastTM' = Hour
        /\ \/ CheckFinishPeriodic /\ store(m_present.mark) /\ dpc' = "start"
           \/ /\ ~CheckFinishPeriodic /\ dpc' = "average"
              /\ UNCHANGED <<m_status, age, m_present, m_completed, atBegin, doubt>>
     \/ /\ m_type = "PERIODIC" /\ m_status = "IDLE" /\ UNCHANGED PastTM
        /\ \/ age = NoStart /\ dpc' = "first" /\ UNCHANGED <<m_status, age, m_present, m_completed, atBegin, doubt>>
           \/ age # NoStart /\ age >= Length /\ store("ILLEGAL") /\ dpc' = "again"
           \/ /\ age # NoStart /\ age < Length /\ dpc' = "average"
              /\ m_status' = "RUNNING" /\ m_present' = [m_present EXCEPT !.mark = "INCOMPLETE"]
              /\ UNCHANGED <<age, m_completed, atBegin, doubt>>
     \/ /\ m_type = "BATCH" \/ m_status = "COMPLETED"
        /\ dpc' = "average" /\ UNCHANGED report
  /\ UNCHANGED <<m_type, clock, total, inc, mpc, cycled, sets>>

MarkAtStart == IF dpc = "start" THEN "VALIDATE" ELSE "INCOMPLETE"

\* Mutant: the status is left as store has set it.
start_Completed ==
  /\ dpc \in {"start", "first", "again"} /\ dpc' = "average"
  /\ age' = 0
  /\ m_present' = [mark |-> MarkAtStart, start |-> total, final |-> total]
  /\ atBegin' = (clock % Length = 0)
  /\ UNCHANGED <<m_type, m_status, PastTM, m_completed, doubt, clock, total, inc, mpc, cycled, sets>>

\* rReport::start, and the mark ("again") that its caller sets after it.
start ==
  /\ dpc \in {"start", "first", "again"} /\ dpc' = "average"
  /\ m_status' = "RUNNING" /\ age' = 0
  /\ m_present' = [mark |-> MarkAtStart, start |-> total, final |-> total]
  /\ atBegin' = (clock % Length = 0)
  /\ UNCHANGED <<m_type, PastTM, m_completed, doubt, clock, total, inc, mpc, cycled, sets>>

\* Mutant: a total that stands still is not taken over.
average_Still ==
  /\ dpc = "average" /\ dpc' = "source"
  /\ m_present' = [m_present EXCEPT !.final = IF m_status = "RUNNING" THEN @ ELSE total]
  /\ UNCHANGED <<m_type, m_status, PastTM, age, m_completed, atBegin, doubt,
                 clock, total, inc, mpc, cycled, sets>>

\* The rest of rReport::calculate.
average ==
  /\ dpc = "average" /\ dpc' = "source"
  /\ m_present' = [m_present EXCEPT !.final = total]
  /\ UNCHANGED <<m_type, m_status, PastTM, age, m_completed, atBegin, doubt,
                 clock, total, inc, mpc, cycled, sets>>

DataThread == SourceCalculates \/ calculate \/ start \/ average

-----------------------------------------------------------------------------
(* The main thread: startReports calls run, which is start(true).          *)

RunMarks ==
  /\ mpc = "before" /\ mpc' = "totals"
  /\ m_status' = "RUNNING" /\ age' = 0 /\ atBegin' = (clock % Length = 0)
  /\ m_present' = [m_present EXCEPT !.mark = "INCOMPLETE"]
  /\ UNCHANGED <<m_type, PastTM, m_completed, doubt, clock, total, inc, dpc, cycled, sets>>

RunTotals ==
  /\ mpc = "totals" /\ mpc' = "done"
  /\ m_present' = [m_present EXCEPT !.start = total, !.final = total]
  /\ UNCHANGED <<m_type, m_status, PastTM, age, m_completed, atBegin, doubt,
                 clock, total, inc, dpc, cycled, sets>>

Main == RunMarks \/ RunTotals

Next == Tick \/ (\E d \in Shifts : SetClock(d)) \/ DataThread \/ Main

Spec == Init /\ [][Next]_vars /\ SF_vars(Tick) /\ WF_vars(DataThread) /\ WF_vars(Main)

-----------------------------------------------------------------------------
(* Properties.                                                             *)

Totals == 0..Limit    \* Garbage included

\* Every variable holds a value of its type.
TypeOK ==
  /\ m_type \in Types /\ m_status \in {"IDLE", "RUNNING", "COMPLETED"}
  /\ clock \in 0..(Day - 1) /\ PastTM \in 0..NoHour
  /\ age \in Int /\ age <= NoStart
  /\ m_present \in [mark : Marks, start : Totals, final : Totals]
  /\ m_completed \in [mark : Marks, final : Totals, whole : BOOLEAN, doubt : 0..2]
  /\ total \in 0..(Limit - 1) /\ inc \in Incs \cup {0}
  /\ dpc \in {"source", "calculate", "start", "first", "again", "average"}
  /\ mpc \in {"before", "totals", "done"}
  /\ cycled \in BOOLEAN /\ sets \in 0..MaxSets /\ atBegin \in BOOLEAN /\ doubt \in 0..2

\* A report that is marked VALIDATE covers one whole period.  The first test after a
\* restart compares with an hour that was never set, and a clock that is set moves
\* the ends of periods (CheckFinishPeriodic): this spoils two reports at the most.
ValidIsWhole == m_completed.mark = "VALIDATE" /\ m_completed.doubt = 0 => m_completed.whole

\* From one report to the next no flow is reported twice, also over the wrap of the
\* total, and none is lost but for that of the cycle which ends the report: the next
\* one begins at the final total of the last, or after no more than this cycle has
\* added to it (store, start).
FlowReported ==
  [][dpc = "start" /\ dpc' = "average" /\ m_completed.doubt < 2 =>
       (m_present'.start - m_completed.final) % Limit \in 0..inc]_vars

\* Once run was called, the running report has a start total of its own, whatever
\* the data thread did in between: no report is completed without one.
StartKnown == mpc = "done" /\ dpc = "source" => m_present.start # Garbage /\ m_present.final = total

\* A periodic report ends again and again (CheckFinishPeriodic).
ReportsEnd == m_type = "PERIODIC" => []<>(dpc = "start")

=============================================================================
