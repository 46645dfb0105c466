--------------------------- MODULE Report_proofs ----------------------------
(***************************************************************************)
(* Theorems about Report, for every calendar of hours, every limit of the  *)
(* total, every flow and every setting of the clock: the type invariant,   *)
(* that the report begun by the main thread has a start total of its own,  *)
(* what the totals of two successive reports have to do with the flow, and *)
(* that a valid report covers one whole period.                            *)
(*                                                                         *)
(* Theorems about Events follow, for every size of the archive and every   *)
(* set of connections: no event is forgotten, every client is sent all     *)
(* events in their order, of which only what waited when it came is sent   *)
(* again, and who keeps quiet is not put out.                              *)
(***************************************************************************)
EXTENDS Report, Events, SequenceTheorems, WellFoundedInduction, TLAPS

-----------------------------------------------------------------------------
(* Arithmetic.                                                             *)

LEMMA Remainder ==
  ASSUME NEW n \in Nat \ {0}, NEW x \in Int
  PROVE  x % n \in 0..(n - 1)
OBVIOUS

\* What division leaves.
LEMMA Division ==
  ASSUME NEW n \in Nat \ {0}, NEW x \in Int
  PROVE  x \div n \in Int /\ x % n \in 0..(n - 1) /\ x = n * (x \div n) + (x % n)
<1>1. n * (x \div n) <= x /\ x < n * (x \div n + 1)
  OBVIOUS
<1>2. x \div n \in Int /\ x % n \in 0..(n - 1)
  OBVIOUS
<1>3. x = n * (x \div n) + (x % n)
  OBVIOUS
<1>. QED  BY <1>2, <1>3

\* There is only one quotient and one remainder.
LEMMA RemainderUnique ==
  ASSUME NEW n \in Nat \ {0}, NEW k \in Int, NEW r \in 0..(n - 1)
  PROVE  (n * k + r) % n = r /\ (n * k + r) \div n = k
<1>. DEFINE x == n * k + r
            q == x \div n
<1>0. x \in Int
  OBVIOUS
<1>. HIDE DEF x
<1>1. q \in Int /\ x = n * q + (x % n) /\ x % n \in 0..(n - 1)
  BY <1>0, Division
<1>. USE DEF x
<1>2. n * (k - q) = (x % n) - r
  BY <1>1
<1>. HIDE DEF x, q
<1>3. k - q = 0
  <2>1. k - q >= 1 => n * (k - q) >= n
    BY <1>1
  <2>2. k - q <= -1 => n * (k - q) <= -n
    BY <1>1
  <2>. QED  BY <1>1, <1>2, <2>1, <2>2
<1>4. x % n = r
  BY <1>1, <1>2, <1>3
<1>5. q = k
  BY <1>1, <1>3
<1>. QED  BY <1>4, <1>5 DEF x, q

\* A remainder may be taken before the sum.
LEMMA RemainderPlus ==
  ASSUME NEW n \in Nat \ {0}, NEW a \in Int, NEW b \in Int
  PROVE  ((a % n) + b) % n = (a + b) % n
<1>. DEFINE y == (a % n) + b
            q == y \div n
            p == a \div n
            r == y % n
<1>0. y \in Int
  BY Remainder
<1>. HIDE DEF y
<1>1. /\ q \in Int /\ p \in Int /\ r \in 0..(n - 1)
      /\ y = n * q + r /\ a = n * p + (a % n) /\ a % n \in Int
  BY <1>0, Division
<1>. USE DEF y
<1>2. a + b = n * (p + q) + r
  <2>1. n * (p + q) = n * p + n * q
    BY <1>1
  <2>2. y = (a % n) + b
    OBVIOUS
  <2>. HIDE DEF p, q, r, y
  <2>. QED  BY <1>0, <1>1, <2>1, <2>2
<1>. HIDE DEF y, q, p, r
<1>3. (n * (p + q) + r) % n = r
  BY <1>1, RemainderUnique
<1>. QED  BY <1>2, <1>3 DEF y, r

\* A multiple more leaves the same remainder.
LEMMA RemainderShift ==
  ASSUME NEW n \in Nat \ {0}, NEW x \in Int, NEW k \in Int
  PROVE  (x + n * k) % n = x % n
<1>. DEFINE q == x \div n
            r == x % n
<1>1. q \in Int /\ r \in 0..(n - 1) /\ x = n * q + r
  BY Division
<1>. HIDE DEF q, r
<1>2. x + n * k = n * (q + k) + r
  BY <1>1
<1>3. (n * (q + k) + r) % n = r
  BY <1>1, RemainderUnique
<1>. QED  BY <1>2, <1>3 DEF r

\* A total that wraps still tells what was added to it.
LEMMA Wraps ==
  ASSUME NEW n \in Nat \ {0}, NEW t \in 0..(n - 1), NEW i \in 0..(n - 1)
  PROVE  (((t + i) % n) - t) % n = i
<1>1. CASE t + i < n
  <2>1. (t + i) % n = t + i
    BY <1>1
  <2>. QED  BY <2>1
<1>2. CASE t + i >= n
  <2>1. (t + i) % n = t + i - n
    BY <1>2
  <2>2. (i - n) % n = i
    OBVIOUS
  <2>. QED  BY <2>1, <2>2
<1>. QED  BY <1>1, <1>2

\* The constants of the calendar.
LEMMA Calendar ==
  /\ Units \in Nat \ {0} /\ Hours \in Nat \ {0} /\ Period \in Nat \ {0} /\ Limit \in Nat \ {0}
  /\ Day \in Nat \ {0} /\ Length \in Nat \ {0}
  /\ Incs \subseteq 0..(Limit - 1) /\ Shifts \subseteq Int /\ MaxSets \in Nat
BY ReportAssumption DEF Day, Length

LEMMA HourOfDay == clock \in 0..(Day - 1) => Hour \in 0..NoHour
<1>. SUFFICES ASSUME clock \in 0..(Day - 1) PROVE Hour \in 0..NoHour
  OBVIOUS
<1>1. Hour \in Nat
  BY Calendar DEF Hour
<1>2. Hour * Units <= clock /\ clock < Hours * Units
  BY Calendar DEF Hour, Day
<1>3. Hour < Hours
  BY <1>1, <1>2, Calendar
<1>. QED  BY <1>1, <1>3, Calendar DEF NoHour

-----------------------------------------------------------------------------
(* The invariant.                                                          *)

\* Once run was called the running report has a start total, and between two cycles
\* its final total is the present one.
Started ==
  /\ doubt < 2 => mpc = "done"
  /\ mpc = "done" => m_present.start # Garbage
  /\ mpc = "done" /\ dpc = "source" => m_present.final = total

\* Within a cycle the final total is that of the cycle before, first in the running
\* report, then in the one that was stored.
Behind ==
  /\ dpc = "calculate" /\ doubt < 2 => (total - m_present.final) % Limit = inc
  /\ dpc = "start" /\ m_completed.doubt < 2 => (total - m_completed.final) % Limit = inc

\* The inductive invariant.
IInv == TypeOK /\ Started /\ Behind

LEMMA InitInv == Init => IInv
<1>. SUFFICES ASSUME Init PROVE IInv
  OBVIOUS
<1>1. /\ m_type \in Types /\ m_status \in {"IDLE", "RUNNING", "COMPLETED"}
      /\ dpc \in {"source", "calculate", "start", "first", "again", "average"}
      /\ mpc \in {"before", "totals", "done"}
  BY DEF Init
<1>2. /\ clock \in 0..(Day - 1) /\ PastTM \in 0..NoHour
      /\ age \in Int /\ age <= NoStart
      /\ total \in 0..(Limit - 1) /\ inc \in Incs \cup {0} /\ sets \in 0..MaxSets /\ doubt \in 0..2
  BY Calendar DEF Init, NoStart
<1>3. cycled \in BOOLEAN /\ atBegin \in BOOLEAN
  BY Zenon DEF Init
<1>4. Garbage \in Totals
  BY Calendar DEF Garbage, Totals
<1>5. m_present \in [mark : Marks, start : Totals, final : Totals]
  BY <1>4 DEF Init, Marks
<1>6. m_completed \in [mark : Marks, final : Totals, whole : BOOLEAN, doubt : 0..2]
  BY <1>4 DEF Init, Marks
<1>7. TypeOK
  BY <1>1, <1>2, <1>3, <1>5, <1>6, Zenon DEF TypeOK
<1>8. doubt = 2 /\ mpc = "before" /\ dpc = "source"
  BY DEF Init
<1>9. Started /\ Behind
  BY <1>8 DEF Started, Behind
<1>. QED  BY <1>7, <1>9 DEF IInv

\* The clock: what a step of time may change.
LEMMA ClockInv ==
  ASSUME IInv, Tick \/ \E d \in Shifts : SetClock(d)
  PROVE  IInv'
<1>. USE DEF IInv
<1>1. UNCHANGED <<m_type, m_status, PastTM, m_present, m_completed, atBegin, total, inc, dpc, mpc>>
      /\ dpc = "source"
  BY DEF Tick, SetClock
<1>2. PICK d \in Int : clock' = (clock + d) % Day /\ age' = Older(age, d)
  <2>1. CASE Tick
    BY <2>1 DEF Tick
  <2>2. CASE \E d \in Shifts : SetClock(d)
    BY <2>2, Calendar DEF SetClock
  <2>. QED  BY <2>1, <2>2
<1>3. clock \in Int /\ age \in Int /\ age <= NoStart
  BY Calendar DEF TypeOK
<1>4. clock' \in 0..(Day - 1)
  BY <1>2, <1>3, Calendar, Remainder
<1>5. age' \in Int /\ age' <= NoStart
  BY <1>2, <1>3, Calendar DEF Older, NoStart
<1>6. sets' \in 0..MaxSets /\ doubt' \in 0..2 /\ (doubt' < 2 => doubt < 2)
  BY Calendar DEF Tick, SetClock, TypeOK
<1>7. cycled' \in BOOLEAN
  BY Zenon DEF Tick, SetClock, TypeOK
<1>8. TypeOK'
  BY <1>1, <1>4, <1>5, <1>6, <1>7 DEF TypeOK
<1>9. Started' /\ Behind'
  BY <1>1, <1>6 DEF Started, Behind
<1>. QED  BY <1>8, <1>9

\* The source of the total is calculated.
LEMMA SourceInv ==
  ASSUME IInv, SourceCalculates
  PROVE  IInv'
<1>. USE DEF IInv
<1>1. UNCHANGED <<m_type, m_status, PastTM, age, m_present, m_completed, atBegin, doubt, clock, mpc, sets>>
      /\ dpc = "source" /\ dpc' = "calculate"
  BY DEF SourceCalculates, report
<1>2. PICK i \in Incs : inc' = i /\ total' = (total + i) % Limit
  BY DEF SourceCalculates
<1>3. total \in 0..(Limit - 1) /\ i \in 0..(Limit - 1) /\ total + i \in Int
  BY Calendar DEF TypeOK
<1>4. total' \in 0..(Limit - 1)
  BY <1>2, <1>3, Calendar, Remainder
<1>5. (total' - total) % Limit = inc'
  BY <1>2, <1>3, Calendar, Wraps
<1>6. cycled' \in BOOLEAN
  BY Zenon DEF SourceCalculates
<1>7. TypeOK'
  BY <1>1, <1>2, <1>4, <1>6 DEF TypeOK
<1>8. Started'
  BY <1>1 DEF Started
<1>9. Behind'
  BY <1>1, <1>5 DEF Started, Behind
<1>. QED  BY <1>7, <1>8, <1>9

\* What store leaves, and what becomes of the report.
LEMMA StoreEffect ==
  ASSUME IInv, NEW mark \in Marks, store(mark)
  PROVE  /\ m_status' = "COMPLETED" /\ age' = age /\ atBegin' = atBegin
         /\ m_present' \in [mark : Marks, start : Totals, final : Totals]
         /\ m_present'.start # Garbage
         /\ m_completed' \in [mark : Marks, final : Totals, whole : BOOLEAN, doubt : 0..2]
         /\ m_completed'.final = m_present.final /\ m_completed'.doubt = doubt
         /\ doubt' \in 0..2 /\ (doubt' < 2 => mpc = "done")
<1>. USE DEF IInv
<1>. DEFINE w == atBegin /\ age = Length
<1>1. w \in BOOLEAN
  BY Zenon DEF TypeOK
<1>2. m_completed' = [mark |-> mark, final |-> m_present.final, whole |-> w, doubt |-> doubt]
  BY DEF store, Stored
<1>. HIDE DEF w
<1>3. m_completed' \in [mark : Marks, final : Totals, whole : BOOLEAN, doubt : 0..2]
  BY <1>1, <1>2 DEF TypeOK
<1>4. 0 \in Totals /\ 0 # Garbage
  BY Calendar DEF Totals, Garbage
<1>5. m_present' \in [mark : Marks, start : Totals, final : Totals] /\ m_present'.start = 0
  BY <1>4 DEF store, TypeOK
<1>6. doubt' \in 0..2 /\ (doubt' < 2 => mpc = "done")
  BY DEF store, TypeOK, Started
<1>. QED  BY <1>2, <1>3, <1>4, <1>5, <1>6 DEF store

\* The data thread tests the end of the period.
LEMMA CalculateInv ==
  ASSUME IInv, calculate
  PROVE  IInv'
<1>. USE DEF IInv
<1>. DEFINE Kept == UNCHANGED <<age, atBegin, doubt, m_completed>>
                    /\ m_present'.start = m_present.start
                    /\ m_present' \in [mark : Marks, start : Totals, final : Totals]
                    /\ m_status' \in {"IDLE", "RUNNING", "COMPLETED"}
                    /\ dpc' \in {"average", "first"}
            Ended == (\E mark \in Marks : store(mark)) /\ dpc' \in {"start", "again"}
<1>1. /\ UNCHANGED <<m_type, clock, total, inc, mpc, cycled, sets>>
      /\ dpc = "calculate"
  BY DEF calculate
<1>2. PastTM' \in 0..NoHour
  BY HourOfDay DEF calculate, TypeOK, report
<1>3. Kept \/ Ended
  <2>1. m_present.mark \in Marks /\ {"ILLEGAL", "INCOMPLETE"} \subseteq Marks
    BY DEF TypeOK, Marks
  <2>2. CASE m_type = "PERIODIC" /\ m_status = "RUNNING" /\ CheckFinishPeriodic
    <3>1. store(m_present.mark) /\ dpc' = "start"
      BY <2>2 DEF calculate, CheckFinishPeriodic
    <3>. QED  BY <3>1, <2>1
  <2>3. CASE m_type = "PERIODIC" /\ m_status = "RUNNING" /\ ~CheckFinishPeriodic
    BY <2>3 DEF calculate, TypeOK
  <2>4. CASE m_type = "PERIODIC" /\ m_status = "IDLE" /\ age # NoStart /\ age >= Length
    <3>1. store("ILLEGAL") /\ dpc' = "again"
      BY <2>4, Calendar DEF calculate, TypeOK
    <3>. QED  BY <3>1, <2>1
  <2>5. CASE m_type = "PERIODIC" /\ m_status = "IDLE" /\ ~(age # NoStart /\ age >= Length)
    BY <2>1, <2>5 DEF calculate, TypeOK
  <2>6. CASE ~(m_type = "PERIODIC" /\ m_status \in {"RUNNING", "IDLE"})
    BY <2>6 DEF calculate, TypeOK, report
  <2>. QED  BY <2>2, <2>3, <2>4, <2>5, <2>6
<1>4. CASE Kept
  <2>1. TypeOK'
    BY <1>1, <1>2, <1>4 DEF TypeOK
  <2>2. Started' /\ Behind'
    BY <1>1, <1>4 DEF Started, Behind
  <2>. QED  BY <2>1, <2>2
<1>5. CASE Ended
  <2>1. PICK mark \in Marks : store(mark)
    BY <1>5
  <2>2. TypeOK'
    BY <1>1, <1>2, <1>5, <2>1, StoreEffect DEF TypeOK
  <2>3. Started' /\ Behind'
    BY <1>1, <1>5, <2>1, StoreEffect DEF Started, Behind
  <2>. QED  BY <2>2, <2>3
<1>. QED  BY <1>3, <1>4, <1>5

\* A report begins with the present total.
LEMMA StartInv ==
  ASSUME IInv, start \/ average
  PROVE  IInv'
<1>. USE DEF IInv
<1>1. /\ UNCHANGED <<m_type, PastTM, m_completed, doubt, clock, total, inc, mpc, cycled, sets>>
      /\ dpc' \in {"average", "source"}
  BY DEF start, average
<1>2. total \in Totals /\ total # Garbage
  BY Calendar DEF TypeOK, Totals, Garbage
<1>3. MarkAtStart \in Marks
  BY DEF MarkAtStart, Marks
<1>4. CASE start
  <2>1. m_present' \in [mark : Marks, start : Totals, final : Totals] /\ m_present'.start = total
    BY <1>2, <1>3, <1>4 DEF start
  <2>2. m_status' \in {"IDLE", "RUNNING", "COMPLETED"} /\ age' \in Int /\ age' <= NoStart /\ dpc' = "average"
    BY <1>4, Calendar DEF start, NoStart
  <2>3. atBegin' \in BOOLEAN
    BY <1>4, Zenon DEF start
  <2>4. TypeOK'
    BY <1>1, <2>1, <2>2, <2>3 DEF TypeOK
  <2>5. Started' /\ Behind'
    BY <1>1, <1>2, <2>1, <2>2 DEF Started, Behind, Garbage
  <2>. QED  BY <2>4, <2>5
<1>5. CASE average
  <2>1. m_present' = [m_present EXCEPT !.final = total] /\ UNCHANGED <<m_status, age, atBegin>> /\ dpc' = "source"
    BY <1>5 DEF average
  <2>2. TypeOK'
    BY <1>1, <1>2, <2>1 DEF TypeOK
  <2>3. Started' /\ Behind'
    BY <1>1, <2>1 DEF Started, Behind, TypeOK, Garbage
  <2>. QED  BY <2>2, <2>3
<1>. QED  BY <1>4, <1>5

\* run, in the main thread, whatever the data thread is at.
LEMMA MainInv ==
  ASSUME IInv, Main
  PROVE  IInv'
<1>. USE DEF IInv
<1>1. /\ UNCHANGED <<m_type, PastTM, m_completed, doubt, clock, total, inc, dpc, cycled, sets>>
      /\ mpc # "done" /\ mpc' \in {"totals", "done"} /\ doubt = 2
  BY DEF Main, RunMarks, RunTotals, Started, TypeOK
<1>2. total \in Totals /\ total # Garbage
  BY Calendar DEF TypeOK, Totals, Garbage
<1>3. CASE RunMarks
  <2>1. m_present' \in [mark : Marks, start : Totals, final : Totals] /\ mpc' = "totals"
    BY <1>3 DEF RunMarks, TypeOK, Marks
  <2>2. m_status' \in {"IDLE", "RUNNING", "COMPLETED"} /\ age' \in Int /\ age' <= NoStart
    BY <1>3, Calendar DEF RunMarks, NoStart
  <2>3. atBegin' \in BOOLEAN
    BY <1>3, Zenon DEF RunMarks
  <2>4. TypeOK'
    BY <1>1, <2>1, <2>2, <2>3 DEF TypeOK
  <2>5. Started' /\ Behind'
    BY <1>1, <2>1 DEF Started, Behind
  <2>. QED  BY <2>4, <2>5
<1>4. CASE RunTotals
  <2>1. m_present' = [m_present EXCEPT !.start = total, !.final = total] /\ UNCHANGED <<m_status, age, atBegin>>
    BY <1>4 DEF RunTotals
  <2>2. TypeOK'
    BY <1>1, <1>2, <2>1 DEF TypeOK
  <2>3. Started' /\ Behind'
    BY <1>1, <1>2, <2>1 DEF Started, Behind, TypeOK, Garbage
  <2>. QED  BY <2>2, <2>3
<1>. QED  BY <1>3, <1>4 DEF Main

LEMMA StepInv == IInv /\ [Next]_vars => IInv'
<1>. SUFFICES ASSUME IInv, [Next]_vars PROVE IInv'
  OBVIOUS
<1>1. CASE UNCHANGED vars
  BY <1>1 DEF vars, report, IInv, TypeOK, Started, Behind
<1>2. CASE Next
  BY <1>2, ClockInv, SourceInv, CalculateInv, StartInv, MainInv DEF Next, DataThread
<1>. QED  BY <1>1, <1>2

LEMMA Invariant == Spec => []IInv
BY InitInv, StepInv, PTL DEF Spec

\* Every variable holds a value of its type, whatever the clock is set to.
THEOREM TypeCorrect == Spec => []TypeOK
<1>1. IInv => TypeOK
  BY DEF IInv
<1>. QED  BY Invariant, <1>1, PTL

\* Whatever the data thread has done with the report while run began it, the report
\* has a start total of its own from then on, and its final total is that of the last
\* cycle (rReport::start, calculate).
THEOREM StartIsKnown == Spec => []StartKnown
<1>1. IInv => StartKnown
  BY DEF IInv, Started, StartKnown
<1>. QED  BY Invariant, <1>1, PTL

\* The start total of a report and the final total of the one before it differ by no
\* more than the flow of the cycle between them, over the wrap of the total and however
\* the clock was set (rReport::store, start).
THEOREM FlowIsReported == Spec => FlowReported
<1>. DEFINE A == dpc = "start" /\ dpc' = "average" /\ m_completed.doubt < 2
                   => (m_present'.start - m_completed.final) % Limit \in 0..inc
<1>1. IInv /\ [Next]_vars => [A]_vars
  <2>. SUFFICES ASSUME IInv, Next, dpc = "start", dpc' = "average", m_completed.doubt < 2
                PROVE  (m_present'.start - m_completed.final) % Limit \in 0..inc
    OBVIOUS
  <2>1. start
    BY DEF Next, Tick, SetClock, DataThread, SourceCalculates, calculate, average, Main, RunMarks, RunTotals
  <2>2. m_present'.start = total
    BY <2>1 DEF start
  <2>3. inc \in Nat
    BY ReportAssumption DEF IInv, TypeOK
  <2>. QED  BY <2>2, <2>3 DEF IInv, Behind
<1>. QED  BY Invariant, <1>1, PTL DEF Spec, FlowReported

-----------------------------------------------------------------------------
(* The calendar.                                                           *)

\* The hour of the unit of the clock before the present one.
Before == ((clock - 1) % Day) \div Units

LEMMA DayRemainder ==
  ASSUME NEW x \in Int
  PROVE  (x % Day) % Length = x % Length
<1>1. PICK q \in Int : Day = Length * q
  <2>. DEFINE q == Hours \div Period
  <2>1. Hours % Period = 0
    BY ReportAssumption
  <2>2. q \in Int /\ Hours = Period * q
    BY <2>1, Calendar, Division
  <2>. HIDE DEF q
  <2>3. Day = (Period * q) * Units /\ Length = Period * Units
    BY <2>2 DEF Day, Length
  <2>4. (Period * q) * Units = (Period * Units) * q
    BY <2>2, Calendar
  <2>. QED  BY <2>2, <2>3, <2>4
<1>. DEFINE d == x \div Day
            r == x % Day
<1>2. d \in Int /\ r \in Int /\ x = Day * d + r
  BY Calendar, Division
<1>. HIDE DEF d, r
<1>3. x = r + Length * (q * d)
  <2>1. Day * d = (Length * q) * d /\ (Length * q) * d = Length * (q * d)
    BY <1>1, <1>2, Calendar
  <2>. QED  BY <1>2, <2>1, Calendar
<1>4. q * d \in Int
  BY <1>1, <1>2
<1>5. (r + Length * (q * d)) % Length = r % Length
  BY <1>2, <1>4, Calendar, RemainderShift
<1>. QED  BY <1>3, <1>5 DEF r

LEMMA HourDivides ==
  ASSUME clock \in 0..(Day - 1)
  PROVE  /\ Hour \in Int /\ clock % Units \in 0..(Units - 1)
         /\ clock = Units * Hour + (clock % Units)
BY Calendar, Division DEF Hour

\* An hour that differs from that of the unit before has just begun.
LEMMA PeriodBegins ==
  ASSUME clock \in 0..(Day - 1), Before # Hour, Hour % Period = 0
  PROVE  clock % Length = 0
<1>. DEFINE r == clock % Units
<1>1. Hour \in Int /\ r \in 0..(Units - 1) /\ clock = Units * Hour + r
  BY HourDivides
<1>. HIDE DEF r
<1>2. r = 0
  <2>1. SUFFICES ASSUME r # 0 PROVE FALSE
    OBVIOUS
  <2>2. clock - 1 = Units * Hour + (r - 1) /\ r - 1 \in 0..(Units - 1)
    BY <1>1, <2>1, Calendar
  <2>3. clock - 1 \in 0..(Day - 1)
    <3>1. Hour >= 0
      BY HourOfDay, Calendar DEF NoHour
    <3>2. Units * Hour >= 0
      BY <1>1, <3>1, Calendar
    <3>3. clock - 1 >= 0
      BY <1>1, <2>2, <3>2, Calendar
    <3>. QED  BY <3>3, Calendar
  <2>4. (clock - 1) % Day = clock - 1
    BY <2>3, Calendar
  <2>5. (Units * Hour + (r - 1)) \div Units = Hour
    BY <1>1, <2>2, Calendar, RemainderUnique
  <2>. QED  BY <2>2, <2>4, <2>5 DEF Before
<1>. DEFINE k == Hour \div Period
<1>3. k \in Int /\ Hour = Period * k
  BY <1>1, Calendar, Division
<1>. HIDE DEF k
<1>4. clock = Length * k + 0
  <2>1. Units * (Period * k) = (Period * Units) * k
    BY <1>3, Calendar
  <2>. QED  BY <1>1, <1>2, <1>3, <2>1, Calendar DEF Length
<1>5. (Length * k + 0) % Length = 0
  <2>1. 0 \in 0..(Length - 1)
    BY Calendar
  <2>. QED  BY <1>3, <2>1, Calendar, RemainderUnique
<1>. QED  BY <1>4, <1>5

\* At the end of a period the hour is another one, unless the day has one hour only.
LEMMA PeriodEnds ==
  ASSUME clock \in 0..(Day - 1), clock % Length = 0, Hours # 1
  PROVE  Hour % Period = 0 /\ Before # Hour
<1>. DEFINE k == clock \div Length
            m == Period * k
<1>1. k \in Int /\ clock = Length * k
  BY Calendar, Division
<1>. HIDE DEF k
<1>2. m \in Int /\ clock = Units * m
  <2>1. (Period * Units) * k = Units * (Period * k)
    BY <1>1, Calendar
  <2>. QED  BY <1>1, <2>1, Calendar DEF Length
<1>3. Hour = m
  <2>. HIDE DEF m
  <2>1. 0 \in 0..(Units - 1) /\ clock = Units * m + 0
    BY <1>2, Calendar
  <2>2. (Units * m + 0) \div Units = m
    BY <1>2, <2>1, Calendar, RemainderUnique
  <2>. QED  BY <2>1, <2>2 DEF Hour
<1>4. Hour % Period = 0
  <2>1. 0 \in 0..(Period - 1) /\ m = Period * k + 0
    BY <1>1, Calendar
  <2>2. (Period * k + 0) % Period = 0
    BY <1>1, <2>1, Calendar, RemainderUnique
  <2>. QED  BY <1>3, <2>1, <2>2
<1>. HIDE DEF m
<1>5. ASSUME Before = Hour PROVE FALSE
  <2>1. CASE clock = 0
    <3>1. (clock - 1) % Day = Day - 1
      <4>1. clock - 1 = Day * (-1) + (Day - 1) /\ Day - 1 \in 0..(Day - 1)
        BY <2>1, Calendar
      <4>2. (Day * (-1) + (Day - 1)) % Day = Day - 1
        BY <4>1, Calendar, RemainderUnique
      <4>. QED  BY <4>1, <4>2
    <3>2. Day - 1 = Units * (Hours - 1) + (Units - 1)
      BY Calendar DEF Day
    <3>3. (Units * (Hours - 1) + (Units - 1)) \div Units = Hours - 1
      <4>1. Hours - 1 \in Int /\ Units - 1 \in 0..(Units - 1)
        BY Calendar
      <4>. QED  BY <4>1, Calendar, RemainderUnique
    <3>4. Hour = Hours - 1
      BY <1>5, <3>1, <3>2, <3>3 DEF Before
    <3>5. Units * Hour = 0
      BY <1>2, <1>3, <2>1
    <3>6. Hour >= 1
      BY <3>4, Calendar
    <3>7. Units * Hour >= Units
      BY <1>2, <1>3, <3>6, Calendar
    <3>. QED  BY <3>5, <3>7, Calendar
  <2>2. CASE clock # 0
    <3>1. (clock - 1) % Day = clock - 1
      <4>1. clock - 1 \in 0..(Day - 1)
        BY <2>2, Calendar
      <4>. QED  BY <4>1, Calendar
    <3>2. clock - 1 = Units * (m - 1) + (Units - 1)
      BY <1>2, Calendar
    <3>3. (Units * (m - 1) + (Units - 1)) \div Units = m - 1
      <4>1. m - 1 \in Int /\ Units - 1 \in 0..(Units - 1)
        BY <1>2, Calendar
      <4>. QED  BY <4>1, Calendar, RemainderUnique
    <3>4. Before = m - 1
      BY <3>1, <3>2, <3>3 DEF Before
    <3>. QED  BY <1>2, <1>3, <1>5, <3>4
  <2>. QED  BY <2>1, <2>2
<1>. QED  BY <1>4, <1>5

\* An age that fits both the beginning and the end of a period is that of the end.
LEMMA WholePeriod ==
  ASSUME NEW c \in Int, NEW a \in 0..Length, a # 0, c % Length = 0, (c - a) % Length = 0
  PROVE  a = Length
<1>. DEFINE k == c \div Length
            j == (c - a) \div Length
<1>1. k \in Int /\ j \in Int /\ c = Length * k /\ c - a = Length * j /\ a \in Int
  BY Calendar, Division
<1>. HIDE DEF k, j
<1>2. a = Length * (k - j)
  BY <1>1, Calendar
<1>3. k - j >= 2 => Length * (k - j) >= Length + Length
  BY <1>1, Calendar
<1>4. k - j <= 0 => Length * (k - j) <= 0
  BY <1>1, Calendar
<1>5. k - j = 1
  BY <1>1, <1>2, <1>3, <1>4, Calendar
<1>. QED  BY <1>2, <1>5, Calendar

\* After a whole period the clock is at the end of one again.
LEMMA EndAgain ==
  ASSUME NEW c \in Int, (c - Length) % Length = 0
  PROVE  c % Length = 0
<1>. DEFINE x == c - Length
            k == 1
<1>1. x \in Int /\ k \in Int /\ x + Length * k = c
  BY Calendar
<1>. HIDE DEF x, k
<1>2. (x + Length * k) % Length = x % Length
  BY <1>1, Calendar, RemainderShift
<1>. QED  BY <1>1, <1>2 DEF x

\* A day of one hour has no other hour.
LEMMA OneHour ==
  ASSUME clock \in 0..(Day - 1), Hours = 1
  PROVE  Before = Hour
<1>1. Day = Units
  BY Calendar DEF Day
<1>2. \A x \in 0..(Units - 1) : x \div Units = 0
  BY Calendar
<1>3. (clock - 1) % Day \in 0..(Units - 1) /\ clock \in 0..(Units - 1)
  BY <1>1, Calendar, Remainder
<1>. QED  BY <1>2, <1>3 DEF Before, Hour

-----------------------------------------------------------------------------
(* The periods.                                                            *)

\* run has begun the report, and only the end of a period interrupts it.
Status ==
  /\ m_status = "COMPLETED" => dpc \in {"start", "again"}
  /\ mpc # "before" => m_status # "IDLE"
  /\ dpc # "source" => cycled

\* Once a report has ended, PastTM is the hour of the last cycle, which was in this
\* unit of the clock or in the one before.
Tested ==
  doubt < 2 =>
    /\ m_type = "PERIODIC" /\ dpc \in {"source", "calculate", "start", "average"}
    /\ dpc = "source" => PastTM = IF cycled THEN Hour ELSE Before
    /\ dpc = "calculate" => PastTM \in {Hour, Before}
    /\ dpc \in {"start", "average"} => PastTM = Hour

\* Once two have ended, the running report was begun with its period, is as old as
\* that part of the period that is over, and ends with it.
Aged ==
  doubt = 0 =>
    /\ Hours # 1
    /\ dpc # "start" => atBegin /\ age \in 0..Length /\ (clock - age) % Length = 0
    /\ dpc # "start" /\ cycled /\ age = Length => dpc = "calculate"
    /\ dpc = "source" /\ age = 0 => cycled
    /\ dpc = "calculate" /\ age = Length => PastTM = Before
    /\ dpc = "calculate" /\ age = 0 => PastTM = Hour
    /\ dpc = "start" => clock % Length = 0

Periods == Status /\ Tested /\ Aged /\ ValidIsWhole

LEMMA InitPeriods == Init => Periods
BY DEF Init, Periods, Status, Tested, Aged, ValidIsWhole

\* The next unit of the clock, when the present one had its cycle.
LEMMA TickPeriods == IInv /\ Periods /\ Tick => Periods'
<1>. SUFFICES ASSUME IInv, Periods, Tick PROVE Periods'
  OBVIOUS
<1>1. /\ dpc = "source" /\ cycled /\ cycled' = FALSE
      /\ clock' = (clock + 1) % Day /\ age' = Older(age, 1)
      /\ UNCHANGED <<m_type, m_status, PastTM, m_completed, atBegin, doubt, dpc, mpc>>
  BY DEF Tick
<1>2. clock \in 0..(Day - 1) /\ clock \in Int /\ clock + 1 \in Int
  BY Calendar DEF IInv, TypeOK
<1>3. Before' = Hour
  <2>1. (((clock + 1) % Day) + (-1)) % Day = ((clock + 1) + (-1)) % Day
    <3>. DEFINE a == clock + 1
                b == -1
    <3>1. a \in Int /\ b \in Int
      BY <1>2
    <3>. HIDE DEF a, b
    <3>2. ((a % Day) + b) % Day = (a + b) % Day
      BY <3>1, Calendar, RemainderPlus
    <3>. QED  BY <3>2 DEF a, b
  <2>2. (clock + 1) + (-1) = clock /\ clock % Day = clock
    BY <1>2, Calendar
  <2>3. clock' - 1 = ((clock + 1) % Day) + (-1)
    BY <1>1, <1>2, Calendar
  <2>4. (clock' - 1) % Day = clock
    BY <2>1, <2>2, <2>3
  <2>. QED  BY <2>4 DEF Before, Hour
<1>4. Tested'
  BY <1>1, <1>3 DEF Periods, Tested
<1>5. ASSUME doubt = 0
      PROVE  age' \in 1..Length /\ (clock' - age') % Length = 0
  <2>1. age \in 0..Length /\ age # Length /\ (clock - age) % Length = 0
    BY <1>1, <1>5 DEF Periods, Aged
  <2>2. age' = age + 1
    BY <1>1, <2>1, Calendar DEF Older, NoStart
  <2>. DEFINE y == clock + 1
              z == y % Day
              b == -(age + 1)
  <2>3. y \in Int /\ z \in Int /\ b \in Int /\ clock' = z /\ y + b = clock - age
        /\ clock' - age' = z + b
    BY <1>1, <1>2, <2>1, <2>2, Calendar
  <2>4. z % Length = y % Length
    BY <2>3, DayRemainder
  <2>. HIDE DEF y, z, b
  <2>5. ((z % Length) + b) % Length = (z + b) % Length
    BY <2>3, Calendar, RemainderPlus
  <2>6. ((y % Length) + b) % Length = (y + b) % Length
    BY <2>3, Calendar, RemainderPlus
  <2>7. (clock' - age') % Length = 0
    BY <2>1, <2>3, <2>4, <2>5, <2>6
  <2>. QED  BY <2>1, <2>2, <2>7, Calendar
<1>6. Aged'
  <2>1. doubt = 0 => Hours # 1 /\ atBegin
    BY <1>1 DEF Periods, Aged
  <2>. QED  BY <1>1, <1>5, <2>1, Calendar DEF Aged
<1>. QED  BY <1>1, <1>4, <1>6 DEF Periods, Status, ValidIsWhole

\* The clock is set: two reports are in doubt again.
LEMMA SetPeriods == IInv /\ Periods /\ (\E d \in Shifts : SetClock(d)) => Periods'
<1>. SUFFICES ASSUME IInv, Periods, \E d \in Shifts : SetClock(d) PROVE Periods'
  OBVIOUS
<1>1. doubt' = 2 /\ UNCHANGED <<m_status, m_completed, dpc, mpc, cycled>>
  BY DEF SetClock
<1>. QED  BY <1>1 DEF Periods, Status, Tested, Aged, ValidIsWhole

LEMMA SourcePeriods == IInv /\ Periods /\ SourceCalculates => Periods'
<1>. SUFFICES ASSUME IInv, Periods, SourceCalculates PROVE Periods'
  OBVIOUS
<1>1. /\ dpc = "source" /\ dpc' = "calculate" /\ cycled' = TRUE
      /\ UNCHANGED <<m_type, m_status, PastTM, age, m_completed, atBegin, doubt, clock, mpc>>
  BY DEF SourceCalculates, report
<1>2. Hour' = Hour /\ Before' = Before
  BY <1>1 DEF Hour, Before
<1>3. Tested'
  BY <1>1, <1>2 DEF Periods, Tested
<1>4. Aged'
  BY <1>1, <1>2 DEF Periods, Tested, Aged
<1>. QED  BY <1>1, <1>3, <1>4 DEF Periods, Status, ValidIsWhole

\* A report that ends, and is not in doubt, ends with its period.
LEMMA EndPeriods ==
  ASSUME IInv, Periods, calculate, m_type = "PERIODIC", m_status = "RUNNING", CheckFinishPeriodic
  PROVE  Periods'
<1>1. /\ dpc = "calculate" /\ dpc' = "start" /\ PastTM' = Hour /\ store(m_present.mark)
      /\ UNCHANGED <<m_type, clock, mpc, cycled>>
  BY DEF calculate, CheckFinishPeriodic
<1>2. /\ m_status' = "COMPLETED" /\ age' = age /\ atBegin' = atBegin
      /\ m_completed'.whole = (atBegin /\ age = Length) /\ m_completed'.doubt = doubt
      /\ doubt' = IF doubt > 0 /\ mpc = "done" THEN doubt - 1 ELSE doubt
  BY <1>1 DEF store, Stored
<1>3. doubt \in 0..2 /\ (doubt' = 0 => doubt < 2) /\ clock \in 0..(Day - 1) /\ clock \in Int
  BY <1>2, Calendar DEF IInv, TypeOK
<1>4. PastTM # Hour /\ Hour % Period = 0
  BY DEF CheckFinishPeriodic
<1>5. ASSUME doubt < 2 PROVE Before # Hour /\ clock % Length = 0 /\ Hours # 1
  <2>1. Before # Hour
    BY <1>1, <1>4, <1>5 DEF Periods, Tested
  <2>. QED  BY <1>3, <1>4, <2>1, PeriodBegins, OneHour
<1>6. Hour' = Hour /\ Status'
  BY <1>1, <1>2 DEF Hour, Periods, Status
<1>7. Tested' /\ Aged'
  BY <1>1, <1>2, <1>3, <1>5, <1>6 DEF Tested, Aged
<1>8. ValidIsWhole'
  <2>1. SUFFICES ASSUME doubt = 0 PROVE m_completed'.whole
    BY <1>2 DEF ValidIsWhole
  <2>2. atBegin /\ age \in 0..Length /\ (clock - age) % Length = 0 /\ age # 0
    BY <1>1, <1>4, <2>1 DEF Periods, Aged
  <2>3. age = Length
    BY <1>3, <1>5, <2>1, <2>2, WholePeriod
  <2>. QED  BY <1>2, <2>2, <2>3
<1>. QED  BY <1>6, <1>7, <1>8 DEF Periods

\* A report that goes on is not as old as its period.
LEMMA RunsPeriods ==
  ASSUME IInv, Periods, calculate, m_type = "PERIODIC", m_status = "RUNNING", ~CheckFinishPeriodic
  PROVE  Periods'
<1>1. /\ dpc = "calculate" /\ dpc' = "average" /\ PastTM' = Hour
      /\ UNCHANGED <<m_type, m_status, age, m_completed, atBegin, doubt, clock, mpc, cycled>>
  BY DEF calculate
<1>2. clock \in 0..(Day - 1) /\ clock \in Int /\ cycled
  BY <1>1, Calendar DEF IInv, TypeOK, Periods, Status
<1>3. ASSUME doubt = 0 PROVE age # Length
  <2>1. SUFFICES ASSUME age = Length PROVE FALSE
    OBVIOUS
  <2>2. PastTM = Before /\ (clock - Length) % Length = 0 /\ Hours # 1
    BY <1>1, <1>3, <2>1 DEF Periods, Aged
  <2>3. clock % Length = 0
    BY <1>2, <2>2, EndAgain
  <2>4. Hour % Period = 0 /\ Before # Hour
    BY <1>2, <2>2, <2>3, PeriodEnds
  <2>. QED  BY <2>2, <2>4 DEF CheckFinishPeriodic
<1>4. Hour' = Hour /\ Status'
  BY <1>1 DEF Hour, Periods, Status
<1>5. Tested'
  BY <1>1, <1>4 DEF Periods, Tested
<1>6. Aged'
  BY <1>1, <1>2, <1>3 DEF Periods, Aged
<1>. QED  BY <1>1, <1>4, <1>5, <1>6 DEF Periods, ValidIsWhole

\* Before run has begun the report, nothing is claimed but that the mark says so.
LEMMA IdlePeriods ==
  ASSUME IInv, Periods, calculate, ~(m_type = "PERIODIC" /\ m_status = "RUNNING")
  PROVE  Periods'
<1>1. dpc = "calculate" /\ UNCHANGED <<mpc, cycled>> /\ m_status # "COMPLETED" /\ m_type' = m_type
  BY DEF calculate, Periods, Status
<1>2. m_type = "PERIODIC" => m_status = "IDLE" /\ mpc = "before"
  BY <1>1 DEF IInv, TypeOK, Periods, Status
<1>3. doubt = 2
  BY <1>1, <1>2 DEF IInv, TypeOK, Started, Periods, Tested
<1>4. CASE m_type # "PERIODIC"
  <2>1. UNCHANGED <<m_status, m_completed, doubt>> /\ dpc' = "average"
    BY <1>4 DEF calculate, report
  <2>. QED  BY <1>1, <1>3, <2>1 DEF Periods, Status, Tested, Aged, ValidIsWhole
<1>5. CASE m_type = "PERIODIC"
  <2>1. doubt' = 2
    BY <1>1, <1>2, <1>3, <1>5 DEF calculate, store
  <2>2. \/ m_completed' = m_completed
        \/ m_completed' = Stored("ILLEGAL")
    BY <1>1, <1>2, <1>5 DEF calculate, store
  <2>3. ValidIsWhole'
    BY <2>2 DEF Stored, ValidIsWhole, Periods
  <2>4. Status'
    BY <1>1, <1>2, <1>5 DEF calculate, store, Status, Periods
  <2>. QED  BY <2>1, <2>3, <2>4 DEF Periods, Tested, Aged
<1>. QED  BY <1>4, <1>5

\* A report begins in the cycle that ended the last one.
LEMMA StartPeriods == IInv /\ Periods /\ start => Periods'
<1>. SUFFICES ASSUME IInv, Periods, start PROVE Periods'
  OBVIOUS
<1>1. /\ dpc \in {"start", "first", "again"} /\ dpc' = "average"
      /\ m_status' = "RUNNING" /\ age' = 0 /\ atBegin' = (clock % Length = 0)
      /\ UNCHANGED <<m_type, PastTM, m_completed, doubt, clock, mpc, cycled>>
  BY DEF start
<1>2. clock \in Int /\ clock - 0 = clock
  BY Calendar DEF IInv, TypeOK
<1>3. Hour' = Hour
  BY <1>1 DEF Hour
<1>4. Tested'
  BY <1>1, <1>3 DEF Periods, Tested
<1>5. ASSUME doubt = 0 PROVE dpc = "start" /\ clock % Length = 0 /\ Hours # 1
  BY <1>1, <1>5 DEF Periods, Tested, Aged
<1>6. Aged'
  <2>1. doubt = 0 => atBegin'
    BY <1>1, <1>5
  <2>2. age' \in 0..Length /\ age' # Length
    BY <1>1, Calendar
  <2>3. doubt = 0 => (clock' - age') % Length = 0
    BY <1>1, <1>2, <1>5
  <2>. QED  BY <1>1, <1>5, <2>1, <2>2, <2>3 DEF Aged
<1>. QED  BY <1>1, <1>4, <1>6 DEF Periods, Status, ValidIsWhole

LEMMA AveragePeriods == IInv /\ Periods /\ average => Periods'
<1>. SUFFICES ASSUME IInv, Periods, average PROVE Periods'
  OBVIOUS
<1>1. /\ dpc = "average" /\ dpc' = "source"
      /\ UNCHANGED <<m_type, m_status, PastTM, age, m_completed, atBegin, doubt, clock, mpc, cycled>>
  BY DEF average
<1>2. Hour' = Hour /\ cycled
  BY <1>1 DEF Hour, Periods, Status
<1>3. Tested'
  BY <1>1, <1>2 DEF Periods, Tested
<1>4. Aged'
  BY <1>1, <1>2 DEF Periods, Aged
<1>. QED  BY <1>1, <1>3, <1>4 DEF Periods, Status, ValidIsWhole

\* Everything is in doubt while the main thread is in run.
LEMMA MainPeriods == IInv /\ Periods /\ Main => Periods'
<1>. SUFFICES ASSUME IInv, Periods, Main PROVE Periods'
  OBVIOUS
<1>1. doubt = 2 /\ UNCHANGED <<m_completed, doubt, dpc, cycled>>
  BY DEF IInv, TypeOK, Started, Main, RunMarks, RunTotals
<1>2. Status'
  BY DEF Periods, Status, Main, RunMarks, RunTotals
<1>. QED  BY <1>1, <1>2 DEF Periods, Tested, Aged, ValidIsWhole

LEMMA StepPeriods == IInv /\ Periods /\ [Next]_vars => Periods'
<1>. SUFFICES ASSUME IInv, Periods, [Next]_vars PROVE Periods'
  OBVIOUS
<1>1. CASE UNCHANGED vars
  BY <1>1 DEF vars, report, Periods, Status, Tested, Aged, ValidIsWhole, Hour, Before
<1>2. CASE Next
  BY <1>2, TickPeriods, SetPeriods, SourcePeriods, EndPeriods, RunsPeriods, IdlePeriods,
     StartPeriods, AveragePeriods, MainPeriods DEF Next, DataThread
<1>. QED  BY <1>1, <1>2

\* A report that is marked VALIDATE and not in doubt after a restart or a clock that
\* was set covers one whole period (rReport::CheckFinishPeriodic, store), for every
\* length of the periods and the day.
THEOREM ValidReportsAreWhole == Spec => []ValidIsWhole
<1>1. Periods => ValidIsWhole
  BY DEF Periods
<1>2. Spec => []Periods
  BY InitPeriods, StepPeriods, Invariant, PTL DEF Spec
<1>. QED  BY <1>1, <1>2, PTL

-----------------------------------------------------------------------------
(* Events.                                                                 *)

\* A set of natural numbers has a least element.
LEMMA Least ==
  ASSUME NEW T, T \subseteq Nat, T # {}
  PROVE  \E m \in T : \A k \in T : m <= k
<1>1. PICK x \in T : \A y \in T : ~ (<<y, x>> \in OpToRel(<, Nat))
  BY NatLessThanWellFounded, WFMin, Zenon
<1>2. \A y \in T : ~ (y < x)
  BY <1>1 DEF OpToRel
<1>3. x \in T /\ \A y \in T : x <= y
  BY <1>2
<1>. QED  BY <1>3

\* A set that holds 0 and the successor of each of its members holds every number.
LEMMA Naturals_Induct ==
  ASSUME NEW T, 0 \in T, \A n \in Nat : n \in T => n + 1 \in T
  PROVE  Nat \subseteq T
<1>. SUFFICES ASSUME Nat \ T # {} PROVE FALSE
  OBVIOUS
<1>1. PICK m \in Nat \ T : \A k \in Nat \ T : m <= k
  BY Least
<1>2. m # 0 /\ m - 1 \in Nat
  BY <1>1
<1>3. m - 1 \in T
  BY <1>1, <1>2
<1>. QED  BY <1>1, <1>2, <1>3

\* The function Without is defined by exists, for every list.
LEMMA KeptExists ==
  ASSUME NEW list, NEW lost, Len(list) \in Nat
  PROVE  \E Kept : /\ Kept = [i \in 0..Len(list) |->
                                IF i = 0 THEN <<>>
                                ELSE IF list[i] \in lost THEN Kept[i - 1]
                                     ELSE Append(Kept[i - 1], list[i])]
                   /\ Without(list, lost) = Kept[Len(list)]
<1>. DEFINE Next1(i, q) == IF list[i] \in lost THEN q ELSE Append(q, list[i])
            Rule(n, g) == g = [i \in 0..n |-> IF i = 0 THEN <<>> ELSE Next1(i, g[i - 1])]
            T == {n \in Nat : \E g : Rule(n, g)}
<1>1. 0 \in T
  <2>. DEFINE g == [i \in 0..0 |-> <<>>]
  <2>1. g = [i \in 0..0 |-> IF i = 0 THEN <<>> ELSE Next1(i, g[i - 1])]
    OBVIOUS
  <2>. QED  BY <2>1
<1>2. ASSUME NEW n \in Nat, n \in T PROVE n + 1 \in T
  <2>. HIDE DEF Next1
  <2>1. PICK g : Rule(n, g)
    BY <1>2
  <2>. DEFINE h == [i \in 0..(n + 1) |-> IF i = n + 1 THEN Next1(i, g[n]) ELSE g[i]]
  <2>2. \A i \in 0..n : g[i] = IF i = 0 THEN <<>> ELSE Next1(i, g[i - 1])
    BY <2>1
  <2>3. ASSUME NEW i \in 0..(n + 1)
        PROVE  h[i] = IF i = 0 THEN <<>> ELSE Next1(i, h[i - 1])
    <3>1. CASE i = 0
      BY <2>2, <3>1
    <3>2. CASE i = n + 1
      <4>1. h[i - 1] = g[n] /\ h[i] = Next1(i, g[n]) /\ i # 0
        BY <3>2
      <4>. QED  BY <4>1
    <3>3. CASE i \in 1..n
      <4>1. h[i - 1] = g[i - 1] /\ h[i] = g[i] /\ i # 0 /\ i \in 0..n
        BY <3>3
      <4>. QED  BY <2>2, <4>1
    <3>. QED  BY <3>1, <3>2, <3>3
  <2>4. h = [i \in 0..(n + 1) |-> IF i = 0 THEN <<>> ELSE Next1(i, h[i - 1])]
    BY <2>3
  <2>5. Rule(n + 1, h)
    BY <2>4
  <2>. HIDE DEF h, Rule
  <2>. QED  BY <2>5
<1>3. Len(list) \in T
  <2>. HIDE DEF T
  <2>1. Nat \subseteq T
    BY <1>1, <1>2, Naturals_Induct
  <2>. QED  BY <2>1
<1>4. \E g : g = [i \in 0..Len(list) |->
                    IF i = 0 THEN <<>>
                    ELSE IF list[i] \in lost THEN g[i - 1] ELSE Append(g[i - 1], list[i])]
  BY <1>3
<1>. DEFINE K == CHOOSE g : g = [i \in 0..Len(list) |->
                    IF i = 0 THEN <<>>
                    ELSE IF list[i] \in lost THEN g[i - 1] ELSE Append(g[i - 1], list[i])]
<1>5. K = [i \in 0..Len(list) |->
                    IF i = 0 THEN <<>>
                    ELSE IF list[i] \in lost THEN K[i - 1] ELSE Append(K[i - 1], list[i])]
  BY <1>4
<1>6. Without(list, lost) = K[Len(list)]
  BY DEF Without
<1>. HIDE DEF K
<1>. QED  BY <1>5, <1>6

\* Without keeps the others, and it is shorter when it loses the first one.
LEMMA WithoutKeeps ==
  ASSUME NEW S, NEW list \in Seq(S), NEW lost
  PROVE  /\ Without(list, lost) \in Seq(S)
         /\ ToSet(Without(list, lost)) = ToSet(list) \ lost
         /\ Len(Without(list, lost)) <= Len(list)
         /\ list # <<>> /\ Head(list) \in lost => Len(Without(list, lost)) <= Len(list) - 1
<1>. DEFINE N == Len(list)
<1>0. N \in Nat /\ DOMAIN list = 1..N /\ \A i \in 1..N : list[i] \in S
  BY LenProperties, ElementOfSeq
<1>1. PICK K : /\ K = [i \in 0..N |-> IF i = 0 THEN <<>>
                                     ELSE IF list[i] \in lost THEN K[i - 1]
                                          ELSE Append(K[i - 1], list[i])]
               /\ Without(list, lost) = K[N]
  BY <1>0, KeptExists
<1>. DEFINE Good(n) == /\ K[n] \in Seq(S)
                       /\ ToSet(K[n]) = {list[i] : i \in 1..n} \ lost
                       /\ Len(K[n]) <= n
                       /\ n > 0 /\ list[1] \in lost => Len(K[n]) <= n - 1
            T == {n \in Nat : n \in 0..N => Good(n)}
<1>2. 0 \in T
  <2>1. K[0] = <<>>
    BY <1>0, <1>1
  <2>2. <<>> \in Seq(S) /\ Len(<<>>) = 0 /\ ToSet(<<>>) = {}
    <3>1. DOMAIN <<>> = {}
      OBVIOUS
    <3>. QED  BY <3>1, EmptySeq DEF ToSet
  <2>3. {list[i] : i \in 1..0} = {}
    OBVIOUS
  <2>4. Good(0)
    BY <2>1, <2>2, <2>3
  <2>. HIDE DEF Good
  <2>. QED  BY <2>4
<1>3. ASSUME NEW n \in Nat, n \in T PROVE n + 1 \in T
  <2>1. SUFFICES ASSUME n + 1 \in 0..N PROVE Good(n + 1)
    OBVIOUS
  <2>2. Good(n) /\ n + 1 \in 1..N /\ n + 1 # 0 /\ (n + 1) - 1 = n
    BY <1>0, <1>3, <2>1
  <2>3. K[n + 1] = IF list[n + 1] \in lost THEN K[n] ELSE Append(K[n], list[n + 1])
    BY <1>1, <2>1, <2>2
  <2>4. {list[i] : i \in 1..(n + 1)} = {list[i] : i \in 1..n} \cup {list[n + 1]}
    OBVIOUS
  <2>5. list[n + 1] \in S /\ Len(K[n]) \in Nat
    BY <1>0, <2>2, LenProperties
  <2>6. CASE list[n + 1] \in lost
    <3>1. K[n + 1] = K[n]
      BY <2>3, <2>6
    <3>2. ToSet(K[n + 1]) = {list[i] : i \in 1..(n + 1)} \ lost
      BY <2>2, <2>4, <2>6, <3>1
    <3>3. Len(K[n + 1]) <= n + 1 /\ Len(K[n + 1]) <= (n + 1) - 1
      BY <2>2, <2>5, <3>1
    <3>. QED  BY <2>2, <3>1, <3>2, <3>3
  <2>7. CASE list[n + 1] \notin lost
    <3>1. K[n + 1] = Append(K[n], list[n + 1])
      BY <2>3, <2>7
    <3>2. K[n + 1] \in Seq(S) /\ Len(K[n + 1]) = Len(K[n]) + 1
      BY <2>2, <2>5, <3>1, AppendProperties
    <3>3. ToSet(K[n + 1]) = ToSet(K[n]) \cup {list[n + 1]}
      <4>1. DOMAIN K[n] = 1..Len(K[n]) /\ DOMAIN K[n + 1] = 1..(Len(K[n]) + 1)
        BY <2>2, <3>2, LenProperties
      <4>2. /\ \A i \in 1..Len(K[n]) : K[n + 1][i] = K[n][i]
            /\ K[n + 1][Len(K[n]) + 1] = list[n + 1]
        BY <2>2, <2>5, <3>1, AppendProperties
      <4>. HIDE DEF Good
      <4>3. 1..(Len(K[n]) + 1) = 1..Len(K[n]) \cup {Len(K[n]) + 1}
        BY <2>5
      <4>4. ToSet(K[n]) = {K[n + 1][i] : i \in 1..Len(K[n])}
        BY <4>1, <4>2 DEF ToSet
      <4>5. ToSet(K[n + 1]) = {K[n + 1][i] : i \in 1..(Len(K[n]) + 1)}
        BY <4>1 DEF ToSet
      <4>6. ToSet(K[n + 1]) = {K[n + 1][i] : i \in 1..Len(K[n])} \cup {K[n + 1][Len(K[n]) + 1]}
        BY <4>3, <4>5
      <4>. QED  BY <4>2, <4>4, <4>6
    <3>4. ToSet(K[n + 1]) = {list[i] : i \in 1..(n + 1)} \ lost
      BY <2>2, <2>4, <2>7, <3>3
    <3>5. n + 1 > 0 /\ list[1] \in lost => Len(K[n + 1]) <= (n + 1) - 1
      BY <2>2, <2>5, <2>7, <3>2
    <3>. QED  BY <2>2, <2>5, <3>2, <3>4, <3>5
  <2>. QED  BY <2>6, <2>7
<1>4. Good(N)
  <2>1. N \in T
    <3>. HIDE DEF T
    <3>1. Nat \subseteq T
      BY <1>2, <1>3, Naturals_Induct
    <3>. QED  BY <1>0, <3>1
  <2>. QED  BY <1>0, <2>1
<1>5. ToSet(list) = {list[i] : i \in 1..N}
  BY <1>0 DEF ToSet
<1>6. list # <<>> => N > 0 /\ Head(list) = list[1]
  BY <1>0, EmptySeq
<1>. QED  BY <1>1, <1>4, <1>5, <1>6

-----------------------------------------------------------------------------
(* The sockets of the server: who waits to be accepted is no client yet    *)
(* and waits once, and there are never more clients than MaxClient between *)
(* two steps, so that the one that is put out is the first.                *)

Waiting == ToSet(backlog)

Sockets ==
  /\ Client \in Seq(Conns) /\ Len(Client) <= MaxClient
  /\ backlog \in Seq(Conns)
  /\ \A i, j \in 1..Len(backlog) : backlog[i] = backlog[j] => i = j
  /\ peer \in [Conns -> {"none", "open", "closed"}]
  /\ Clients \cap Waiting = {}
  /\ \A c \in Clients \cup Waiting : peer[c] # "none"

LEMMA Members ==
  ASSUME NEW S, NEW q \in Seq(S)
  PROVE  ToSet(q) \subseteq S /\ ToSet(q) = {q[i] : i \in 1..Len(q)}
<1>1. DOMAIN q = 1..Len(q) /\ \A i \in 1..Len(q) : q[i] \in S
  BY LenProperties, ElementOfSeq
<1>. QED  BY <1>1 DEF ToSet

LEMMA AppendMembers ==
  ASSUME NEW S, NEW q \in Seq(S), NEW e \in S
  PROVE  ToSet(Append(q, e)) = ToSet(q) \cup {e}
<1>1. /\ Append(q, e) \in Seq(S) /\ Len(Append(q, e)) = Len(q) + 1 /\ Len(q) \in Nat
      /\ \A i \in 1..Len(q) : Append(q, e)[i] = q[i]
      /\ Append(q, e)[Len(q) + 1] = e
  BY AppendProperties, LenProperties
<1>2. 1..(Len(q) + 1) = 1..Len(q) \cup {Len(q) + 1}
  BY <1>1
<1>3. ToSet(q) = {q[i] : i \in 1..Len(q)}
      /\ ToSet(Append(q, e)) = {Append(q, e)[i] : i \in 1..(Len(q) + 1)}
  BY <1>1, Members
<1>. QED  BY <1>1, <1>2, <1>3

LEMMA InitSockets == EventsInit => Sockets
<1>. SUFFICES ASSUME EventsInit PROVE Sockets
  OBVIOUS
<1>1. /\ peer = [c \in Conns |-> "none"] /\ backlog = <<>> /\ Client = <<>>
      /\ MaxClient \in Nat
  BY TCPServerAssumption DEF EventsInit, TCPInit
<1>2. <<>> \in Seq(Conns) /\ Len(<<>>) = 0
  BY EmptySeq
<1>3. ToSet(<<>>) = {}
  <2>1. DOMAIN <<>> = {}
    OBVIOUS
  <2>. QED  BY <2>1 DEF ToSet
<1>. QED  BY <1>1, <1>2, <1>3 DEF Sockets, Clients, Waiting

\* A peer connects, sends or leaves.
LEMMA PeersSockets == Sockets /\ Peers => Sockets'
<1>. SUFFICES ASSUME Sockets, Peers PROVE Sockets'
  OBVIOUS
<1>. USE DEF Sockets, Clients, Waiting, server
<1>1. ASSUME NEW c \in Conns, Connects(c) PROVE Sockets'
  <2>1. /\ peer[c] = "none" /\ peer' = [peer EXCEPT ![c] = "open"]
        /\ backlog' = Append(backlog, c) /\ Client' = Client
    BY <1>1 DEF Connects
  <2>2. c \notin Waiting /\ c \notin Clients
    BY <2>1
  <2>3. ToSet(backlog') = Waiting \cup {c} /\ Waiting = {backlog[i] : i \in 1..Len(backlog)}
    BY <2>1, AppendMembers, Members
  <2>4. /\ backlog' \in Seq(Conns) /\ Len(backlog') = Len(backlog) + 1 /\ Len(backlog) \in Nat
        /\ \A i \in 1..Len(backlog) : backlog'[i] = backlog[i]
        /\ backlog'[Len(backlog) + 1] = c
    BY <2>1, AppendProperties, LenProperties
  <2>5. \A i, j \in 1..Len(backlog') : backlog'[i] = backlog'[j] => i = j
    <3>1. \A i \in 1..Len(backlog) : backlog'[i] # c
      BY <2>2, <2>3, <2>4
    <3>2. \A i \in 1..Len(backlog') : i \in 1..Len(backlog) \/ i = Len(backlog) + 1
      BY <2>4
    <3>. QED  BY <2>4, <3>1, <3>2
  <2>6. peer' \in [Conns -> {"none", "open", "closed"}]
        /\ \A k \in Conns : peer'[k] = IF k = c THEN "open" ELSE peer[k]
    BY <2>1
  <2>7. Clients \subseteq Conns /\ Waiting \subseteq Conns
    BY Members
  <2>. QED  BY <2>1, <2>2, <2>3, <2>4, <2>5, <2>6, <2>7
<1>2. ASSUME NEW c \in Conns, Sends(c) PROVE Sockets'
  BY <1>2 DEF Sends
<1>3. ASSUME NEW c \in Conns, Leaves(c) PROVE Sockets'
  <2>1. /\ peer[c] = "open" /\ peer' = [peer EXCEPT ![c] = "closed"]
        /\ backlog' = backlog /\ Client' = Client
    BY <1>3 DEF Leaves
  <2>2. peer' \in [Conns -> {"none", "open", "closed"}]
        /\ \A k \in Conns : peer'[k] = IF k = c THEN "closed" ELSE peer[k]
    BY <2>1
  <2>3. Clients \subseteq Conns /\ Waiting \subseteq Conns
    BY Members
  <2>. QED  BY <2>1, <2>2, <2>3
<1>. QED  BY <1>1, <1>2, <1>3 DEF Peers

\* The first of the backlog is accepted, and the clients are as many as before at most.
LEMMA Accepted ==
  ASSUME Sockets, NEW c \in Conns, NEW d, accept(c, d)
  PROVE  /\ Sockets'
         /\ c \notin Clients
         /\ Clients' \subseteq Clients \cup {c}
         /\ c \in Clients' \/ Clients' = Clients
         /\ \A k \in (Clients \cup {c}) \ Clients' :
              \/ peer'[k] = "none" /\ k = c
              \/ peer'[k] = "none" /\ k = Head(Client) /\ Len(Client) = MaxClient
<1>. USE DEF Sockets, Clients, Waiting
<1>1. /\ backlog # <<>> /\ c = Head(backlog) /\ backlog' = Tail(backlog)
  BY DEF accept
<1>2. c \in Waiting /\ c \notin Clients /\ ToSet(backlog') = Waiting \ {c}
      /\ backlog' \in Seq(Conns)
      /\ \A i, j \in 1..Len(backlog') : backlog'[i] = backlog'[j] => i = j
  <2>1. /\ backlog' \in Seq(Conns) /\ Len(backlog') = Len(backlog) - 1 /\ Len(backlog) \in Nat \ {0}
        /\ \A i \in 1..Len(backlog') : backlog'[i] = backlog[i + 1]
        /\ c = backlog[1]
    BY <1>1, HeadTailProperties, EmptySeq
  <2>2. Waiting = {backlog[i] : i \in 1..Len(backlog)}
        /\ ToSet(backlog') = {backlog'[i] : i \in 1..Len(backlog')}
    BY <2>1, Members
  <2>3. \A i \in 1..Len(backlog') : i + 1 \in 2..Len(backlog)
    BY <2>1
  <2>4. \A j \in 2..Len(backlog) : j - 1 \in 1..Len(backlog') /\ backlog'[j - 1] = backlog[j]
    BY <2>1
  <2>5. 1 \in 1..Len(backlog) /\ 1..Len(backlog) = {1} \cup 2..Len(backlog)
    BY <2>1
  <2>6. ToSet(backlog') \subseteq Waiting \ {c}
    BY <2>1, <2>2, <2>3, <2>5
  <2>7. ASSUME NEW x \in Waiting \ {c} PROVE x \in ToSet(backlog')
    <3>1. PICK j \in 1..Len(backlog) : x = backlog[j]
      BY <2>2
    <3>2. j \in 2..Len(backlog)
      BY <2>1, <2>5, <2>7, <3>1
    <3>. QED  BY <2>2, <2>4, <3>1, <3>2
  <2>8. \A i, j \in 1..Len(backlog') : backlog'[i] = backlog'[j] => i = j
    BY <2>1, <2>3, <2>5
  <2>9. c \in Waiting
    BY <2>1, <2>2, <2>5
  <2>10. ToSet(backlog') = Waiting \ {c}
    BY <2>6, <2>7
  <2>. QED  BY <2>1, <2>8, <2>9, <2>10
<1>. DEFINE list == Append(Client, c)
            lost == Surplus(list)
<1>3. /\ list \in Seq(Conns) /\ list # <<>> /\ Len(list) = Len(Client) + 1
      /\ Len(Client) \in Nat /\ MaxClient \in Nat \ {0}
      /\ ToSet(list) = Clients \cup {c}
      /\ Head(list) = IF Client = <<>> THEN c ELSE Head(Client)
      /\ Client # <<>> => Head(Client) \in Clients
  <2>1. Client # <<>> => Head(Client) \in Clients
    <3>1. Client # <<>> => Head(Client) = Client[1] /\ 1 \in 1..Len(Client)
      BY EmptySeq
    <3>. QED  BY <3>1, Members
  <2>2. ToSet(list) = Clients \cup {c}
    BY AppendMembers
  <2>. QED  BY <2>1, <2>2, AppendProperties, HeadTailAppend, LenProperties, TCPServerAssumption
<1>4. lost = IF Len(list) > MaxClient THEN {Head(list)} ELSE {}
  BY DEF Surplus
<1>5. Len(list) > MaxClient => Client # <<>> /\ Len(Client) = MaxClient
  BY <1>3, EmptySeq
<1>6. Clients \subseteq Conns /\ Waiting \subseteq Conns
  BY Members
<1>7. CASE /\ Client' = Without(list, lost)
           /\ peer' = [k \in Conns |-> IF k \in lost THEN "none" ELSE peer[k]]
  <2>. HIDE DEF list, lost
  <2>1. /\ Client' \in Seq(Conns) /\ ToSet(Client') = (Clients \cup {c}) \ lost
        /\ Len(Client') <= MaxClient
    <3>1. /\ Client' \in Seq(Conns) /\ ToSet(Client') = (Clients \cup {c}) \ lost
          /\ Len(Client') <= Len(list)
          /\ Head(list) \in lost => Len(Client') <= Len(list) - 1
      <4>1. /\ Without(list, lost) \in Seq(Conns)
            /\ ToSet(Without(list, lost)) = ToSet(list) \ lost
            /\ Len(Without(list, lost)) <= Len(list)
            /\ Head(list) \in lost => Len(Without(list, lost)) <= Len(list) - 1
        BY <1>3, WithoutKeeps
      <4>. QED  BY <1>3, <1>7, <4>1
    <3>2. Len(Client') \in Nat
      BY <3>1, LenProperties
    <3>. QED  BY <1>3, <1>4, <3>1, <3>2
  <2>2. lost \subseteq Clients /\ \A k \in lost : k = Head(Client) /\ Len(Client) = MaxClient
    BY <1>3, <1>4, <1>5
  <2>3. \A k \in Conns : peer'[k] = IF k \in lost THEN "none" ELSE peer[k]
    BY <1>7
  <2>4. peer' \in [Conns -> {"none", "open", "closed"}]
    BY <1>7
  <2>5. Sockets'
    BY <1>2, <1>6, <2>1, <2>2, <2>3, <2>4
  <2>. QED  BY <1>2, <1>6, <2>1, <2>2, <2>3, <2>5
<1>8. CASE /\ peer' = [peer EXCEPT ![c] = "none"] /\ Client' = Client
  <2>1. peer' \in [Conns -> {"none", "open", "closed"}]
        /\ \A k \in Conns : peer'[k] = IF k = c THEN "none" ELSE peer[k]
    BY <1>8
  <2>2. Sockets'
    BY <1>2, <1>6, <1>8, <2>1
  <2>. QED  BY <1>2, <1>8, <2>1, <2>2
<1>. QED  BY <1>7, <1>8 DEF accept

\* The turn drops clients, and nobody else.
LEMMA Served ==
  ASSUME Sockets, NEW refused, clients(refused)
  PROVE  /\ Sockets'
         /\ Clients' \subseteq Clients
         /\ \A c \in Clients' : peer'[c] # "none"
         /\ \A c \in Clients \ Clients' :
              c \in exfds \/ c \in unread \/ peer[c] = "closed"
<1>. USE DEF Sockets, Clients, Waiting
<1>. DEFINE gone == (Clients \cap exfds) \cup refused \cup {c \in Read : AtEnd(c)}
<1>1. /\ refused \subseteq Read \cap unread
      /\ Client' = Without(Client, gone)
      /\ peer' = [c \in Conns |-> IF c \in gone THEN "none" ELSE peer[c]]
      /\ backlog' = backlog
  BY DEF clients
<1>2. gone \subseteq Clients
      /\ \A c \in gone : c \in exfds \/ c \in unread \/ peer[c] = "closed"
  BY <1>1 DEF Read, AtEnd
<1>. HIDE DEF gone
<1>3. Client' \in Seq(Conns) /\ ToSet(Client') = Clients \ gone /\ Len(Client') <= Len(Client)
  BY <1>1, WithoutKeeps
<1>4. Len(Client') <= MaxClient
  BY <1>3, LenProperties, TCPServerAssumption
<1>5. Clients \subseteq Conns /\ Waiting \subseteq Conns
  BY Members
<1>6. peer' \in [Conns -> {"none", "open", "closed"}]
      /\ \A c \in Conns : peer'[c] = IF c \in gone THEN "none" ELSE peer[c]
  BY <1>1
<1>7. Sockets'
  BY <1>1, <1>2, <1>3, <1>4, <1>5, <1>6
<1>. QED  BY <1>2, <1>3, <1>7

LEMMA StepSockets == Sockets /\ [EventsNext]_eventsVars => Sockets'
<1>. SUFFICES ASSUME Sockets, [EventsNext]_eventsVars PROVE Sockets'
  OBVIOUS
<1>1. CASE UNCHANGED <<peers, Client>>
  BY <1>1 DEF Sockets, peers, Clients, Waiting
<1>2. CASE Peers
  BY <1>2, PeersSockets
<1>3. CASE \E c \in Conns, d \in Fds : accept(c, d)
  BY <1>3, Accepted
<1>4. CASE clients(ClientRecv)
  BY <1>4, Served
<1>5. ASSUME add \/ acceptNone \/ select \/ selectFails \/ UNCHANGED eventsVars
      PROVE  UNCHANGED <<peers, Client>>
  BY <1>5 DEF add, acceptNone, select, selectFails, eventsVars, tcpVars, server
<1>. QED  BY <1>1, <1>2, <1>3, <1>4, <1>5 DEF EventsNext, Server, Accepts, Polls, Serves

\* No connection waits twice or is a client while it waits, every client has a peer, and
\* no step of the server leaves more than MaxClient clients (rTCPClass::Proccesing).
THEOREM SocketsHold == EventsSpec => []Sockets
BY InitSockets, StepSockets, PTL DEF EventsSpec

\* Who neither sends nor leaves is put out by the limit, as the first, or by an
\* error of select (rTCPClass::Proccesing).
THEOREM QuietOnesStay == EventsSpec => QuietStays
<1>1. ASSUME Sockets, [EventsNext]_eventsVars, NEW c \in Clients,
             peer[c] = "open", c \notin unread, c \notin ToSet(Client')
      PROVE  c \in exfds \/ (c = Head(Client) /\ Len(Client) = MaxClient)
  <2>1. CASE \E k \in Conns, d \in Fds : accept(k, d)
    <3>1. PICK k \in Conns, d \in Fds : accept(k, d)
      BY <2>1
    <3>2. k \notin Clients /\ (k = c \/ (c = Head(Client) /\ Len(Client) = MaxClient))
      BY <1>1, <3>1, Accepted DEF Clients
    <3>. QED  BY <1>1, <3>2
  <2>2. CASE clients(ClientRecv)
    BY <1>1, <2>2, Served DEF Clients
  <2>3. CASE UNCHANGED Client
    BY <1>1, <2>3 DEF Clients
  <2>4. ASSUME add \/ acceptNone \/ select \/ selectFails \/ Peers \/ UNCHANGED eventsVars
        PROVE  UNCHANGED Client
    BY <2>4 DEF add, acceptNone, select, selectFails, Peers, Connects, Sends, Leaves,
                eventsVars, tcpVars, server
  <2>. QED  BY <1>1, <2>1, <2>2, <2>3, <2>4 DEF EventsNext, Server, Accepts, Polls, Serves
<1>2. Sockets /\ [EventsNext]_eventsVars =>
        [\A c \in Clients :
           peer[c] = "open" /\ c \notin unread /\ c \notin ToSet(Client')
           => c \in exfds \/ (c = Head(Client) /\ Len(Client) = MaxClient)]_tcpVars
  BY <1>1
<1>. QED  BY <1>2, SocketsHold, PTL DEF EventsSpec, QuietStays

-----------------------------------------------------------------------------
(* The queue. *)

\* The inductive invariant: the queue holds no more than was added.
EventsIInv == EventsTypeOK /\ NoneLost /\ Len(m_list) <= added

\* What a queue holds, when it is empty and when an event is appended.
LEMMA Queue ==
  ASSUME NEW S, NEW q \in Seq(S), NEW e \in S
  PROVE  /\ ToSet(<<>>) = {}
         /\ ToSet(Append(q, e)) = ToSet(q) \cup {e}
         /\ ToSet(q) \subseteq S
BY DEF ToSet

LEMMA EventsInitInv == EventsInit => EventsIInv
<1>. SUFFICES ASSUME EventsInit PROVE EventsIInv
  OBVIOUS
<1>1. MAX_EVENT \in Nat /\ MaxAdds \in Nat
  BY EventsAssumption
<1>2. EventsTypeOK
  BY <1>1 DEF EventsInit, EventsTypeOK
<1>3. NoneLost
  BY DEF EventsInit, NoneLost, ToSet
<1>. QED  BY <1>2, <1>3 DEF EventsInit, EventsIInv

\* Any thread adds an event.
LEMMA AddInv == EventsIInv /\ add => EventsIInv'
<1>. SUFFICES ASSUME EventsIInv, add PROVE EventsIInv'
  OBVIOUS
<1>. USE DEF EventsIInv
<1>1. /\ added < MaxAdds /\ added' = added + 1 /\ UNCHANGED <<sent, since, anyone>>
      /\ m_list' = Append(m_list, added') /\ m_archive' = Archived(added')
  BY DEF add, Queued, history
<1>2. MAX_EVENT \in Nat /\ MaxAdds \in Nat /\ added' \in 1..MaxAdds
  BY <1>1, EventsAssumption DEF EventsTypeOK
<1>3. m_list' \in Seq(1..MaxAdds) /\ Len(m_list') = Len(m_list) + 1
  BY <1>1, <1>2 DEF EventsTypeOK
<1>4. m_archive' \in Seq(1..MaxAdds) /\ Len(m_archive') <= MAX_EVENT + 1
  <2>. DEFINE n == Len(m_archive)
              cut == IF n > MAX_EVENT THEN SubSeq(m_archive, n - MAX_EVENT + 1, n) ELSE m_archive
  <2>1. m_archive \in Seq(1..MaxAdds) /\ n \in Nat
    BY DEF EventsTypeOK
  <2>2. cut \in Seq(1..MaxAdds) /\ Len(cut) <= MAX_EVENT
    <3>1. CASE n > MAX_EVENT
      <4>1. n - MAX_EVENT + 1 \in 1..(n + 1) /\ n \in 0..n
        BY <1>2, <2>1, <3>1
      <4>2. \A i \in (n - MAX_EVENT + 1)..n : m_archive[i] \in 1..MaxAdds
        BY <1>2, <2>1, <3>1, ElementOfSeq
      <4>3. SubSeq(m_archive, n - MAX_EVENT + 1, n) \in Seq(1..MaxAdds)
            /\ Len(SubSeq(m_archive, n - MAX_EVENT + 1, n)) = MAX_EVENT
        <5>. DEFINE m == n - MAX_EVENT + 1
        <5>1. m \in 1..(n + 1) /\ n \in Nat /\ n - m + 1 = MAX_EVENT
          BY <1>2, <2>1, <3>1
        <5>2. \A i \in m..n : m_archive[i] \in 1..MaxAdds
          BY <4>2
        <5>. HIDE DEF m, n
        <5>3. /\ SubSeq(m_archive, m, n) \in Seq(1..MaxAdds)
              /\ Len(SubSeq(m_archive, m, n)) = IF m <= n THEN n - m + 1 ELSE 0
          BY <5>1, <5>2, SubSeqProperties
        <5>4. Len(SubSeq(m_archive, m, n)) = MAX_EVENT
          BY <1>2, <5>1, <5>3
        <5>. QED  BY <5>3, <5>4 DEF m
      <4>. QED  BY <1>2, <3>1, <4>3
    <3>2. CASE ~(n > MAX_EVENT)
      BY <1>2, <2>1, <3>2
    <3>. QED  BY <3>1, <3>2
  <2>3. m_archive' = Append(cut, added')
    BY <1>1 DEF Archived
  <2>. HIDE DEF cut
  <2>. QED  BY <1>2, <2>2, <2>3
<1>5. EventsTypeOK'
  BY <1>1, <1>2, <1>3, <1>4 DEF EventsTypeOK
<1>6. NoneLost'
  <2>1. ToSet(m_list') = ToSet(m_list) \cup {added'}
    BY <1>1, <1>2, Queue DEF EventsTypeOK
  <2>2. 1..added' = (1..added) \cup {added'}
    BY <1>1 DEF EventsTypeOK
  <2>. QED  BY <1>1, <2>1, <2>2 DEF NoneLost
<1>7. Len(m_list') <= added'
  BY <1>1, <1>3 DEF EventsTypeOK
<1>. QED  BY <1>5, <1>6, <1>7

\* A turn hands the queue to its clients, or keeps it.
LEMMA ServeInv == EventsIInv /\ Serves => EventsIInv'
<1>. SUFFICES ASSUME EventsIInv, Serves PROVE EventsIInv'
  OBVIOUS
<1>. USE DEF EventsIInv
<1>1. /\ UNCHANGED <<added, m_archive>>
      /\ since' = [c \in Conns |-> IF Stays(c) THEN since[c] ELSE 0]
      /\ Deliver
  BY DEF Serves
<1>2. since' \in [Conns -> 0..(MaxAdds + 1)] /\ MaxAdds \in Nat
  BY <1>1, EventsAssumption DEF EventsTypeOK
<1>3. <<>> \in Seq(1..MaxAdds)
  BY EmptySeq
<1>4. /\ sent' \in [Conns -> Seq(1..MaxAdds)]
      /\ \/ UNCHANGED <<m_list, anyone>>
         \/ m_list' = <<>> /\ anyone' = anyone \cup ToSet(m_list)
  <2>1. CASE Client' = <<>>
    <3>1. sent' = [c \in Conns |-> <<>>] /\ UNCHANGED <<m_list, anyone>>
      BY <1>1, <2>1 DEF Deliver
    <3>. QED  BY <1>3, <3>1
  <2>2. CASE Client' # <<>>
    <3>1. sent' = [c \in Conns |-> IF c \in ToSet(Client') THEN sent[c] \o m_list ELSE <<>>]
      BY <1>1, <2>2 DEF Deliver
    <3>2. \A c \in Conns : sent[c] \o m_list \in Seq(1..MaxAdds)
      BY ConcatProperties DEF EventsTypeOK
    <3>3. m_list' = <<>> /\ anyone' = anyone \cup ToSet(m_list)
      BY <1>1, <2>2 DEF Deliver
    <3>. QED  BY <1>3, <3>1, <3>2, <3>3
  <2>. QED  BY <2>1, <2>2
<1>5. ToSet(m_list) \subseteq 1..MaxAdds /\ ToSet(<<>>) = {}
  <2>1. \A i \in DOMAIN m_list : m_list[i] \in 1..MaxAdds
    BY ElementOfSeq, LenProperties DEF EventsTypeOK
  <2>. QED  BY <2>1 DEF ToSet
<1>6. EventsTypeOK' /\ Len(m_list') <= added'
  <2>1. anyone' \subseteq 1..MaxAdds
    BY <1>4, <1>5 DEF EventsTypeOK
  <2>2. Len(<<>>) <= added
    BY EmptySeq DEF EventsTypeOK
  <2>3. m_list' \in Seq(1..MaxAdds) /\ Len(m_list') <= added'
    BY <1>1, <1>4, <1>3, <2>2 DEF EventsTypeOK
  <2>. QED  BY <1>1, <1>2, <1>4, <2>1, <2>3 DEF EventsTypeOK
<1>7. NoneLost'
  BY <1>1, <1>4, <1>5 DEF NoneLost
<1>. QED  BY <1>6, <1>7

\* The rest of the turn: a new client is sent the queue, which stays.
LEMMA AcceptInv == EventsIInv /\ (Accepts \/ Polls) => EventsIInv'
<1>. SUFFICES ASSUME EventsIInv, Accepts \/ Polls PROVE EventsIInv'
  OBVIOUS
<1>. USE DEF EventsIInv
<1>1. UNCHANGED <<queue, anyone>>
  BY DEF Accepts, Polls, NewClient, queue, history
<1>2. sent' \in [Conns -> Seq(1..MaxAdds)] /\ since' \in [Conns -> 0..(MaxAdds + 1)]
  <2>1. CASE UNCHANGED history
    BY <2>1 DEF history, EventsTypeOK
  <2>2. ASSUME NEW c \in Conns, NewClient(c)
        PROVE  sent' \in [Conns -> Seq(1..MaxAdds)] /\ since' \in [Conns -> 0..(MaxAdds + 1)]
    <3>1. added - Len(m_list) + 1 \in 0..(MaxAdds + 1) /\ 0 \in 0..(MaxAdds + 1)
      BY EventsAssumption DEF EventsTypeOK
    <3>2. sent' = [k \in Conns |-> IF Stays(k) THEN IF k = c THEN m_list ELSE sent[k] ELSE <<>>]
      BY <2>2 DEF NewClient
    <3>3. since' = [k \in Conns |-> IF Stays(k) THEN IF k = c THEN added - Len(m_list) + 1
                                                              ELSE since[k]
                                     ELSE 0]
      BY <2>2 DEF NewClient
    <3>4. sent' \in [Conns -> Seq(1..MaxAdds)]
      BY <3>2, EmptySeq DEF EventsTypeOK
    <3>5. since' \in [Conns -> 0..(MaxAdds + 1)]
      BY <3>1, <3>3 DEF EventsTypeOK
    <3>. QED  BY <3>4, <3>5
  <2>. QED  BY <2>1, <2>2 DEF Accepts, Polls
<1>3. EventsTypeOK' /\ Len(m_list') <= added' /\ NoneLost'
  BY <1>1, <1>2 DEF queue, EventsTypeOK, NoneLost
<1>. QED  BY <1>3

LEMMA EventsStepInv == EventsIInv /\ [EventsNext]_eventsVars => EventsIInv'
<1>. SUFFICES ASSUME EventsIInv, [EventsNext]_eventsVars PROVE EventsIInv'
  OBVIOUS
<1>1. CASE UNCHANGED <<queue, history>>
  BY <1>1 DEF queue, history, EventsIInv, EventsTypeOK, NoneLost
<1>2. CASE add \/ Server
  BY <1>2, AddInv, ServeInv, AcceptInv DEF Server
<1>. QED  BY <1>1, <1>2 DEF EventsNext, eventsVars

LEMMA EventsInvariant == EventsSpec => []EventsIInv
BY EventsInitInv, EventsStepInv, PTL DEF EventsSpec

\* What the manager keeps has its type, and the archive is bounded (rEventManager::add).
THEOREM EventsTypeCorrect == EventsSpec => []EventsTypeOK
<1>1. EventsIInv => EventsTypeOK
  BY DEF EventsIInv
<1>. QED  BY EventsInvariant, <1>1, PTL

\* Every event that was added waits in m_list or was sent to some client by a turn
\* (rEventManager::Proccesing).
THEOREM NothingForgotten == EventsSpec => []NoneLost
<1>1. EventsIInv => NoneLost
  BY DEF EventsIInv
<1>. QED  BY EventsInvariant, <1>1, PTL

-----------------------------------------------------------------------------
(* What the clients were sent.  Every client begins with the first event   *)
(* that was undelivered when it came, m_list is always the run of the last *)
(* events, which a new client is sent twice, and a connection that is no   *)
(* client was sent nothing.                                                *)

Order ==
  /\ EventsTypeOK /\ Len(m_list) <= added
  /\ m_list = Run(added - Len(m_list) + 1, added)
  /\ SentInOrder
  /\ \A c \in Clients : since[c] \in 1..(added + 1)
  /\ \A c \in Conns \ Clients : sent[c] = <<>>

\* A run with one more event.
LEMMA RunGrows ==
  ASSUME NEW a \in Int, NEW b \in Int, a <= b + 1
  PROVE  /\ Run(a, b) \in Seq(Int) /\ Len(Run(a, b)) = b - a + 1
         /\ Append(Run(a, b), b + 1) = Run(a, b + 1)
<1>1. /\ Run(a, b) \in Seq(Int) /\ Len(Run(a, b)) = b - a + 1
      /\ Run(a, b + 1) \in Seq(Int) /\ Len(Run(a, b + 1)) = (b - a + 1) + 1
  BY DEF Run
<1>2. /\ Append(Run(a, b), b + 1) \in Seq(Int)
      /\ Len(Append(Run(a, b), b + 1)) = (b - a + 1) + 1
      /\ \A i \in 1..(b - a + 1) : Append(Run(a, b), b + 1)[i] = Run(a, b)[i]
      /\ Append(Run(a, b), b + 1)[(b - a + 1) + 1] = b + 1
  BY <1>1, AppendProperties
<1>3. \A i \in 1..(b - a + 1) : Run(a, b)[i] = a + i - 1
  BY DEF Run
<1>4. \A i \in 1..((b - a + 1) + 1) : Run(a, b + 1)[i] = a + i - 1
  BY DEF Run
<1>5. \A i \in 1..((b - a + 1) + 1) : Append(Run(a, b), b + 1)[i] = Run(a, b + 1)[i]
  <2>1. ASSUME NEW i \in 1..((b - a + 1) + 1) PROVE Append(Run(a, b), b + 1)[i] = Run(a, b + 1)[i]
    <3>0. i \in 1..(b - a + 1) \/ i = (b - a + 1) + 1
      OBVIOUS
    <3>1. CASE i \in 1..(b - a + 1)
      BY <1>2, <1>3, <1>4, <3>1
    <3>2. CASE i = (b - a + 1) + 1
      <4>1. Append(Run(a, b), b + 1)[i] = b + 1
        BY <1>2, <3>2
      <4>2. Run(a, b + 1)[i] = a + i - 1 /\ a + i - 1 = b + 1
        BY <1>4, <3>2
      <4>. QED  BY <4>1, <4>2
    <3>. QED  BY <3>0, <3>1, <3>2
  <2>. QED  BY <2>1
<1>. QED  BY <1>1, <1>2, <1>5, SeqEqual

LEMMA RunEmpty ==
  ASSUME NEW b \in Int
  PROVE  Run(b + 1, b) = <<>>
<1>1. Run(b + 1, b) \in Seq(Int) /\ Len(Run(b + 1, b)) = 0
  BY RunGrows
<1>. QED  BY <1>1, EmptySeq

LEMMA InitOrder == EventsInit => Order
<1>. SUFFICES ASSUME EventsInit PROVE Order
  OBVIOUS
<1>1. EventsTypeOK /\ Len(m_list) <= added
  BY EventsInitInv DEF EventsIInv
<1>2. /\ Client = <<>> /\ added = 0 /\ m_list = <<>> /\ sent = [c \in Conns |-> <<>>]
  BY DEF EventsInit, TCPInit
<1>3. Clients = {}
  <2>1. DOMAIN <<>> = {}
    OBVIOUS
  <2>. QED  BY <1>2, <2>1 DEF Clients, ToSet
<1>4. m_list = Run(added - Len(m_list) + 1, added)
  <2>1. Run(0 + 1, 0) = <<>>
    BY RunEmpty
  <2>. QED  BY <1>2, <2>1, EmptySeq
<1>. QED  BY <1>1, <1>2, <1>3, <1>4 DEF Order, SentInOrder

LEMMA ConcatInts ==
  ASSUME NEW p \in Seq(Int), NEW q \in Seq(Int), NEW r \in Seq(Int)
  PROVE  (p \o q) \o r = p \o (q \o r)
  BY ConcatAssociative

\* An event is added behind those that wait.
LEMMA AddOrder == EventsIInv /\ Sockets /\ Order /\ add => Order'
<1>. SUFFICES ASSUME EventsIInv, Sockets, Order, add PROVE Order'
  OBVIOUS
<1>1. /\ added' = added + 1 /\ m_list' = Append(m_list, added + 1)
      /\ UNCHANGED <<sent, since>> /\ Clients' = Clients
  BY DEF add, Queued, history, tcpVars, server, Clients
<1>2. EventsTypeOK' /\ Len(m_list') <= added'
  BY AddInv DEF EventsIInv
<1>3. /\ m_list \in Seq(Int) /\ added \in Nat /\ Len(m_list) \in Nat /\ Len(m_list) <= added
      /\ \A c \in Conns : sent[c] \in Seq(Int)
  <2>1. m_list \in Seq(1..MaxAdds) /\ \A c \in Conns : sent[c] \in Seq(1..MaxAdds)
    BY DEF Order, EventsTypeOK
  <2>2. 1..MaxAdds \subseteq Int /\ added \in Nat
    BY DEF Order, EventsTypeOK
  <2>3. m_list \in Seq(Int) /\ \A c \in Conns : sent[c] \in Seq(Int)
    BY <2>1, <2>2, SeqMonotonic
  <2>. QED  BY <2>2, <2>3, LenProperties DEF Order
<1>4. Clients \subseteq Conns
  BY Members DEF Sockets, Clients
<1>5. m_list' = Run(added' - Len(m_list') + 1, added')
  <2>. DEFINE a == added - Len(m_list) + 1
  <2>1. a \in Int /\ a <= added + 1 /\ added \in Int
    BY <1>3
  <2>2. m_list = Run(a, added)
    BY DEF Order
  <2>3. Len(m_list') = Len(m_list) + 1
    BY <1>1, <1>3, AppendProperties
  <2>4. added' - Len(m_list') + 1 = a
    BY <1>1, <1>3, <2>3
  <2>. HIDE DEF a
  <2>5. Append(Run(a, added), added + 1) = Run(a, added + 1)
    BY <2>1, RunGrows
  <2>. QED  BY <1>1, <2>2, <2>4, <2>5
<1>6. ASSUME NEW c \in Clients
      PROVE  \E b \in (since[c] - 1)..added' :
               sent[c] \o m_list' = Run(since[c], b) \o Run(since[c], added')
  <2>1. PICK b \in (since[c] - 1)..added : sent[c] \o m_list = Run(since[c], b) \o Run(since[c], added)
    BY DEF Order, SentInOrder
  <2>2. since[c] \in 1..(added + 1)
    BY DEF Order
  <2>. DEFINE x == sent[c]
              y == <<added + 1>>
              head == Run(since[c], b)
              body == Run(since[c], added)
              longer == Run(since[c], added + 1)
  <2>3. x \in Seq(Int) /\ y \in Seq(Int) /\ m_list \in Seq(Int) /\ added + 1 \in Int
    BY <1>3, <1>4
  <2>4. head \in Seq(Int) /\ body \in Seq(Int) /\ Append(body, added + 1) = longer
    <3>1. since[c] \in Int /\ added \in Int /\ b \in Int /\ since[c] <= added + 1 /\ since[c] <= b + 1
      BY <1>3, <2>2
    <3>. QED  BY <3>1, RunGrows
  <2>5. x \o m_list = head \o body
    BY <2>1
  <2>6. b \in (since[c] - 1)..added'
    BY <1>1, <1>3, <2>2
  <2>7. y = <<added + 1>>
    OBVIOUS
  <2>. HIDE DEF x, y, head, body, longer
  <2>8. Append(m_list, added + 1) = m_list \o y /\ Append(body, added + 1) = body \o y
    BY <2>3, <2>4, <2>7, AppendIsConcat
  <2>9. (x \o m_list) \o y = x \o (m_list \o y)
    BY <2>3, ConcatInts, Zenon
  <2>10. (head \o body) \o y = head \o (body \o y)
    <3>1. head \in Seq(Int) /\ body \in Seq(Int) /\ y \in Seq(Int)
      BY <2>3, <2>4
    <3>. QED  BY <3>1, ConcatInts, Zenon
  <2>11. x \o m_list' = head \o longer
    <3>1. m_list' = m_list \o y
      BY <1>1, <2>8, Zenon
    <3>2. longer = body \o y
      BY <2>4, <2>8, Zenon
    <3>. QED  BY <2>5, <2>9, <2>10, <3>1, <3>2, Zenon
  <2>. QED  BY <1>1, <2>6, <2>11 DEF x, head, longer
<1>7. SentInOrder'
  BY <1>1, <1>6 DEF SentInOrder
<1>8. \A c \in Clients' : since'[c] \in 1..(added' + 1)
  <2>1. \A c \in Clients : since[c] \in 1..(added + 1)
    BY DEF Order
  <2>. QED  BY <1>1, <1>3, <2>1
<1>9. \A c \in Conns \ Clients' : sent'[c] = <<>>
  BY <1>1 DEF Order
<1>. QED  BY <1>2, <1>5, <1>7, <1>8, <1>9 DEF Order

\* A new client is due what waits; who goes is forgotten.
LEMMA AcceptOrder ==
  ASSUME EventsIInv, Sockets, Order, NEW c \in Conns, NEW d, accept(c, d), NewClient(c),
         UNCHANGED <<added, m_archive, anyone>>
  PROVE  Order'
<1>1. /\ c \notin Clients /\ Clients' \subseteq Clients \cup {c} /\ Sockets'
      /\ \A k \in (Clients \cup {c}) \ Clients' : peer'[k] = "none"
  BY Accepted
<1>2. /\ \A k \in Conns : sent'[k] = IF Stays(k) THEN IF k = c THEN m_list ELSE sent[k] ELSE <<>>
      /\ \A k \in Conns : since'[k] = IF Stays(k) THEN IF k = c THEN added - Len(m_list) + 1
                                                                ELSE since[k]
                                      ELSE 0
      /\ m_list' = m_list /\ added' = added
      /\ sent' = [k \in Conns |-> IF Stays(k) THEN IF k = c THEN m_list ELSE sent[k] ELSE <<>>]
      /\ since' = [k \in Conns |-> IF Stays(k) THEN IF k = c THEN added - Len(m_list) + 1
                                                            ELSE since[k]
                                   ELSE 0]
  BY DEF NewClient
<1>3. /\ m_list \in Seq(1..MaxAdds) /\ added \in Nat /\ Len(m_list) \in Nat /\ Len(m_list) <= added
      /\ EventsTypeOK /\ MaxAdds \in Nat /\ added <= MaxAdds
  BY LenProperties, EventsAssumption DEF Order, EventsTypeOK
<1>4. Clients \subseteq Conns /\ Clients' \subseteq Conns
  BY <1>1, Members DEF Sockets, Clients
<1>5. \A k \in Clients' : Stays(k)
  BY <1>1 DEF Sockets, Stays
<1>6. added - Len(m_list) + 1 \in 1..(added + 1) /\ added - Len(m_list) + 1 \in 0..(MaxAdds + 1)
  BY <1>3
<1>7. EventsTypeOK'
  <2>1. sent' \in [Conns -> Seq(1..MaxAdds)]
    BY <1>2, <1>3, EmptySeq DEF EventsTypeOK
  <2>2. since' \in [Conns -> 0..(MaxAdds + 1)]
    <3>1. 0 \in 0..(MaxAdds + 1)
      BY <1>3
    <3>. QED  BY <1>2, <1>3, <1>6, <3>1 DEF EventsTypeOK
  <2>. QED  BY <1>2, <1>3, <2>1, <2>2 DEF EventsTypeOK
<1>8. ASSUME NEW k \in Clients'
      PROVE  /\ \E b \in (since'[k] - 1)..added :
                  sent'[k] \o m_list = Run(since'[k], b) \o Run(since'[k], added)
             /\ since'[k] \in 1..(added + 1)
  <2>1. CASE k = c
    <3>1. m_list = Run(added - Len(m_list) + 1, added)
      BY DEF Order
    <3>2. sent'[k] = m_list /\ since'[k] = added - Len(m_list) + 1
      BY <1>2, <1>4, <1>5, <2>1
    <3>3. sent'[k] \o m_list = Run(since'[k], added) \o Run(since'[k], added)
      BY <3>1, <3>2
    <3>4. added \in (since'[k] - 1)..added
      BY <1>3, <3>2
    <3>. QED  BY <1>6, <3>2, <3>3, <3>4
  <2>2. CASE k # c
    <3>1. k \in Clients /\ sent'[k] = sent[k] /\ since'[k] = since[k]
      BY <1>1, <1>2, <1>4, <1>5, <2>2
    <3>. QED  BY <3>1 DEF Order, SentInOrder
  <2>. QED  BY <2>1, <2>2
<1>9. ASSUME NEW k \in Conns \ Clients' PROVE sent'[k] = <<>>
  <2>1. CASE k \in Clients \cup {c}
    BY <1>1, <1>2, <2>1 DEF Stays
  <2>2. CASE k \notin Clients \cup {c}
    <3>1. sent[k] = <<>>
      BY <2>2 DEF Order
    <3>. QED  BY <1>2, <2>2, <3>1
  <2>. QED  BY <2>1, <2>2
<1>10. m_list' = Run(added' - Len(m_list') + 1, added')
  BY <1>2 DEF Order
<1>11. SentInOrder'
  <2>1. ASSUME NEW k \in Clients'
        PROVE  \E b \in (since'[k] - 1)..added' :
                 sent'[k] \o m_list' = Run(since'[k], b) \o Run(since'[k], added')
    <3>1. m_list' = m_list /\ added' = added
      BY <1>2
    <3>2. \E b \in (since'[k] - 1)..added :
            sent'[k] \o m_list = Run(since'[k], b) \o Run(since'[k], added)
      BY <1>8
    <3>. QED  BY <3>1, <3>2 DEF Run
  <2>. QED  BY <2>1 DEF SentInOrder
<1>. QED  BY <1>2, <1>3, <1>7, <1>8, <1>9, <1>10, <1>11 DEF Order

\* The turn sends what waits to the clients that stay.
LEMMA ServeOrder == EventsIInv /\ Sockets /\ Order /\ Serves => Order'
<1>. SUFFICES ASSUME EventsIInv, Sockets, Order, Serves PROVE Order'
  OBVIOUS
<1>1. /\ Sockets' /\ Clients' \subseteq Clients /\ \A c \in Clients' : peer'[c] # "none"
      /\ added' = added
      /\ since' = [c \in Conns |-> IF Stays(c) THEN since[c] ELSE 0]
      /\ Deliver
  BY Served DEF Serves
<1>2. EventsTypeOK' /\ Len(m_list') <= added'
  BY ServeInv DEF EventsIInv
<1>3. Clients \subseteq Conns /\ Clients' \subseteq Conns
  BY <1>1, Members DEF Sockets, Clients
<1>4. \A c \in Clients' : since'[c] = since[c] /\ since'[c] \in 1..(added + 1)
  BY <1>1, <1>3 DEF Stays, Order
<1>5. CASE Client' = <<>>
  <2>1. Clients' = {}
    <3>1. DOMAIN <<>> = {}
      OBVIOUS
    <3>. QED  BY <1>5, <3>1 DEF Clients, ToSet
  <2>2. m_list' = m_list /\ sent' = [c \in Conns |-> <<>>]
    BY <1>1, <1>5 DEF Deliver
  <2>3. m_list' = Run(added' - Len(m_list') + 1, added')
    BY <1>1, <2>2 DEF Order
  <2>. QED  BY <1>2, <2>1, <2>2, <2>3 DEF Order, SentInOrder
<1>6. CASE Client' # <<>>
  <2>1. /\ sent' = [c \in Conns |-> IF c \in ToSet(Client') THEN sent[c] \o m_list ELSE <<>>]
        /\ m_list' = <<>>
    BY <1>1, <1>6 DEF Deliver
  <2>2. m_list' = Run(added' - Len(m_list') + 1, added')
    <3>1. added \in Int
      BY DEF Order, EventsTypeOK
    <3>2. Run(added + 1, added) = <<>> /\ Len(m_list') = 0
      BY <2>1, <3>1, RunEmpty, EmptySeq
    <3>3. added' - Len(m_list') + 1 = added + 1
      BY <1>1, <3>1, <3>2
    <3>. QED  BY <1>1, <2>1, <3>2, <3>3
  <2>3. ASSUME NEW c \in Clients'
        PROVE  \E b \in (since'[c] - 1)..added' :
                 sent'[c] \o m_list' = Run(since'[c], b) \o Run(since'[c], added')
    <3>1. sent'[c] = sent[c] \o m_list /\ c \in Clients /\ c \in Conns
      BY <1>1, <1>3, <2>1 DEF Clients
    <3>2. PICK b \in (since[c] - 1)..added : sent[c] \o m_list = Run(since[c], b) \o Run(since[c], added)
      BY <3>1 DEF Order, SentInOrder
    <3>3. sent'[c] \in Seq(1..MaxAdds)
      BY <1>2, <3>1 DEF EventsTypeOK
    <3>4. sent'[c] \o <<>> = sent'[c]
      BY <3>3, ConcatEmptySeq
    <3>. QED  BY <1>1, <1>4, <2>1, <3>1, <3>2, <3>4
  <2>4. \A c \in Conns \ Clients' : sent'[c] = <<>>
    BY <2>1 DEF Clients
  <2>. QED  BY <1>1, <1>2, <1>4, <2>2, <2>3, <2>4 DEF Order, SentInOrder
<1>. QED  BY <1>5, <1>6

LEMMA StepOrder == EventsIInv /\ Sockets /\ Order /\ [EventsNext]_eventsVars => Order'
<1>. SUFFICES ASSUME EventsIInv, Sockets, Order, [EventsNext]_eventsVars PROVE Order'
  OBVIOUS
<1>1. CASE add
  BY <1>1, AddOrder
<1>2. CASE Serves
  BY <1>2, ServeOrder
<1>3. CASE \E c \in Conns, d \in Fds : accept(c, d) /\ NewClient(c)
                                       /\ UNCHANGED <<added, m_archive, anyone>>
  BY <1>3, AcceptOrder
<1>4. CASE UNCHANGED <<queue, history, Client>>
  BY <1>4 DEF Order, EventsTypeOK, SentInOrder, queue, history, Clients
<1>5. ASSUME acceptNone \/ select \/ selectFails \/ Peers
      PROVE  UNCHANGED Client
  BY <1>5 DEF acceptNone, select, selectFails, Peers, Connects, Sends, Leaves, server
<1>. QED  BY <1>1, <1>2, <1>3, <1>4, <1>5
          DEF EventsNext, Server, Accepts, Polls, eventsVars, tcpVars, server

LEMMA OrderHolds == EventsSpec => []Order
BY InitOrder, StepOrder, EventsInvariant, SocketsHold, PTL DEF EventsSpec

\* Every client is sent all events from the first undelivered one on, in the order
\* of add, and again no more than the first of them, before the rest begins
\* (rEventManager::NewClient, Proccesing).
THEOREM EveryClientInOrder == EventsSpec => []SentInOrder
<1>1. Order => SentInOrder
  BY DEF Order
<1>2. EventsSpec => []Order
  BY OrderHolds, PTL
<1>. QED  BY <1>1, <1>2, PTL

-----------------------------------------------------------------------------
(* The feed.  The mark lies before the events of m_list.                   *)

LEMMA InitFeed == EventsInit => Feed!Init
<1>. SUFFICES ASSUME EventsInit PROVE Feed!Init
  OBVIOUS
<1>1. Client = <<>> /\ added = 0 /\ m_list = <<>> /\ sent = [c \in Conns |-> <<>>]
  BY DEF EventsInit, TCPInit
<1>2. Clients = {}
  <2>1. DOMAIN <<>> = {}
    OBVIOUS
  <2>. QED  BY <1>1, <2>1 DEF Clients, ToSet
<1>3. added - Len(m_list) = 0
  <2>1. Len(m_list) = 0 /\ added = 0
    BY <1>1, EmptySeq
  <2>. QED  BY <2>1
<1>. QED  BY <1>1, <1>2, <1>3, Zenon DEF Feed!Init

\* An event behind the queue does not move the mark.
LEMMA AddFeed == EventsIInv /\ add => Feed!Publish
<1>. SUFFICES ASSUME EventsIInv, add PROVE Feed!Publish
  OBVIOUS
<1>1. added' = added + 1 /\ m_list' = Append(m_list, added + 1) /\ sent' = sent /\ Clients' = Clients
  BY DEF add, Queued, history, tcpVars, server, Clients
<1>2. m_list \in Seq(1..MaxAdds) /\ added' \in 1..MaxAdds /\ added \in Nat
  BY <1>1, AddInv DEF EventsIInv, EventsTypeOK, add
<1>3. Len(m_list') = Len(m_list) + 1 /\ Len(m_list) \in Nat
  BY <1>1, <1>2, AppendProperties, LenProperties
<1>. QED  BY <1>1, <1>2, <1>3 DEF Feed!Publish

\* A new client begins at the mark and is handed what waits, or is not taken.
LEMMA AcceptFeed ==
  ASSUME EventsIInv, Sockets, Order, NEW c \in Conns, NEW d, accept(c, d), NewClient(c), UNCHANGED added
  PROVE  Feed!Next \/ UNCHANGED Feed!feedVars
<1>1. /\ c \notin Clients /\ Clients' \subseteq Clients \cup {c} /\ (c \in Clients' \/ Clients' = Clients)
      /\ \A k \in (Clients \cup {c}) \ Clients' :
           peer'[k] = "none" /\ (k = c \/ k = Head(Client))
      /\ \A k \in Clients' : peer'[k] # "none"
  BY Accepted DEF Sockets
<1>2. /\ \A k \in Conns : sent'[k] = IF Stays(k) THEN IF k = c THEN m_list ELSE sent[k] ELSE <<>>
      /\ sent' = [k \in Conns |-> IF Stays(k) THEN IF k = c THEN m_list ELSE sent[k] ELSE <<>>]
      /\ m_list' = m_list /\ added' = added
  BY DEF NewClient
<1>3. sent \in [Conns -> Seq(1..MaxAdds)] /\ \A k \in Conns \ Clients : sent[k] = <<>>
  BY DEF Order, EventsTypeOK
<1>4. Clients \subseteq Conns
  BY Members DEF Sockets, Clients
<1>5. CASE c \in Clients'
  <2>. DEFINE out == Clients \ Clients'
  <2>1. out \in {{}} \cup {{m} : m \in Clients}
    BY <1>1
  <2>2. Clients' = (Clients \cup {c}) \ out
    BY <1>1, <1>5
  <2>3. \A k \in Conns : (IF Stays(k) THEN IF k = c THEN m_list ELSE sent[k] ELSE <<>>)
                         = IF k \in out THEN <<>> ELSE IF k = c THEN m_list ELSE sent[k]
    <3>1. ASSUME NEW k \in out PROVE ~Stays(k)
      BY <1>1 DEF Stays
    <3>2. ASSUME NEW k \in Clients \ out PROVE Stays(k)
      BY <1>1 DEF Stays
    <3>3. ASSUME NEW k \in Conns \ Clients PROVE sent[k] = <<>> /\ k \notin out
      BY <1>3
    <3>4. Stays(c) /\ c \notin out
      BY <1>1, <1>5 DEF Stays
    <3>. HIDE DEF out
    <3>. QED  BY <3>1, <3>2, <3>3, <3>4
  <2>. HIDE DEF out
  <2>4. sent' = [k \in Conns |-> IF k \in out THEN <<>> ELSE IF k = c THEN m_list ELSE sent[k]]
    BY <1>2, <2>3
  <2>5. m_list = Feed!Run((added - Len(m_list)) + 1, added)
    BY DEF Order, Run, Feed!Run
  <2>6. Feed!Join(c, out, Feed!Run((added - Len(m_list)) + 1, added))
    BY <1>1, <1>2, <2>2, <2>4, <2>5 DEF Feed!Join
  <2>. QED  BY <2>1, <2>6 DEF Feed!Next
<1>6. CASE c \notin Clients'
  <2>1. Clients' = Clients
    BY <1>1, <1>6
  <2>2. \A k \in Conns : (IF Stays(k) THEN IF k = c THEN m_list ELSE sent[k] ELSE <<>>) = sent[k]
    BY <1>1, <1>3, <1>6, <2>1 DEF Stays
  <2>3. sent' = sent
    BY <1>2, <1>3, <2>2
  <2>. QED  BY <1>2, <2>1, <2>3 DEF Feed!feedVars
<1>. QED  BY <1>5, <1>6

\* A turn hands out what is behind the mark, or nobody is left.
LEMMA ServeFeed == EventsIInv /\ Sockets /\ Order /\ Serves => Feed!Next
<1>. SUFFICES ASSUME EventsIInv, Sockets, Order, Serves PROVE Feed!Next
  OBVIOUS
<1>1. Sockets' /\ Clients' \subseteq Clients /\ added' = added /\ Deliver
  BY Served DEF Serves
<1>2. CASE Client' = <<>>
  <2>1. Clients' = {}
    <3>1. DOMAIN <<>> = {}
      OBVIOUS
    <3>. QED  BY <1>2, <3>1 DEF Clients, ToSet
  <2>2. m_list' = m_list /\ sent' = [c \in Conns |-> <<>>]
    BY <1>1, <1>2 DEF Deliver
  <2>. QED  BY <1>1, <2>1, <2>2 DEF Feed!Next, Feed!AllLeave
<1>3. CASE Client' # <<>>
  <2>1. Clients' # {}
    <3>1. Client' \in Seq(Conns)
      BY <1>1 DEF Sockets
    <3>2. Len(Client') \in Nat \ {0} /\ Clients' = {Client'[i] : i \in 1..Len(Client')}
      BY <1>3, <3>1, Members, EmptySeq, LenProperties DEF Clients
    <3>3. 1 \in 1..Len(Client')
      BY <3>2
    <3>. QED  BY <3>2, <3>3
  <2>2. /\ sent' = [c \in Conns |-> IF c \in Clients' THEN sent[c] \o m_list ELSE <<>>]
        /\ m_list' = <<>>
    BY <1>1, <1>3 DEF Deliver, Clients
  <2>3. m_list = Feed!Run((added - Len(m_list)) + 1, added)
    BY DEF Order, Run, Feed!Run
  <2>4. added' - Len(m_list') = added
    BY <1>1, <2>2, EmptySeq DEF Order, EventsTypeOK
  <2>5. sent' = [c \in Conns |-> IF c \in Clients'
                                 THEN sent[c] \o Feed!Run((added - Len(m_list)) + 1, added) ELSE <<>>]
    BY <2>2, <2>3
  <2>6. Feed!Deliver(Clients')
    BY <1>1, <2>1, <2>4, <2>5 DEF Feed!Deliver
  <2>. QED  BY <1>1, <2>6 DEF Feed!Next
<1>. QED  BY <1>2, <1>3

LEMMA StepFeed ==
  EventsIInv /\ Sockets /\ Order /\ [EventsNext]_eventsVars => [Feed!Next]_(Feed!feedVars)
<1>. SUFFICES ASSUME EventsIInv, Sockets, Order, [EventsNext]_eventsVars
              PROVE  Feed!Next \/ UNCHANGED Feed!feedVars
  OBVIOUS
<1>1. CASE add
  BY <1>1, AddFeed DEF Feed!Next
<1>2. CASE Serves
  BY <1>2, ServeFeed
<1>3. CASE \E c \in Conns, d \in Fds : accept(c, d) /\ NewClient(c) /\ UNCHANGED added
  BY <1>3, AcceptFeed
<1>4. CASE UNCHANGED <<queue, history, Client>>
  BY <1>4 DEF queue, history, Clients, Feed!feedVars
<1>5. ASSUME acceptNone \/ select \/ selectFails \/ Peers
      PROVE  UNCHANGED Client
  BY <1>5 DEF acceptNone, select, selectFails, Peers, Connects, Sends, Leaves, server
<1>. QED  BY <1>1, <1>2, <1>3, <1>4, <1>5
          DEF EventsNext, Server, Accepts, Polls, eventsVars, tcpVars, server

\* The event manager implements the feed: a new client is handed what waits behind one
\* mark, and every turn hands all clients that stay what is behind it, and moves it
\* (rEventManager::add, NewClient, Proccesing).
THEOREM FeedIsImplemented == EventsSpec => FeedImplemented
<1>1. Feed!Init /\ [][Feed!Next]_(Feed!feedVars) => FeedImplemented
  BY DEF FeedImplemented, Feed!Spec
<1>2. EventsSpec => Feed!Init /\ [][Feed!Next]_(Feed!feedVars)
  BY InitFeed, StepFeed, OrderHolds, EventsInvariant, SocketsHold, PTL DEF EventsSpec
<1>. QED  BY <1>1, <1>2
=============================================================================
