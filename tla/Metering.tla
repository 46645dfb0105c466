------------------------------ MODULE Metering ------------------------------
(***************************************************************************)
(* From the pulses of a flow meter to the totals of a station.  The IO     *)
(* thread polls the pulse module (rModuleFI4); the data thread calculates  *)
(* the objects of the configuration once per cycle: a stream (rStream)     *)
(* asks its counter (rCounter) for the pulses of the cycle, and a station  *)
(* (rStation) sums its streams, which it calculates itself when they have  *)
(* not been calculated yet.  The two threads meet at the module only: the  *)
(* counter reads its count and its poll number under separate locks.       *)
(*                                                                         *)
(* A stream and its counter share a name.  The mass stands for the four    *)
(* totals that are rounded to five decimals: it is counted in a unit of    *)
(* which 0.00001 is a multiple, and every total is rounded when it grows,  *)
(* so the total of a station drifts from the totals of its streams.        *)
(***************************************************************************)
EXTENDS Integers, FiniteSets, Functions

CONSTANTS
  Streams,    \* streams of the station, each on a channel of the module
  Station,
  Lists,      \* orders of the objects in the configuration
  Word,       \* the numbers of the type UDINT are 0..Word-1
  Limit,      \* MAX_TOTAL_LIMIT
  Grain,      \* 0.00001, to which the totals are rounded
  Weight,     \* the mass of one pulse
  MaxPulses,  \* bound: pulses of all meters
  MaxRepeats, \* bound: calculations that find the pulses of an earlier one
  MaxFaults,  \* bound: failures of the module
  MaxSets     \* bound: writes of the operator

ASSUME MeteringAssumption ==
  /\ IsFiniteSet(Streams) /\ Station \notin Streams
  /\ \A l \in Lists : l \in [1..Cardinality(Streams \cup {Station}) -> Streams \cup {Station}]
                      /\ Range(l) = Streams \cup {Station}
  /\ Word \in Nat \ {0, 1} /\ {Limit, Grain} \subseteq Nat \ {0} /\ Weight \in Nat
  /\ Limit % Grain = 0
  /\ Limit >= Cardinality(Streams) * ((Word - 1) * Weight) + Grain  \* more than a cycle adds
  /\ {MaxPulses, MaxRepeats, MaxFaults, MaxSets} \subseteq Nat

Objects == Streams \cup {Station}
N == Cardinality(Objects)
Udint == 0..(Word - 1)
Total == [count : Udint, mass : 0..(Limit - 1)]
Increment == [count : Udint, mass : Nat]
Zero == [count |-> 0, mass |-> 0]

VARIABLES
  left, faults,  \* pulses and failures of the module that may still come
  chan,     \* m_counter of each channel, as of the last poll
  isFault,  \* m_isFault of the module
  fresh,    \* counters whose m_pullingCount differs from m_pulling
  live,     \* m_live
  list,     \* m_listSource
  pc,       \* where the data thread is
  turn,     \* place in m_listSource
  isCalc,   \* objects whose calculate has begun in this cycle
  cur, count,  \* counter being calculated (Station: none), and the count it has read
  counter,  \* m_isInit, m_countPrev and m_impulse of each counter
  off,      \* counters with Setup::OFF
  out,      \* streams in maintenance
  noKF,     \* streams whose K-factor or density is not valid
  reset,    \* objects with m_resetTotals set
  inc, raw, \* m_total of each object
  sets, repeats, \* writes and repeated pulses that may still come
  apart,    \* history: totals were reset, so a station need not be the sum
  drift,    \* history: what roundings have added to the station but not to its streams
  rounded   \* history: roundings that have changed a total

module == <<left, faults, chan, isFault>>
settings == <<off, out, noKF, sets>>
thread == <<pc, turn, isCalc, cur, count>>
totals == <<counter, fresh, inc, raw, reset, repeats, drift, rounded>>
vars == <<module, settings, thread, totals, live, list, apart>>

\* The totals that loadDumpTotals has loaded; those of the streams are about to wrap.
Loaded(o) ==
  LET share == [count |-> Word - 1, mass |-> Limit - Grain]
  IN  IF o \in Streams THEN share
      ELSE [count |-> (share.count * Cardinality(Streams)) % Word,
            mass  |-> (share.mass * Cardinality(Streams)) % Limit]

Init ==
  /\ left = MaxPulses /\ faults = MaxFaults /\ isFault = FALSE
  /\ \/ chan = [s \in Streams |-> 0] /\ fresh = {}
     \/ chan = [s \in Streams |-> Word - 1] /\ fresh = Streams  \* polled before
  /\ live = "RUNNING"
  /\ list \in Lists
  /\ pc = "idle" /\ turn = 1 /\ isCalc = {}
  /\ cur = Station /\ count = 0
  /\ counter = [s \in Streams |-> [init |-> FALSE, prev |-> 0, impulse |-> 0]]
  /\ off = {} /\ out = {} /\ noKF = {} /\ reset = {}
  /\ inc = [o \in Objects |-> Zero] /\ raw = [o \in Objects |-> Loaded(o)]
  /\ sets = MaxSets /\ repeats = MaxRepeats
  /\ apart = FALSE /\ drift = 0 /\ rounded = 0

-----------------------------------------------------------------------------
(* The IO thread.                                                          *)

\* rModuleFI4::processing, under the write lock of the module, when the module
\* answers: n[s] pulses of meter s have come since it last did.
Poll ==
  /\ \E n \in [Streams -> 0..left] :
       LET all == SumFunction(n) IN
       /\ all <= left /\ left' = left - all
       /\ chan' = [s \in Streams |-> (chan[s] + n[s]) % Word]
  /\ isFault' = FALSE /\ fresh' = Streams
  /\ UNCHANGED <<faults, settings, thread, counter, inc, raw, reset, repeats, drift, rounded,
                 live, list, apart>>

\* The same when it does not: it keeps its last counts and its poll number.
PollFails ==
  /\ isFault \/ faults > 0
  /\ isFault' = TRUE /\ faults' = IF isFault THEN faults ELSE faults - 1
  /\ UNCHANGED <<left, chan, settings, thread, totals, live, list, apart>>

\* DoHalt of any thread (LiveStatus has its steps).
Halt ==
  /\ live = "RUNNING" /\ live' = "HALT"
  /\ UNCHANGED <<module, settings, thread, totals, list, apart>>

-----------------------------------------------------------------------------
(* Writes of the operator, under the mutex that a cycle holds.             *)

Written ==
  /\ pc = "idle" /\ sets > 0 /\ sets' = sets - 1
  /\ UNCHANGED <<module, thread, live, list, counter, fresh, inc, raw, repeats, drift, rounded>>

\* A set of streams to which one is added or from which it is taken.
Toggled(S, s) == IF s \in S THEN S \ {s} ELSE S \cup {s}

SetOff(s)         == Written /\ off' = Toggled(off, s)   /\ UNCHANGED <<out, noKF, reset, apart>>
SetMaintenance(s) == Written /\ out' = Toggled(out, s)   /\ UNCHANGED <<off, noKF, reset, apart>>
SetFactor(s)      == Written /\ noKF' = Toggled(noKF, s) /\ UNCHANGED <<off, out, reset, apart>>
RequestReset(o)   == Written /\ reset' = reset \cup {o} /\ apart' = TRUE
                     /\ UNCHANGED <<off, out, noKF>>

Operator == \/ \E s \in Streams : SetOff(s) \/ SetMaintenance(s) \/ SetFactor(s)
            \/ \E o \in Objects : RequestReset(o)

-----------------------------------------------------------------------------
(* rTotal                                                                  *)

checkMax(m) == IF m >= Limit THEN m - Limit ELSE m

\* Round(x, 5) of a positive number: to the nearest, halves up.
Round(x) == Grain * ((2 * x + Grain) \div (2 * Grain))

\* rTotal::calculate: the total t after the increment i.
Grown(t, i) == [count |-> (t.count + i.count) % Word, mass |-> checkMax(Round(t.mass + i.mass))]

\* The total from which a calculation of o goes on: cleared if that was requested.
Base(o) == IF o \in reset THEN Zero ELSE raw[o]

\* m_total of o is reset if that was requested, and grows by i.
Calculates(o, i) ==
  LET exact == Base(o).mass + i.mass
      error == Round(exact) - exact
  IN  /\ inc' = [inc EXCEPT ![o] = i]
      /\ raw' = [raw EXCEPT ![o] = Grown(Base(o), i)]
      /\ reset' = reset \ {o}
      /\ drift' = IF o = Station THEN drift + error ELSE drift - error
      /\ rounded' = IF error = 0 THEN rounded ELSE rounded + 1

-----------------------------------------------------------------------------
(* A cycle of the data thread (rDataManager::Proccesing).                  *)

\* preCalculate of every object.
CycleBegins ==
  /\ pc = "idle" /\ live = "RUNNING"
  /\ pc' = "list" /\ turn' = 1 /\ isCalc' = {}
  /\ UNCHANGED <<module, settings, totals, cur, count, live, list, apart>>

\* calculate of stream s begins: its link m_counter asks rCounter.
Asks(s) == pc' = "value" /\ cur' = s /\ isCalc' = isCalc \cup {s}

\* The next object of the list, unless the system was halted.
NextObject ==
  /\ pc = "list" /\ turn <= N /\ live = "RUNNING"
  /\ LET o == list[turn] IN
       \/ o \in isCalc /\ pc' = "list" /\ turn' = turn + 1 /\ UNCHANGED <<isCalc, cur>>
       \/ o \in Streams \ isCalc /\ Asks(o) /\ UNCHANGED turn
       \/ /\ o \in {Station} \ isCalc
          /\ pc' = "station" /\ isCalc' = isCalc \cup {o} /\ UNCHANGED <<turn, cur>>
  /\ UNCHANGED <<module, settings, totals, count, live, list, apart>>

\* rStation::calculate asks the next of its streams that is not calculated.
NextStream ==
  /\ pc = "station"
  /\ \E i \in 1..N :
       /\ list[i] \in Streams \ isCalc
       /\ \A j \in 1..(i - 1) : list[j] \notin Streams \ isCalc
       /\ Asks(list[i])
  /\ UNCHANGED <<module, settings, totals, turn, count, live, list, apart>>

Returns == IF list[turn] = Station THEN pc' = "station" /\ UNCHANGED turn
                                   ELSE pc' = "list" /\ turn' = turn + 1

\* rStream::calculate goes on with the pulses of its counter: calcTotal.
calcTotal(s, impulse) ==
  /\ Calculates(s, IF s \in out THEN Zero
                   ELSE [count |-> impulse, mass |-> IF s \in noKF THEN 0 ELSE impulse * Weight])
  /\ Returns

Metered(s, c) == /\ counter' = [counter EXCEPT ![s] = c] /\ calcTotal(s, c.impulse)
                 /\ cur' = Station /\ count' = 0

\* Mutant: a fault is followed by a new first reading.
clear_Forgets(s) == [counter[s] EXCEPT !.impulse = 0, !.init = FALSE]

clear(s) == [counter[s] EXCEPT !.impulse = 0]

\* rCounter::calculate up to getValue, the first lock of the module.
getValue ==
  /\ pc = "value"
  /\ \/ /\ cur \in off
        /\ Metered(cur, [counter[cur] EXCEPT !.impulse = 0, !.init = FALSE])
     \/ cur \notin off /\ isFault /\ Metered(cur, clear(cur))
     \/ /\ cur \notin off /\ ~isFault
        /\ count' = chan[cur] /\ pc' = "pulling"
        /\ UNCHANGED <<turn, cur, counter, inc, raw, reset, drift, rounded>>
  /\ UNCHANGED <<module, settings, isCalc, fresh, repeats, live, list, apart>>

\* The pulses since the last reading.
Difference(s) ==
  [counter[s] EXCEPT !.impulse = (count - counter[s].prev) % Word, !.prev = count]

\* Mutant: the counters of a module share m_pullingCount.
getPulling_Shared ==
  /\ pc = "pulling"
  /\ \/ /\ ~counter[cur].init
        /\ Metered(cur, [init |-> TRUE, prev |-> count, impulse |-> 0]) /\ UNCHANGED <<fresh, repeats>>
     \/ /\ counter[cur].init /\ cur \in fresh /\ UNCHANGED repeats
        /\ Metered(cur, Difference(cur)) /\ fresh' = {}
     \/ /\ counter[cur].init /\ cur \notin fresh
        /\ IF counter[cur].impulse = 0 THEN UNCHANGED repeats
                                       ELSE repeats > 0 /\ repeats' = repeats - 1
        /\ Metered(cur, counter[cur]) /\ UNCHANGED fresh
  /\ UNCHANGED <<module, settings, isCalc, live, list, apart>>

\* rCounter::calculate from getPulling on, the second lock.  Without a poll since
\* the last calculation m_impulse stays as it was.
getPulling ==
  /\ pc = "pulling"
  /\ \/ /\ ~counter[cur].init
        /\ Metered(cur, [init |-> TRUE, prev |-> count, impulse |-> 0]) /\ UNCHANGED <<fresh, repeats>>
     \/ /\ counter[cur].init /\ cur \in fresh /\ UNCHANGED repeats
        /\ Metered(cur, Difference(cur)) /\ fresh' = fresh \ {cur}
     \/ /\ counter[cur].init /\ cur \notin fresh
        /\ IF counter[cur].impulse = 0 THEN UNCHANGED repeats
                                       ELSE repeats > 0 /\ repeats' = repeats - 1
        /\ Metered(cur, counter[cur]) /\ UNCHANGED fresh
  /\ UNCHANGED <<module, settings, isCalc, live, list, apart>>

Sum(f) == SumFunctionOnSet(f, Streams \ out)

\* rStation::calculate when its streams are calculated.
SumsStreams ==
  /\ pc = "station" /\ Streams \subseteq isCalc
  /\ Calculates(Station, [count |-> Sum([s \in Streams |-> inc[s].count]) % Word,
                          mass  |-> Sum([s \in Streams |-> inc[s].mass])])
  /\ pc' = "list" /\ turn' = turn + 1
  /\ UNCHANGED <<module, settings, isCalc, cur, count, counter, fresh, repeats, live, list, apart>>

\* Mutant: the totals are saved whether the cycle was completed or not.
CycleEnds_Saves ==
  /\ pc = "list" /\ (turn > N \/ live # "RUNNING")
  /\ pc' \in {"save", "idle"}
  /\ turn' = 1 /\ isCalc' = {}
  /\ UNCHANGED <<module, settings, totals, cur, count, live, list, apart>>

\* After the last object, or the halt: the totals are saved if the system is
\* RUNNING and m_timerTotal is over.
CycleEnds ==
  /\ pc = "list" /\ (turn > N \/ live # "RUNNING")
  /\ \/ live = "RUNNING" /\ pc' = "save"
     \/ pc' = "idle"
  /\ turn' = 1 /\ isCalc' = {}
  /\ UNCHANGED <<module, settings, totals, cur, count, live, list, apart>>

\* saveDataTotals (DataManager has the files).
SaveTotals ==
  /\ pc = "save" /\ pc' = "idle"
  /\ UNCHANGED <<module, settings, totals, turn, isCalc, cur, count, live, list, apart>>

DataThread == CycleBegins \/ NextObject \/ NextStream \/ getValue \/ getPulling
              \/ SumsStreams \/ CycleEnds \/ SaveTotals

Next == Poll \/ PollFails \/ Halt \/ Operator \/ DataThread

Spec == Init /\ [][Next]_vars /\ WF_vars(Poll) /\ WF_vars(DataThread)

-----------------------------------------------------------------------------
(* Properties.                                                             *)

\* Every variable holds a value of its type; a total stays below MAX_TOTAL_LIMIT
\* (checkMax), which it would not if a cycle could pass the limit twice.
TypeOK ==
  /\ left \in Nat /\ faults \in Nat
  /\ chan \in [Streams -> Udint] /\ isFault \in BOOLEAN /\ fresh \subseteq Streams
  /\ live \in {"RUNNING", "HALT"} /\ list \in [1..N -> Objects]
  /\ pc \in {"idle", "list", "station", "value", "pulling", "save"}
  /\ turn \in 1..(N + 1) /\ isCalc \subseteq Objects /\ cur \in Objects /\ count \in Udint
  /\ pc \in {"value", "pulling"} => cur \in Streams
  /\ pc \in {"station", "value", "pulling"} => turn <= N
  /\ counter \in [Streams -> [init : BOOLEAN, prev : Udint, impulse : Udint]]
  /\ off \subseteq Streams /\ out \subseteq Streams /\ noKF \subseteq Streams
  /\ reset \subseteq Objects
  /\ inc \in [Objects -> Increment] /\ raw \in [Objects -> Total]
  /\ sets \in Nat /\ repeats \in Nat
  /\ apart \in BOOLEAN /\ drift \in Int /\ rounded \in Nat

\* The pulses that the counter of s has taken and the total of s does not hold.
Untotalled(s) == (counter[s].prev - raw[s].count) % Word

\* Between the module and the total of a stream (rCounter::calculate, calcTotal) no
\* pulse is lost or added, over the wrap of both counts, failures of the module and
\* polls between the two locks.  Only a reset, maintenance and the first reading
\* drop pulses, the first reading is repeated after Setup::OFF only, and only a
\* calculation without a new poll counts the last pulses again.
PulsesKept ==
  [][\A s \in Streams :
       /\ \/ Untotalled(s)' = Untotalled(s)
          \/ s \in reset \cup out \/ ~counter[s].init
          \/ pc = "pulling" /\ cur = s /\ s \notin fresh
       /\ counter[s].init /\ ~counter'[s].init => s \in off]_vars

\* What saveDataTotals writes agrees: while no total was reset, the pulses of the
\* station are the sum of those of its streams, and its mass differs from the sum of
\* theirs by nothing but what rTotal::calculate has rounded off and up, which is at
\* most half of the fifth decimal for each rounding; whatever the order of
\* m_listSource, the streams in maintenance, and the cycles that a halt has broken off.
SavedAgree ==
  pc = "save" /\ ~apart =>
    /\ raw[Station].count = SumFunction([s \in Streams |-> raw[s].count]) % Word
    /\ raw[Station].mass = (SumFunction([s \in Streams |-> raw[s].mass]) + drift) % Limit
    /\ 2 * drift \in -(Grain * rounded)..(Grain * rounded)

\* When the meters rest, every pulse reaches its counter, if the counter stays on,
\* the module answers and the system runs.
AllTaken ==
  \A s \in Streams :
    <>[](s \notin off /\ ~isFault /\ live = "RUNNING") => <>[](counter[s].prev = chan[s])
=============================================================================
