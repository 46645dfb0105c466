# A TLA+ verification of tritonn

tritonn is the program of a flow computer for custody transfer of oil: it reads
sensors through I/O modules, computes flow, mass and density of metering streams,
keeps totals and reports, runs prover procedures and samplers, and serves values to
Modbus, OPC UA, JSON and terminal clients. This directory models its control logic
in TLA+, checks it with TLC on small instances, and proves with TLAPS, for every
instance, the safety properties that the runs check.

Paths below are relative to `src/src/`.

## 1. Inventory

The program is one process of about a dozen threads. `main` creates them, adds them
to `rThreadMaster`, starts the reports and waits until the master is CLOSED. The
*data thread* calls `calculate()` of every object of the configuration once per cycle,
under the mutex of `rDataManager`; the *IO thread* polls modules; *interface threads*
(JSON, terminal, Modbus, OPC UA) read and write variables; the *event* and *log*
threads deliver messages. Threads share variables through lists with external copies
(`rVariableClass`), single values with a lock each (`rSafityValue`), queues with a
mutex, and files (configuration name, restart request, dumps).

| Component | State | Operations | Interacts with | What is hard | What makes it correct |
|---|---|---|---|---|---|
| Prover procedure (`tritonn/data/prove.*`) | state, direction, timer, latched detectors, valve outputs, setup | one cycle, START / ABORT / RESET | data thread, CRM module, station | one timer shared by twenty states; state that an abort leaves behind; a mutex taken twice | outputs agree with the state; every procedure ends; a pass waits for its second detector |
| Data manager (`tritonn/data_manager.*`, `tritonn/data/manager_dump.cpp`) | live status, totals, parameters, four files | boot, cycle, DoHalt, Restart, load and save dumps | every thread, the disk | crash in the middle of a save; HALT over several boots | totals are not lost; a halted run is followed by COLD-START; the system recovers |
| Live status (same files) | `m_live`, `Halt` | DoHalt, setLiveStatus, the cycle's test | data, IO, JSON threads | test and set in separate steps | HALT is final |
| Threads (`shared/thread_class.*`, `tritonn/threadmaster.*`, `tritonn/main.cpp`) | command, pause and status mailboxes | Finish, SetPause, Restore, closeAll | every thread | a command that is overwritten before it is read | a restart ends every thread, in reverse order |
| External variables (`tritonn/variable_class.*`, `variable_item.*`) | owner's data, published and written copies | get, set, writeExt, readExt, dump | data, IO, interfaces | copies of many variables, one by one | snapshots are atomic, sets are not lost |
| Selector (`tritonn/data_selector.*`) | selection, mode, lock | calculate, operator writes | data thread | index arithmetic, fall-through | a redundant pair switches over |
| Sampler (`tritonn/data_sampler.*`) | state, interval, doses, contacts | commands, contacts, calculate | data thread, operator | divisions, wrap of the tick, edges of two contacts; the clock is set | the doses add up; a test ends |
| Pulses, streams, stations, totals (`tritonn/io/module_fi4.cpp`, `tritonn/data/counter.cpp`, `stream.cpp`, `station.cpp`, `source.cpp`, `tritonn/total.*`) | counts, `m_isCalc`, totals | poll, cycle, save, resets | IO and data threads | two locks for one reading; order on demand; wraps; rounding | a pulse is counted once; saved totals agree |
| Reports (`tritonn/data_report.*`) | status, mark, start and final totals, clock | run, calculate, store, start | main and data threads, the clock | begun by two threads; the clock is set | no flow is reported twice or passed over; VALIDATE is true |
| Analog inputs, limits (`tritonn/data/ai.cpp`, `limit.cpp`, `tritonn/io/module_ai6a.cpp`) | mode, last good value, limit status | poll, calculate, operator writes | IO and data threads | code and state of different polls; substitutes; hysteresis | a fault is replaced and reported; no chatter |
| TCP server (`shared/tcp_class.cpp`) | clients, descriptor sets, `Maxfd` | select, accept, evict, read, disconnect | its clients | sets older than the list; errors of select | who sends is answered; who is quiet stays |
| Events (`tritonn/event/*`) | list, archive | add, deliver | every thread, event clients | events during a delivery; a new client is sent the list apart | every event, in order |
| Discrete objects, outputs, logs, snapshots, interfaces, configuration, densities, viscosities, units, texts, users, tools | tables, arithmetic, parsing | load, compute, format | – | – | see "Not modelled" |

`PROJECT.json` lists every component with its sources, and under `hazards` the places
where this code is hard to test, with the property or the theorem that watches each.

## 2. Modules

| Module | Models | Checked by | Proved in |
|---|---|---|---|
| `Prove` | `rProve`: one cycle of `calculate` per step, commands and setup writes between cycles, timers | `MC_Objects`, `MC_Prove` | `Prove_proofs` |
| `DataManager` | boot, cycle, saves, HALT, restart, crashes | `MC_DataManager` | `DataManager_proofs` |
| `LiveStatus` | the single steps of `DoHalt` and `setLiveStatus` in several threads | `MC_Threads` | `ThreadMaster_proofs` |
| `ThreadMaster` | `rThreadClass::Proccesing` step by step, `closeAll`, the end of `main` | `MC_Threads` | `ThreadMaster_proofs` |
| `VariableExchange` | `get`, `set`, `writeExt`, `readExt` variable by variable under one mutex, and the dump | `MC_VariableExchange` | `VariableExchange_proofs` |
| `VarRegister` | abstract: an atomic register of snapshots | as `Implements` of `VariableExchange` | `VariableExchange_proofs` |
| `Selector` | limits of loading, `calculate`, operator writes | `MC_Objects` | `Sampler_proofs` |
| `Sampler` | commands, contacts, states, intervals and doses of `rSampler` | `MC_Sampler` | `Sampler_proofs` |
| `Metering` | polls of a pulse module, counters, streams and a station in one cycle, totals and their save | `MC_Metering` | `Metering_proofs` |
| `Report` | `rReport::run`, `calculate`, ends of periods, `store`, `start` | `MC_Report` | `Report_proofs` |
| `TCPServer` | one turn of the thread of `rTCPClass` | `MC_Threads`, as a part of `Events` in `MC_Events` | `Report_proofs` |
| `Events` | `rEventManager` upon `TCPServer`: list, archive, delivery | `MC_Events` | `Report_proofs` |
| `EventFeed` | abstract: numbered events and one mark of what was handed out | as `FeedImplemented` of `Events` | `Report_proofs` |
| `Limit` | `rLimit::calculate` as an operator | as a part of `Analog` | `Analog_proofs` |
| `Analog` | an analog module, its channel, and `rAI::calculate` | `MC_Analog` | `Analog_proofs` |

`Events` is composed of `TCPServer` and the queue, `Analog` of a module, an object and
its `Limit`, `Metering` of the module and four kinds of objects; `DataManager` takes
the status as one variable whose steps `LiveStatus` takes apart. `ThreadMaster_proofs`,
`Sampler_proofs` and `Report_proofs` hold the theorems of two components each, one after
the other: they extend both modules, so the names that every module has (`Init`, `Next`,
`TypeOK`, `IInv`, ...) carry a prefix in the second one (`SelectorInit`, `EventsNext`,
`LiveTypeOK`, and `calculateSelector` for `rSelector::calculate`).

Definitions keep the names of the code otherwise. An operator named `X_Something` right
before `X` is a plausible bug in the same code; it shows that a property can fail.

### Prove

A step `calculate` is a whole cycle: `m_setup.Compare`, detectors, `calcAverage`, the
handler of the state, the reset of the command. Every `on...` handler is an operator
that decides the next state, timer, valve outputs and latched detectors. Time is
abstract: a running timer becomes due at any later step. Inputs (position of the
valve, drift, flow, detectors) are arbitrary in every cycle; a faulty module that
keeps its last readings is one of the choices. `RecursiveMutex` says whether
`rSnapshot::set` may lock the mutex its own thread holds. In the build it may not;
with TRUE the rest of the procedure can be examined. `Ahead` counts how much of a
procedure is still before it, in cycles that do not wait and expiries of the timer.

### DataManager

The main thread boots step by step (`pc`), the data thread saves (`dpc`), the IO thread
halts (`ipc`), the JSON thread restarts (`jpc`). A file save is two steps, truncation
and write, and `Crash` may come between any two steps. All totals are one number, all
dumped parameters one value. A dump holds its hash ("own", or "old" of another
program) and that value. Two history variables serve the properties: `kept`, the total
that nothing has allowed to be lost, and `wasHalted`.

### LiveStatus

`DataManager` takes the test-and-set of the status as one step; `LiveStatus` takes it
apart: the test of `Halt`, both assignments, truncation and write of the restart
request, in any number of threads, next to the cycle's test before each object and to
`setLiveStatus` of the JSON thread.

### ThreadMaster

A turn of `rThreadClass::Proccesing` is six steps, because each `Get` and `Set` locks
on its own. The master closes the threads of `m_threadList` from the end, joining each.

### VariableExchange and VarRegister

The owner publishes (`writeExt`) and takes over (`readExt`) one variable per step,
clients read and write snapshots one variable per step, all under the mutex.
`VarRegister` says what clients may rely on: publishing, taking over, reading and
writing are atomic on the whole list. The refinement mapping shows the shared data as
it was when the mutex was taken (`pre`) until the mutex is released.

### Selector

A value is the index of the input it comes from, or the keypad. A calculation takes any
set of failed inputs.

### Sampler

`rSampler` is one record, and each method an operator from record to record, so that a
calculation (`checkIO`, the handler of the state, the totals, the reset of the command)
is their composition in the order of the code. The unit of time is a second. The tick of
`rTickCount` wraps at `UDINT`, and so do the counters of doses; the moment of the next
dose does not, because the code computes it in LREAL. Contacts have three values,
because the code tests them by `> 0` and, truncated, by `= 0`. Tick and time are both
`gettimeofday`, which the operator may set: a clock that is set on is several ticks
between two calculations, one that is set back the action `SetClock` (`MaxBack` seconds
in all). The signal of an integer division by zero is the state `TRAPPED`, after which
nothing happens.

### Metering

The poll reads the count of every channel and raises its poll number; the counter reads
count and number in two steps (`reading`, `pulling`), and a poll or a failure of the
module may come in between. `isCalc` is the guard by which an object is calculated once
per cycle: the station calculates the streams that have not been, wherever they stand
in `m_listSource`. A halt by the IO thread breaks the cycle off before the next object;
such totals are not saved. Counts wrap at `Word`, masses at `Limit`.

`rTotal::calculate` rounds each raw total to five decimals. The mass stands for these
totals: it is counted in a unit of which 0.00001 is the multiple `Grain`, a pulse weighs
`Weight`, and `Grown` rounds what it has added. Stream and station round apart, so their
sums differ; the histories `drift` and `rounded` say by how much and after how many
roundings.

### Report

A period is a number of hours, an hour a few units of the clock. The data thread's
cycle begins with the source of the total, tests for the end of the period, stores the
report and starts the next one; the main thread's `run` does its two steps (totals,
then the start) without the mutex. `PastTM` and the totals of a new object hold
garbage. `SetClock` is the operator's. Two history variables tell whether a report was
begun at the beginning of a period, and how many reports a restart or a set clock
may still have spoilt.

### TCPServer and Events

A turn of the server is `select`, the acceptance of one connection with the eviction of
the oldest client, then client by client the read or the disconnection, then the
delivery of `m_list`; events are added in between. The descriptor sets are filled
before `select` and describe the clients of that moment. Descriptors are numbers,
because `Maxfd` compares them; `accept` may return any free one. `select` and
`setsockopt` may fail. `sent` is a history of what each client was handed: a new client is
sent `m_list` by `NewClient` and once more by the delivery that follows.
`EventFeed` says what event clients may rely on: a turn hands everything behind the mark,
in order, to every client that stays; without clients the mark stays and the events wait;
who comes begins at the mark, and may be handed at once what waits there, which the next
turn hands out again. The refinement mapping shows `Clients` as the members and
the events before `m_list` as handed out.

### Limit and Analog

`rLimit::calculate` is one operator from the limits, the old status and the value to
the new status. Scale and noise are integers; NaN stands for every infinite value. The
data thread's `calculate` reads the fault of the module, the code and the state in
separate steps, and the module may be polled in between; the rest is one step in the
order of the code. Uninitialised memory (`m_lastGood`) holds anything from `Garbage`.

## 3. Runs

Passing runs:

| Run | Instance | Properties | What it shows |
|---|---|---|---|
| `objects` | provers with one detector of each pair and three setups (two detectors, one detector with two passes, manual valve); selectors of up to five links, arrays of four places (as in the code) | `ValveExclusive` `WayCoherent` `Advances` `ProcedureEnds`; `SelectorTypeOK` `PairSwitches` `NoChangeHolds` `PhantomShort` | outputs and direction stay coherent through every abort, reset and restart; a procedure is never taken back, and ends; arrays are read within bounds; a pair switches over; NOCHANGE holds; a wrong index lasts one calculation |
| `boot` | two configurations, all command lines, one crash, dumps of the totals of this and another program, two parameter values | `TotalsKept` `HaltBootsCold` `RecoversWithConf` `ParamsSaved` | torn saves, restarts and HALTs lose no total unreported; DoHalt's request survives to the next boot; the system gets back to RUNNING while FILE_CONF is readable; a requested save happens |
| `threads` | two threads and the master, one paused, one pause or restore; the data thread and two others, two halts each, three objects; three connections to a server of two clients, one failure | `ClosedInReverse` `WaitsForAsked` `EndsUnlessLost`; `HaltRequestsCold` `HaltIsFinal`; `QuietStays` `InputTaken` | threads end in reverse order; no thread forgets a FINISH that was not overwritten; the restart happens unless one was; concurrent halts end with the request on disk; a running system stops for good; a quiet client keeps its place; input is answered unless the client is behind `Maxfd` |
| `exchange_register` | two variables of each kind, two clients, three calls | `Implements` `Taken` | the exchange implements the atomic register; what is set arrives |
| `sampler` | tick and counters of three values, two cans, tests of 0 and 1 dose, sampling by time and by volume, the clock set back by a second | `DosesAdd` `HeldStartsOnce` `TestAdvances` `TestEnds` | doses taken and remaining add up; a held contact starts once; nothing but a clock set back or a new start puts off the end of a test, and it ends though the tick wraps |
| `metering` | two streams and a station in both orders, counts of three values, two pulses of two thirds of 0.00001, one failure, one write | `SavedAgree` `PulsesKept` `AllTaken` | pulses are lost or added only where the code means to, or when a calculation finds no new poll; saved counts of stream and station agree, and saved masses but for half of 0.00001 for each rounding; every pulse arrives |
| `report` | periods of two hours in a day of four, two units an hour, the clock set twice | `ValidIsWhole` `StartKnown` `FlowReported` `ReportsEnd` | VALIDATE is true but for two reports after a restart or a set clock; a report begins within the flow of the cycle that ended the one before, so no flow is reported twice and only that of this cycle may be lost; every report has a start; reports end |
| `events` | three connections, a server of two clients, two events, one failure, archive of the shortest length | `SentInOrder` `FeedImplemented` | delivery in order; the manager and its server implement the feed, so nothing is skipped, and nothing repeated but what waits when a client comes |
| `analog` | codes below, on and above the scale, four setups, limits inside and around the scale | `GoodOrTorn` `Substituted` `NoChatter` `FaultFollows` | where the last good value comes from, what replaces a fault, that limits do not chatter, that a lasting fault is reported |

`objects` and `threads` join small components that share nothing in one run: a behaviour
is of one of them (`object`, `story`), and the others stay in their initial states.

Three runs state what the code or a description of it promises and the code violates
(`findings` in `PROJECT.json` quotes it):

| Run | Property | What happens |
|---|---|---|
| `prove_self_lock` | `WaitD1Ends` | `moduleStart` calls `rSnapshot::set`, which locks the non-recursive mutex the data thread holds during `calculate`: the thread waits for itself, and the limit of time for the first detector never ends the wait |
| `prove_second_detector` | `WaitD2Waits` | the detector of the first wait stays latched and is an error in the wait for the second, which ends in its first cycle: two-detector proving cannot complete |
| `sampler_resume` | `ResumeLeavesPause` | nothing reads the command RESUME in the state PAUSE, and nothing calls `onResume` |

### Bounds

- `objects`: one detector per pair and one value per kind of input: handlers only test
  intersections, and the theorems cover any number of detectors and setups; arrays of
  four places are the code's own size.
- `boot`: one crash at any step, the boot after a crash and the restarts of a HALT
  included; totals up to 1 tell apart "never saved" and "saved"; two values of the
  parameters tell an old save from a new one. The theorems remove the bounds.
- `threads`: two threads give a first and a last one of `m_threadList`; the closing
  order relates two at a time, and the theorem covers all lists; two halts of each of
  three threads let a thread meet a system halted by any other, before and after its
  own; three connections for two places make the server evict, and descriptors 4, 6 and
  7 around the listening socket's 5 give every order that `Maxfd` distinguishes, as in
  `events`.
- `exchange_register`: two variables of each kind are what a torn snapshot or a torn
  set needs; owner cycles are counted modulo two, so a mix of two neighbouring cycles
  shows.
- `sampler`: whether a test of two seconds meets the wrap of a tick of three values
  depends on its beginning, and a clock set back meets the wrap from either side; a test
  of one dose meets its last dose and the wrap of `m_grabRemain`, a test of none starts
  below it; cans hold one dose, and the total grows by more than an interval (a smaller
  growth takes no dose and changes nothing that is checked).
- `metering`: a pulse of two units and a grain of three is rounded up by one unit in a
  stream, and a station rounds two such pulses at once or one by one, so the drift goes
  beyond one unit; counts of three values wrap with the second pulse of a stream, since a
  count may begin anywhere; two streams and one station in both orders are the shapes of
  the calculation on demand; one failure, one repeated reading and one write are what
  each exception of the properties needs.
- `report`: a day of two periods has an end of a period at midnight and one within the
  day; the clock is set by half an hour or by one and a half, forwards and backwards,
  twice, so that a second setting meets the effect of the first.
- `events`: `MAX_EVENT` of 0 makes the archive overflow with the second event, and shows a
  queue that is cut as short; two events and three connections let clients come before,
  between and after the events, and be evicted.
- `analog`: codes below, on and above the range, values at, inside and outside of every
  limit, a hysteresis wider than the distance of two limits.

Deadlock is not checked where the system may stop: a halted or hung data thread
(`Prove`), the bounded halts (`LiveStatus`), a closed process or one with a lost FINISH
(`ThreadMaster`), a refused configuration (`Selector`), a crash (`VariableExchange`), a
process ended by a signal (`Sampler`), a data thread without a poll whose repeated
readings are used up (`Metering`). Elsewhere it is checked.

### Fairness

- Threads loop for ever with a sleep, so each thread's steps are weakly fair: the data
  thread, the main thread, the server, the polls of the IO thread.
- Timers elapse and time passes (`Prove`, `Sampler`); in `Report` the clock advances
  between two cycles only, so its tick is strongly fair.
- A mutex that is released again and again is obtained in the end: strong fairness
  for the owner's exchange. pthread mutexes do not promise it; with a sleep in every
  loop starvation needs a scheduler that never runs the waiting thread.
- `boot` assumes an operator who answers: restarts a halted system, chooses a loadable
  configuration, confirms a dump. Without one, HALT and COLD-START last.
- No fairness is assumed for failures, crashes, commands, writes or clients. `AllTaken`
  and `FaultFollows` say what follows if the failures come to rest.

## 4. Proofs

The theorems hold for every value of the constants that satisfies the module's named
assumptions. Each component has an inductive invariant `IInv` (with the prefix of the
component where two share a module) with the lemmas for the initial states, one per
action or handler, the step and `Invariant` (`Prove_proofs` and `DataManager_proofs`
name theirs after the part), and derives the theorems from it. An action property
follows from the same invariant, step by step.

| Component | Module | Theorems | Besides the types, the invariant says |
|---|---|---|---|
| `Prove` | `Prove_proofs` | `TypeCorrect` `InProgressCorrect` `ValveSafe` `WayCorrect` `OnlyOneDetectorCompletes` `SetupIsFrozen` `ProcedureAdvances` | in the second wait of a two-detector pass a first detector is latched |
| `DataManager` | `DataManager_proofs` | `TypeCorrect` `TotalsSafe` `HaltIsCold` `SaveIsHeld` | where the kept totals, and where the request for a cold restart are, at each step of a boot, a save or a crash; a system that has come to the dumps writes whole ones |
| `LiveStatus` | `ThreadMaster_proofs` | `LiveTypeCorrect` `ColdIsSaved` `RunsThenHalts` | a cold restart is saved, or a thread that will save it is still in DoHalt; while the system runs, the JSON thread is not about to set a status |
| `ThreadMaster` | `ThreadMaster_proofs` | `TypeCorrect` `ReverseOrder` `MainOutlivesAll` `NobodyForgets` | FINISH reaches no thread before its turn, and the threads behind the turn are done; unless one was lost, a thread that has read FINISH is on its way to the end |
| `VariableExchange` | `VariableExchange_proofs` | `TypeCorrect` `ExchangeIsAtomic` | while the mutex is held, the shared data is `pre` but for the variables that the holder is through with |
| `Sampler` | `Sampler_proofs` | `TypeCorrect` `DosesSum` `TimeNeverWorks` `PauseIsHeld` `HeldStarts` `TestGoesOn` | no sampling by time is at work; a trapped one has no doses and no interval; a start contact that stays closed is latched |
| `Selector` | `Sampler_proofs` | `SelectorTypeCorrect` `PairsSwitch` `SelectionIsKept` `PhantomIsLeft` | a loaded selector has two inputs or more and a spare place; the outputs follow the selection until the operator writes it |
| `Metering` | `Metering_proofs` | `TypeCorrect` `TotalsAgree` `PulsesAreKept` | the streams together hold what the station holds, the drift and what is still due to it; what the cycle has calculated |
| `Report` | `Report_proofs` | `TypeCorrect` `StartIsKnown` `FlowIsReported` `ValidReportsAreWhole` | `run` has given a start total whatever the data thread has done; the final total is behind the present one by the flow of the cycle; how old the report is in its period |
| `TCPServer`, `Events` | `Report_proofs` | `EventsTypeCorrect` `NothingForgotten` `SocketsHold` `QuietOnesStay` `EveryClientInOrder` `FeedIsImplemented` | which connections are clients, wait or are closed; the list is the run of the last events, and a connection that is no client was sent none |
| `Limit`, `Analog` | `Analog_proofs` | `NoChatterOfLimits` `TypeCorrect` `LastGoodOnScale` `LastGoodClean` `FaultIsReplaced` `StatusDoesNotChatter` | the last good value is on the scale, a value under calculation came from a clean reading, and the limit status is that of its last change |

Some of the arguments:

- `OnlyOneDetectorCompletes` is the finding of `prove_second_detector` for every instance.
  Its formula `CompletesWithOneDetector` is not inductive by itself:
  `WAITD2` could be left for `CALCULATE` if no first detector were latched. One was
  needed to get there, and only `onStart` clears it.
- `TotalsSafe` needs that no dump of another program's parameters (`InitVars`) is found
  at the first boot: with one, `loadDumps` returns before the accepted totals are loaded
  (`manager_dump.cpp:128`). `HaltIsCold` needs that nobody asks for a debug restart: two
  saves of the restart request at once may then leave "coldg".
- `ReverseOrder` and `MainOutlivesAll` hold although a FINISH may be lost: then
  `closeAll` waits, and nothing ends.
- `ExchangeIsAtomic` is a refinement: initial states map to initial states and every
  step to one step of `VarRegister` or a stutter. The register changes at the moment the
  mutex is released.
- `DosesSum` goes through the handlers as the code composes them: each lemma takes a
  well-formed object through one method (`OnStart`, `OnStartTest`, `CheckIO`,
  `TimerDoses`, ...), and a calculation is their composition. `DosesAdd` is a sum in the
  type `UDINT`; it holds through the wrap of `m_grabRemain`, because both counts move at
  once. That no sampling by time ever works (`TimeNeverWorks`) is a part of the
  invariant: `onStart` traps or fails first. `PauseIsHeld` is the finding of
  `sampler_resume` for every instance.
- `SelectorTypeCorrect`: the loop of the switching never leaves 0..`CountInputs`, so the
  one spare place behind the inputs, which the limit of loading guarantees, is enough.
  `PairsSwitch` needs that with two inputs, or three, the loop makes a single try.
- `TotalsAgree`: in the middle of a cycle the totals of the streams are ahead of the
  station's. `Balance` says by how much: by the increments of the streams that this
  cycle has calculated (`Done`), until the station is through. A halt may break the
  cycle off there, and nothing is saved after it. The sums are over any finite set of
  streams; `SumStep`, `SumTake` and `SumChange` say how one stream changes a sum. Each
  rounding moves a total by half of `Grain` at most, and `drift` adds up what the
  roundings of the station have moved it more than those of its streams.
- `PulsesAreKept` follows step by step: counter and total move by the same amount
  modulo `Word`, but for the exceptions that the property names.
- `FlowIsReported` is arithmetic modulo `Limit`; its lemmas are about adding and
  subtracting on the circle of the totals.
- `ValidReportsAreWhole` holds for any division of a day into periods, of a period into
  hours and of an hour into units. When two reports have ended since the last
  disturbance, `PastTM` is the hour of the last cycle (`Tested`), the running report
  began with its period, and its age is the part of the period that is over (`Aged`).
- `QuietOnesStay` and `EveryClientInOrder` rest on `SocketsHold` and on what erasing
  keeps of a list (`WithoutKeeps`). `EveryClientInOrder` needs that `m_list` is always
  the run of the last events and that a connection which is accepted was sent nothing.
- `ProcedureAdvances` gives `Ahead` as a variant: three for every stage that is left
  (twenty at most: START, STABILIZATION and two passes of nine) and the state of the
  timer. A cycle that changes the state takes a stage off; one that stays in it starts
  the timer or waits for it; the step from FORWARD to REVERSE pays for the second pass.
  It holds whatever the timer is left in by an abort.
- `NobodyForgets`: a thread that has read FINISH goes straight to its end, since the
  finish is tested before pause and restore; until then the command lies in the
  mailbox, and what resets it unread counts as lost.
- `SaveIsHeld`: the request (`doSaveVars`) is cleared before the dump is written. A
  failed write halts, and a running system without `--no-dump` has the prefix that makes
  a dump whole (`SaveOK`).
- `RunsThenHalts`: `setLiveStatus` tests and sets in two steps, and a HALT may come in
  between, but only from DUMP_TOTALS or DUMP_VARS: while the system runs, no thread is
  between them.
- `TestGoesOn` follows the methods as `DosesSum` does: none of
  them writes `sinceStart` but what starts a sampling or puts it back to IDLE, the passing
  of time adds to it, a clock set back takes from it what it is set back by, and a
  calculation leaves the test when its time is over.
- `FeedIsImplemented` is a refinement: a turn that delivers maps to `Deliver` with the
  clients that stay, one that leaves no client to `AllLeave`, an acceptance to `Join` with
  the evicted client, an added event to `Publish` and all other steps to a stutter. It uses
  that `m_list` is the run of the last events, which makes the mark a number and what
  `NewClient` sends the events behind it.
- `NoChatterOfLimits` is about the operator alone, by cases over old and new status; it
  needs no order of the four limits, because the tests are made in one.

Where a proof needs an induction, it is an argument by the least counterexample: a set
of numbers that is not empty has a least element (`Least`, from the well-foundedness of
`<`), and a set of finite sets that is not empty has a minimal one (`SubsetInduction`).
With them a recursive function is shown to exist and to have its equations
(`VisitsStep` for the loop of the selector, `KeptExists` for the list of clients,
`IterExists` for sums over sets of streams). The general form, an induction theorem
for any predicate, is out of the prover's reach.

`InProgressCoherent`, `SetupFrozen`, `EndsAfterAll`, `OnScale`, `NeverByTime`,
`PauseHeld`, `CompletesWithOneDetector`, `Sockets`, `NoneLost`, `RunsUntilHalt`,
`SaveHeld` and the type invariants of all components but the selector are proved and in
no run. `TCPServer` states no type invariant of its own: `Sockets` has the part that is
needed.

Five of these results are the safety part of a liveness property: `Advances` of
`ProcedureEnds`, `WaitsForAsked` of `EndsUnlessLost`, `RunsUntilHalt` of `HaltIsFinal`,
`SaveHeld` of `ParamsSaved`, `TestAdvances` of `TestEnds`. They say that nothing takes
back what has been gained; that the threads make the next step is fairness, and stays
with TLC.

Only model-checked: everything that must eventually happen (`ProcedureEnds`,
`RecoversWithConf`, `ParamsSaved`, `HaltIsFinal`, `EndsUnlessLost`, `Taken`,
`TestEnds`, `AllTaken`, `ReportsEnd`, `InputTaken`, `FaultFollows`), since liveness and
ENABLED are out of the prover's reach. Every invariant and every action property of a
passing run is proved.

## 5. Observations made while modelling

Found in the code, reproduced by the models or read from them, with the runs above.

- `rProve`: a two-detector pass can never complete, because the detector of the first
  wait stays latched and is an error in the second (`prove.cpp:664`; run
  `prove_second_detector`). ABORT leaves the timer started, so the next START skips
  `clearAverage` and `connectToLine` (`prove.cpp:628`). `State::ABORT` is never
  entered. SIMULATE combined with another flag drives the valve (`prove.h:152`).
  `stream_no` is bound to the XML line and stream 0 is always selected
  (`prove.cpp:814`).
- Data manager: a crash while FILE_CONF is rewritten leaves the system in HALT for
  ever, since a configuration is accepted in COLD-START only (`data_manager.cpp:455`;
  hence the condition in `RecoversWithConf`, which allows `--force-run` as well).
  Confirming the parameters after the totals loads nothing (`manager_dump.cpp:253`).
  With a dump of the parameters of an older program the accepted totals are not loaded
  and are overwritten (`manager_dump.cpp:128`). With `--no-dump` the saves write files
  without root and hash, which the next boot deletes before it halts; `ParamsSaved`
  excludes it. `setLiveStatus` may put RUNNING over a HALT of another thread, and later
  halts return at once because `Halt` stays set (`data_manager.cpp:58`). A crash between
  the deletion of an unusable dump and the request for a cold restart boots into RUNNING
  with zero totals (`manager_dump.cpp:107`; `TotalsKept` counts the deleted totals as given
  up). Two threads that
  save FILE_RESTART at once may leave "coldg", which requests nothing
  (`data_manager.cpp:109`). The result of `fclose` is not looked at: a full disk is a
  successful save (`simplefile.cpp:140`).
- Threads: a FINISH set between the read and the reset of the command is never seen
  (`thread_class.cpp:150`), and `closeAll` then joins for ever (`threadmaster.cpp:99`);
  hence the condition of `EndsUnlessLost`. The infinite pause of a new interface is reset
  before it is tested and ends after one turn (`thread_class.cpp:151`).
  `rThreadMaster::add` pushes to the list without a lock (`threadmaster.cpp:140`).
- External variables: `startInterfaces` links the variables of the running thread
  master without a lock, and `readExt` does not test `m_var` as `writeExt` does
  (`variable_class.cpp:208`); a dumped external variable that is not linked yet is loaded
  through a null pointer (`manager_dump.cpp:186`). The dump that a set triggers holds the
  old value of an external variable (`variable_class.cpp:136`).
- Selector: from the last input NEXT selects the place behind it for one calculation
  (`data_selector.cpp:150`; `PhantomShort` bounds it). TOERROR has no `break` and
  selects an input instead of the keypad. With three inputs only one other is tried.
  An automatic switch is reported as a selection by the user (`data_selector.cpp:109`).
  Four links are refused.
- Sampler: START with the method PERIOD divides by zero (`data_sampler.cpp:179`; proved as
  `TimeNeverWorks`), so WORKTIME is never reached; VOLUME and MASS, whose interval is
  infinite for the same reason, never take a dose. After a wrap of the tick no dose is
  due until the time of the test is over (299). A test of 0 doses takes a dose in every
  calculation (308). TEST with a can number above the last reads behind `m_can` (235).
  Nothing calls `onResume` (run `sampler_resume`). A clock set back puts off the end of
  a test. The stop contact is ignored while the closing of the start contact is kept,
  and contacts act in ERROR too. `m_grab` is reset before the test for "already
  calculated" (112).
- Metering: without a new poll `m_impulse` keeps its value and is counted again
  (`counter.cpp:130`; the exception in `PulsesKept`). A calculation before the first poll
  reads 0 and counts the whole hardware count with the next one. Simulation of the type
  NONE sets the count to 0, which wraps. Flow rates keep their last value while the
  K-factor is not valid (`stream.cpp:151`). The masses of a station and of its
  streams drift apart, since each total is rounded to five decimals when it grows
  (`total.cpp:82`; bounded by `SavedAgree`). `rTotal::sub` gives `MAX - sub1` instead of
  `sub1 + MAX - sub2` after a wrap (`total.cpp:124`).
- Report: `PastTM` is not initialised, so the first test may end the report that `run`
  has begun and mark its successor, begun in the middle of a period, VALIDATE
  (`data_report.cpp:763`; `data_report.h:68` says otherwise); a set clock has the same
  effect (both are the `doubt` of `ValidIsWhole`). The flow of the cycle that ends a
  report belongs to none, and a completed report has not the totals of its source, as
  `data_report.h:126` wants it: `store` comes before they are taken over. BATCH reports
  never end. QUARTERLY tests `(tm_mon - 1) % 3`. `IsLeapYear` is always false
  (`common.cpp:100`). The weights of two averages are swapped (`data_report.cpp:278`).
  Two reports of one second share a file.
- Analog inputs: the NaN of a fault is overwritten by the physical value in PHIS
  without a substitute; AKEYPAD and LASTGOOD are not left automatically; a mode number
  that is no mode gets no substitute; `m_lastGood` is not initialised (`ai.cpp:227`), and
  a torn reading may become the last good value (`GoodOrTorn`). Before the first poll the
  code is 0 and the state good.
- Server and events: a new client is sent `m_list` at once and again by the turn
  (`event/manager.cpp:56` and 90; `SentInOrder` allows exactly this repetition);
  `Maxfd` is taken from the last client only (`tcp_class.cpp:229`; the exception in
  `InputTaken`); a failing `select` disconnects every client (279); a failure of
  TCP_NODELAY returns without unlocking (97); a failed or short send loses the event
  for that client (363; `rClientTCP::Send` also takes -1 for a length); the archive holds
  one event more than `MAX_EVENT` (`event/manager.cpp:131`); an event client that sends
  anything is disconnected.

## 6. Possible extensions

Discrete inputs with the debounce of their channel; framing of packets cut anywhere,
against a reference definition; snapshots of reports; several stations that share a
stream.

## 7. Not modelled

The source tree has 214 000 lines, of which about 39 000 are the program's own; the
others are vendored (open62541, protobuf, tinyxml2, cJSON, catch). The models stand for
the control logic; left out, component by component:

- Densities, viscosities, water content, scaling, unit conversion, flow rates, averages
  and K-factors: floating-point arithmetic and iterations. They are a large part of
  `tritonn/`.
- Parsing of XML, texts and configuration objects: their outcome (valid or not) is an
  input of `DataManager`.
- Requests and answers of JSON, terminal, Modbus and OPC UA: parsing and formatting;
  the calls they make are actions of `DataManager`, `LiveStatus`, `VariableExchange` and
  of the objects. Framing of packets and the client side of TCP.
- Discrete inputs and outputs, analog outputs: the form of the analog input with fewer
  modes. Simulation and calibration of modules.
- The log manager: a list delivered by the same server as the events.
- Numeric results of a prover procedure; averages, snapshots and files of a report; the
  fill level of a can; the statistics and warnings of `rThreadMaster`; the linking of
  external variables (done when the model begins).
- CAN and hardware access, system commands, documentation generator, tools.
