----------------------------- MODULE LiveStatus -----------------------------
(***************************************************************************)
(* The live status of rDataManager between its threads: DoHalt and         *)
(* setLiveStatus (src/tritonn/data_manager.cpp) take several steps each,   *)
(* on two values that are locked one at a time (rSafityValue), and run in  *)
(* the data thread, in the IO and interface threads and in the JSON thread.*)
(* The data thread looks at the status before each object it calculates.   *)
(***************************************************************************)
EXTENDS Naturals, FiniteSets

CONSTANTS
  Halters,   \* threads, other than the data thread, that call DoHalt
  Objects,   \* number of objects in m_listSource
  InitLive,  \* status in which LoadConfig has left the system
  MaxHalt    \* bound: DoHalt calls of a thread

Data == "data"

ASSUME LiveStatusAssumption ==
  /\ Data \notin Halters /\ IsFiniteSet(Halters)
  /\ Objects \in Nat \ {0} /\ MaxHalt \in Nat
  /\ InitLive \subseteq {"RUNNING", "DUMP_TOTALS", "DUMP_VARS"}

\* The threads that call DoHalt.
Callers == Halters \cup {Data}

VARIABLES
  m_live,    \* status
  Halt,      \* flag
  fRestart,  \* content of FILE_RESTART
  hpc,       \* where a thread is in DoHalt
  calls,     \* number of DoHalt calls a thread made
  item,      \* object the data thread calculates; 0: between two cycles
  jpc,       \* the JSON thread in forceLoadDumpTotals or forceLoadDumpVars
  target     \* status it is about to set

liveVars == <<m_live, Halt, fRestart, hpc, calls, item, jpc, target>>

LiveInit ==
  /\ m_live \in InitLive /\ Halt = 0 /\ fRestart = "none"
  /\ hpc = [t \in Callers |-> "out"] /\ calls = [t \in Callers |-> 0]
  /\ item = 0 /\ jpc = "out" /\ target = "RUNNING"
-----------------------------------------------------------------------------
(* DoHalt of thread t, value by value. *)

At(t, from, to) == hpc[t] = from /\ hpc' = [hpc EXCEPT ![t] = to]

\* if (Halt.Get()) return
HaltTest(t) ==
  /\ calls[t] < MaxHalt /\ (t = Data => item > 0)
  /\ hpc[t] = "out"
  /\ calls' = [calls EXCEPT ![t] = @ + 1]
  /\ hpc' = [hpc EXCEPT ![t] = IF Halt = 1 THEN "out" ELSE "tested"]
  /\ UNCHANGED <<m_live, Halt, fRestart, item, jpc, target>>

HaltFlag(t) ==
  /\ At(t, "tested", "flagged") /\ Halt' = 1
  /\ UNCHANGED <<m_live, fRestart, calls, item, jpc, target>>

HaltStatus(t) ==
  /\ At(t, "flagged", "halted") /\ m_live' = "HALT"
  /\ UNCHANGED <<Halt, fRestart, calls, item, jpc, target>>

\* simpleFileSave(FILE_RESTART, "cold"): truncated, then written.
HaltTruncate(t) ==
  /\ At(t, "halted", "saving") /\ fRestart' = "empty"
  /\ UNCHANGED <<m_live, Halt, calls, item, jpc, target>>

\* Mutant: the write does not happen (its result is not looked at).
HaltSave_Lost(t) ==
  /\ At(t, "saving", "out")
  /\ UNCHANGED <<m_live, Halt, fRestart, calls, item, jpc, target>>

HaltSave(t) ==
  /\ At(t, "saving", "out") /\ fRestart' = "cold"
  /\ UNCHANGED <<m_live, Halt, calls, item, jpc, target>>

DoHalt(t) == HaltTest(t) \/ HaltFlag(t) \/ HaltStatus(t) \/ HaltTruncate(t) \/ HaltSave(t)
-----------------------------------------------------------------------------
(* The data thread. *)

\* Mutant: the status is not looked at.
CycleBegins_AnyStatus ==
  /\ item = 0
  /\ item' = 1
  /\ UNCHANGED <<m_live, Halt, fRestart, hpc, calls, jpc, target>>

\* A cycle begins; its objects are calculated if the status is RUNNING.
CycleBegins ==
  /\ item = 0 /\ m_live = "RUNNING"
  /\ item' = 1
  /\ UNCHANGED <<m_live, Halt, fRestart, hpc, calls, jpc, target>>

\* The object is calculated and, if the status is still RUNNING, the next one is
\* begun; otherwise the loop is left.
NextObject ==
  /\ item > 0 /\ hpc[Data] = "out"
  /\ item' = IF item < Objects /\ m_live = "RUNNING" THEN item + 1 ELSE 0
  /\ UNCHANGED <<m_live, Halt, fRestart, hpc, calls, jpc, target>>
-----------------------------------------------------------------------------
(* The JSON thread: the operator confirms or declines a dump. *)

\* forceLoadDumpTotals and forceLoadDumpVars look at the status; after the
\* totals it is always the turn of the parameters.
ForceLoad ==
  /\ jpc = "out" /\ m_live \in {"DUMP_TOTALS", "DUMP_VARS"}
  /\ jpc' = "entered"
  /\ target' = IF m_live = "DUMP_TOTALS" THEN "DUMP_VARS" ELSE "RUNNING"
  /\ UNCHANGED <<m_live, Halt, fRestart, hpc, calls, item>>

\* setLiveStatus: if (m_live.Get() != Live::HALT) ...
SetTest ==
  /\ jpc = "entered"
  /\ jpc' = IF m_live = "HALT" THEN "out" ELSE "tested"
  /\ UNCHANGED <<m_live, Halt, fRestart, hpc, calls, item, target>>

\* ... m_live.Set(status)
SetLive ==
  /\ jpc = "tested" /\ jpc' = "out"
  /\ m_live' = target
  /\ UNCHANGED <<Halt, fRestart, hpc, calls, item, target>>

Json == ForceLoad \/ SetTest \/ SetLive

LiveNext == (\E t \in Callers : DoHalt(t)) \/ CycleBegins \/ NextObject \/ Json

\* Threads are scheduled; whether an object or a module fails is not.
LiveFairness ==
  /\ \A t \in Callers :
       WF_liveVars(HaltFlag(t) \/ HaltStatus(t) \/ HaltTruncate(t) \/ HaltSave(t))
  /\ WF_liveVars(CycleBegins) /\ WF_liveVars(NextObject) /\ WF_liveVars(SetTest \/ SetLive)

LiveSpec == LiveInit /\ [][LiveNext]_liveVars /\ LiveFairness
-----------------------------------------------------------------------------
(* Properties. *)

\* Every variable holds a value of its type.
LiveTypeOK ==
  /\ m_live \in {"DUMP_TOTALS", "DUMP_VARS", "RUNNING", "HALT"} /\ Halt \in 0..1
  /\ fRestart \in {"none", "empty", "cold"}
  /\ hpc \in [Callers -> {"out", "tested", "flagged", "halted", "saving"}]
  /\ calls \in [Callers -> 0..MaxHalt] /\ item \in 0..Objects
  /\ jpc \in {"out", "entered", "tested"} /\ target \in {"DUMP_VARS", "RUNNING"}

InDoHalt == {t \in Callers : hpc[t] # "out"}

\* Once Halt is set and every DoHalt has returned, a cold restart is on the disk,
\* however many threads halted at once.
HaltRequestsCold == Halt = 1 /\ InDoHalt = {} => fRestart = "cold"

\* A system that runs does so until it halts, and then stays in HALT: no dump that the
\* JSON thread confirms late takes it back, and none takes it to another status.
RunsUntilHalt == [](m_live = "RUNNING" => [](m_live = "RUNNING" \/ [](m_live = "HALT")))

\* A system that runs when a thread halts it stops calculating and stays in HALT,
\* whatever other threads halt it too and however far its cycle is.
HaltIsFinal ==
  (m_live = "RUNNING" /\ \E t \in Callers : hpc[t] = "flagged")
    ~> [](m_live = "HALT" /\ item = 0)

=============================================================================
