---------------------------- MODULE ThreadMaster ----------------------------
(***************************************************************************)
(* rThreadClass, the base class of every thread, with its commands, pauses *)
(* and statuses (src/shared/thread_class.cpp), and rThreadMaster, which    *)
(* closes all threads when a restart is commanded                          *)
(* (src/tritonn/threadmaster.cpp, main.cpp).                               *)
(*                                                                         *)
(* Command, Pause and Status are rSafityValue: each Get and each Set locks *)
(* on its own, so a cycle of rThreadClass::Proccesing is several steps.    *)
(***************************************************************************)
EXTENDS Naturals, Sequences

CONSTANTS
  ThreadList,  \* m_threadList: the threads in the order they were added
  Paused,      \* threads created with Pause = -1 (Modbus and OPC UA interfaces)
  Requesters,  \* threads that command a restart
  MaxPause     \* bound: number of pauses and restores

Master == "master"
Workers == {ThreadList[i] : i \in 1..Len(ThreadList)}
Threads == Workers \cup {Master}
Infinite == "inf"

ASSUME ThreadMasterAssumption ==
  /\ ThreadList \in Seq(Workers) /\ Master \notin Workers
  /\ \A i, j \in 1..Len(ThreadList) : ThreadList[i] = ThreadList[j] => i = j
  /\ Paused \subseteq Workers /\ Requesters \subseteq Workers /\ MaxPause \in Nat

VARIABLES
  Command, Pause, Status,  \* of each thread
  tpc,        \* where a thread is in its cycle
  command,    \* the local variables of rThreadClass::Proccesing
  pause,
  closing,    \* index of the thread that closeAll closes
  main,       \* the main thread: "wait" for CLOSED, then "end"
  requested,  \* history: a restart was commanded
  lost,       \* history: a FINISH was overwritten before it was read
  pauses      \* number of pauses and restores so far

locals == <<tpc, command, pause>>
history == <<requested, lost, pauses>>
vars == <<Command, Pause, Status, locals, closing, main, history>>

Init ==
  /\ Command = [t \in Threads |-> "NONE"]
  /\ Pause = [t \in Threads |-> IF t \in Paused THEN Infinite ELSE "0"]
  /\ Status = [t \in Threads |-> "UNDEF"]
  /\ tpc = [t \in Threads |-> "top"]
  /\ command = [t \in Threads |-> "NONE"] /\ pause = [t \in Threads |-> "0"]
  /\ closing = 0 /\ main = "wait"
  /\ requested = FALSE /\ lost = FALSE /\ pauses = 0

Goto(t, from, to) == tpc[t] = from /\ tpc' = [tpc EXCEPT ![t] = to]
SetStatus(t, s) == Status' = [Status EXCEPT ![t] = s]
-----------------------------------------------------------------------------
(* rThreadClass::Proccesing, of every thread. *)

ReadCommand(t) ==
  /\ Goto(t, "top", "readPause")
  /\ command' = [command EXCEPT ![t] = Command[t]]
  /\ UNCHANGED <<Command, Pause, Status, pause, closing, main, history>>

ReadPause(t) ==
  /\ Goto(t, "readPause", "reset")
  /\ pause' = [pause EXCEPT ![t] = Pause[t]]
  /\ UNCHANGED <<Command, Pause, Status, command, closing, main, history>>

ResetCommand(t) ==
  /\ Goto(t, "reset", "resetPause")
  /\ Command' = [Command EXCEPT ![t] = "NONE"]
  /\ lost' = (lost \/ (Command[t] = "FINISH" /\ command[t] # "FINISH"))
  /\ UNCHANGED <<Pause, Status, command, pause, closing, main, requested, pauses>>

ResetPause(t) ==
  /\ Goto(t, "resetPause", "decide")
  /\ Pause' = [Pause EXCEPT ![t] = "0"]
  /\ UNCHANGED <<Command, Status, command, pause, closing, main, history>>

\* A finished thread returns from its Proccesing; the master closes all first.
Finished(t) ==
  /\ command[t] = "FINISH"
  /\ Goto(t, "decide", IF t = Master THEN "closeAll" ELSE "done")
  /\ SetStatus(t, "FINISHED")
  /\ closing' = IF t = Master THEN Len(ThreadList) ELSE closing
  /\ UNCHANGED <<Command, Pause, command, pause, main, history>>

\* Mutant: an infinite pause is looked at before the command.
Goes_PauseFirst(t) ==
  /\ command[t] # "FINISH" \/ pause[t] = Infinite
  /\ IF command[t] # "RESTORE" /\ pause[t] = Infinite
     THEN Goto(t, "decide", "top") /\ SetStatus(t, "PAUSED")
     ELSE IF command[t] # "RESTORE" /\ pause[t] # "0"
     THEN Goto(t, "decide", "sleep") /\ SetStatus(t, "PAUSED")
     ELSE Goto(t, "decide", "work") /\ SetStatus(t, "RUNNING")
  /\ UNCHANGED <<Command, Pause, command, pause, closing, main, history>>

\* An infinite pause goes back for the next command; a finite one, like the
\* delay of the thread, is a sleep.
Goes(t) ==
  /\ command[t] # "FINISH"
  /\ IF command[t] # "RESTORE" /\ pause[t] = Infinite
     THEN Goto(t, "decide", "top") /\ SetStatus(t, "PAUSED")
     ELSE IF command[t] # "RESTORE" /\ pause[t] # "0"
     THEN Goto(t, "decide", "sleep") /\ SetStatus(t, "PAUSED")
     ELSE Goto(t, "decide", "work") /\ SetStatus(t, "RUNNING")
  /\ UNCHANGED <<Command, Pause, command, pause, closing, main, history>>

Wakes(t) ==
  /\ Goto(t, "sleep", "work") /\ SetStatus(t, "RUNNING")
  /\ UNCHANGED <<Command, Pause, command, pause, closing, main, history>>

\* The rest of the thread's own loop.
Works(t) ==
  /\ Goto(t, "work", "top")
  /\ UNCHANGED <<Command, Pause, Status, command, pause, closing, main, history>>

Cycle(t) ==
  \/ ReadCommand(t) \/ ReadPause(t) \/ ResetCommand(t) \/ ResetPause(t)
  \/ Finished(t) \/ Goes(t) \/ Wakes(t) \/ Works(t)
-----------------------------------------------------------------------------
(* The commands of other threads. *)

\* rDataManager::Restart ends with rThreadMaster::Finish.
RequestFinish(t) ==
  /\ tpc[t] = "work" /\ ~requested
  /\ Command' = [Command EXCEPT ![Master] = "FINISH"]
  /\ requested' = TRUE
  /\ UNCHANGED <<Pause, Status, locals, closing, main, lost, pauses>>

\* A thread pauses itself between two attempts to reconnect.
SetPause(t) ==
  /\ tpc[t] = "work" /\ pauses < MaxPause /\ pauses' = pauses + 1
  /\ Pause' = [Pause EXCEPT ![t] = "1"]
  /\ UNCHANGED <<Command, Status, locals, closing, main, requested, lost>>

Restore(t) ==
  /\ pauses < MaxPause /\ pauses' = pauses + 1
  /\ Command' = [Command EXCEPT ![t] = "RESTORE"]
  /\ lost' = (lost \/ Command[t] = "FINISH")
  /\ UNCHANGED <<Pause, Status, locals, closing, main, requested>>
-----------------------------------------------------------------------------
(* rThreadMaster::closeAll and main. *)

\* Mutant: the list is closed from its beginning.
Order_Forward(i) == ThreadList[Len(ThreadList) + 1 - i]

\* reversed(m_threadList): the thread closed when `closing' is i.
Order(i) == ThreadList[i]

FinishThread ==
  /\ closing > 0 /\ Goto(Master, "closeAll", "join")
  /\ Command' = [Command EXCEPT ![Order(closing)] = "FINISH"]
  /\ UNCHANGED <<Pause, Status, command, pause, closing, main, history>>

\* pthread_join
Join ==
  /\ Goto(Master, "join", "closeAll") /\ tpc[Order(closing)] = "done"
  /\ closing' = closing - 1
  /\ UNCHANGED <<Command, Pause, Status, command, pause, main, history>>

\* Mutant: Closed is called before the status is FINISHED.
CloseMaster_Early ==
  /\ closing = 0 /\ Goto(Master, "closeAll", "done")
  /\ Command' = [Command EXCEPT ![Master] = "FINISH"]
  /\ UNCHANGED <<Pause, Status, command, pause, closing, main, history>>

\* closeAll ends with Finish; Closed accepts a finished thread only.
CloseMaster ==
  /\ closing = 0 /\ Goto(Master, "closeAll", "done")
  /\ Command' = [Command EXCEPT ![Master] = "FINISH"]
  /\ IF Status[Master] = "FINISHED" THEN SetStatus(Master, "CLOSED") ELSE UNCHANGED Status
  /\ UNCHANGED <<Pause, command, pause, closing, main, history>>

MainEnds ==
  /\ main = "wait" /\ Status[Master] = "CLOSED" /\ main' = "end"
  /\ UNCHANGED <<Command, Pause, Status, locals, closing, history>>

MasterThread == FinishThread \/ Join \/ CloseMaster

Next ==
  \/ \E t \in Threads : Cycle(t)
  \/ \E t \in Requesters : RequestFinish(t)
  \/ \E t \in Workers : SetPause(t) \/ Restore(t)
  \/ MasterThread \/ MainEnds

\* Every thread is scheduled; commands come when they come.
Fairness ==
  /\ \A t \in Threads : WF_vars(Cycle(t))
  /\ WF_vars(MasterThread) /\ WF_vars(MainEnds)

Spec == Init /\ [][Next]_vars /\ Fairness
-----------------------------------------------------------------------------
(* Properties. *)

\* Every variable keeps its type: closeAll indexes m_threadList only.
TypeOK ==
  /\ Command \in [Threads -> {"NONE", "FINISH", "RESTORE"}]
  /\ Pause \in [Threads -> {"0", "1", Infinite}]
  /\ Status \in [Threads -> {"UNDEF", "RUNNING", "PAUSED", "FINISHED", "CLOSED"}]
  /\ tpc \in [Threads -> {"top", "readPause", "reset", "resetPause", "decide",
                          "sleep", "work", "done", "closeAll", "join"}]
  /\ command \in [Threads -> {"NONE", "FINISH", "RESTORE"}]
  /\ pause \in [Threads -> {"0", "1", Infinite}]
  /\ closing \in 0..Len(ThreadList) /\ main \in {"wait", "end"}
  /\ requested \in BOOLEAN /\ lost \in BOOLEAN /\ pauses \in 0..MaxPause

\* closeAll: a thread ends only when all threads added after it have ended, so
\* the log and event managers outlive the threads that use them.
ClosedInReverse ==
  \A i, j \in 1..Len(ThreadList) :
    i < j /\ tpc[ThreadList[i]] = "done" => tpc[ThreadList[j]] = "done"

\* main returns after every thread has returned from its Proccesing.
EndsAfterAll == main = "end" => \A t \in Threads : tpc[t] = "done"

\* FINISH is on its way to a thread, or has done its work.
Asked(t) == Command[t] = "FINISH" \/ command[t] = "FINISH" \/ tpc[t] = "done"

\* Unless a FINISH was overwritten, no thread forgets that it was told to finish,
\* whatever its pauses and restores: the master does not after a commanded restart,
\* and closeAll joins no thread that will not end.
WaitsForAsked ==
  ~lost => /\ requested => Asked(Master)
           /\ tpc[Master] = "join" => Asked(Order(closing))

\* A commanded restart ends the process, unless a FINISH was overwritten before
\* its thread had read it.
EndsUnlessLost == requested ~> (main = "end" \/ lost)

=============================================================================
