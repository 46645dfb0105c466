------------------------ MODULE ThreadMaster_proofs -------------------------
(***************************************************************************)
(* Theorems about ThreadMaster, for any list of threads, whichever of them *)
(* are paused, pause themselves, are restored or command the restart: in   *)
(* which order they end, and that main outlives them all.  Both hold       *)
(* although a FINISH may be lost: closeAll waits then, and nothing ends.   *)
(*                                                                         *)
(* Theorems about LiveStatus follow, for any number of threads that halt   *)
(* the system at once and any number of objects.                           *)
(***************************************************************************)
EXTENDS ThreadMaster, LiveStatus, TLAPS

N == Len(ThreadList)

\* The master is in closeAll, or behind it.
Closing == tpc[Master] \in {"closeAll", "join", "done"}

\* closeAll has asked no thread before its turn, and is past those that are done.
InTurn ==
  \A j \in 1..N :
    /\ Asked(ThreadList[j]) => Closing /\ closing <= j /\ (closing = j => tpc[Master] = "join")
    /\ Closing /\ closing < j => tpc[ThreadList[j]] = "done"

\* Only the master is in closeAll, and it is closed after it has closed all.
MasterLast ==
  /\ tpc[Master] = "join" => closing > 0
  /\ tpc[Master] = "done" => closing = 0
  /\ \A j \in 1..N : tpc[ThreadList[j]] \notin {"closeAll", "join"}
  /\ Status[Master] = "CLOSED" \/ main = "end" => tpc[Master] = "done"

\* The inductive invariant.
IInv == TypeOK /\ InTurn /\ MasterLast

-----------------------------------------------------------------------------

\* The list holds every thread but the master, each once.
LEMMA List ==
  /\ N \in Nat /\ MaxPause \in Nat /\ Master \in Threads
  /\ \A j \in 1..N : ThreadList[j] \in Threads /\ ThreadList[j] # Master
  /\ \A i, j \in 1..N : ThreadList[i] = ThreadList[j] => i = j
  /\ \A t \in Workers : t # Master /\ \E j \in 1..N : t = ThreadList[j]
BY ThreadMasterAssumption DEF N, Threads, Workers

LEMMA InitInv == Init => IInv
<1>. SUFFICES ASSUME Init PROVE IInv
  OBVIOUS
<1>1. TypeOK
  <2>1. requested \in BOOLEAN /\ lost \in BOOLEAN
    BY Zenon DEF Init
  <2>2. closing \in 0..Len(ThreadList) /\ pauses \in 0..MaxPause
    BY List DEF Init, N
  <2>3. /\ Command \in [Threads -> {"NONE", "FINISH", "RESTORE"}]
        /\ Pause \in [Threads -> {"0", "1", Infinite}]
        /\ Status \in [Threads -> {"UNDEF", "RUNNING", "PAUSED", "FINISHED", "CLOSED"}]
        /\ tpc \in [Threads -> {"top", "readPause", "reset", "resetPause", "decide",
                                "sleep", "work", "done", "closeAll", "join"}]
        /\ command \in [Threads -> {"NONE", "FINISH", "RESTORE"}]
        /\ pause \in [Threads -> {"0", "1", Infinite}] /\ main \in {"wait", "end"}
    BY DEF Init
  <2>. QED  BY <2>1, <2>2, <2>3, Zenon DEF TypeOK
<1>2. \A t \in Threads : Command[t] = "NONE" /\ command[t] = "NONE" /\ tpc[t] = "top" /\ Status[t] = "UNDEF"
  BY DEF Init
<1>3. main = "wait" /\ closing = 0
  BY DEF Init
<1>. QED  BY <1>1, <1>2, <1>3, List DEF IInv, InTurn, MasterLast, Closing, Asked

\* The type of the variables is kept by every action.
LEMMA TypeKept == TypeOK /\ MasterLast /\ Next => TypeOK'
<1>. SUFFICES ASSUME TypeOK, MasterLast, Next PROVE TypeOK'
  OBVIOUS
<1>. USE DEF TypeOK, Goto, SetStatus, locals, history, Infinite
<1>1. ASSUME NEW t \in Threads, Cycle(t) PROVE TypeOK'
  <2>1. CASE ReadCommand(t)  BY <2>1 DEF ReadCommand
  <2>2. CASE ReadPause(t)    BY <2>2 DEF ReadPause
  <2>3. CASE ResetCommand(t)
    <3>. DEFINE l == lost \/ (Command[t] = "FINISH" /\ command[t] # "FINISH")
    <3>1. l \in BOOLEAN
      OBVIOUS
    <3>2. lost' = l
      BY <2>3 DEF ResetCommand
    <3>. HIDE DEF l
    <3>. QED  BY <2>3, <3>1, <3>2 DEF ResetCommand
  <2>4. CASE ResetPause(t)   BY <2>4 DEF ResetPause
  <2>5. CASE Finished(t)     BY <2>5, List DEF Finished, N
  <2>6. CASE Goes(t)         BY <2>6 DEF Goes
  <2>7. CASE Wakes(t)        BY <2>7 DEF Wakes
  <2>8. CASE Works(t)        BY <2>8 DEF Works
  <2>. QED  BY <1>1, <2>1, <2>2, <2>3, <2>4, <2>5, <2>6, <2>7, <2>8 DEF Cycle
<1>2. ASSUME NEW t \in Requesters, RequestFinish(t) PROVE TypeOK'
  BY <1>2 DEF RequestFinish
<1>3. ASSUME NEW t \in Workers, SetPause(t) PROVE TypeOK'
  BY <1>3, List DEF SetPause
<1>4. ASSUME NEW t \in Workers, Restore(t) PROVE TypeOK'
  <2>. DEFINE l == lost \/ Command[t] = "FINISH"
  <2>1. l \in BOOLEAN
    OBVIOUS
  <2>2. lost' = l
    BY <1>4 DEF Restore
  <2>. HIDE DEF l
  <2>3. pauses' \in 0..MaxPause
    BY <1>4, List DEF Restore
  <2>4. Command' \in [Threads -> {"NONE", "FINISH", "RESTORE"}]
    BY <1>4 DEF Restore
  <2>. QED  BY <1>4, <2>1, <2>2, <2>3, <2>4 DEF Restore
<1>5. CASE MasterThread
  <2>1. CASE FinishThread  BY <2>1 DEF FinishThread
  <2>2. CASE Join
    <3>1. closing > 0
      BY <2>2 DEF Join, MasterLast
    <3>2. closing - 1 \in 0..Len(ThreadList)
      BY <3>1, List DEF N
    <3>. QED  BY <2>2, <3>2 DEF Join
  <2>3. CASE CloseMaster   BY <2>3 DEF CloseMaster
  <2>. QED  BY <1>5, <2>1, <2>2, <2>3 DEF MasterThread
<1>6. CASE MainEnds
  BY <1>6 DEF MainEnds
<1>. QED  BY <1>1, <1>2, <1>3, <1>4, <1>5, <1>6 DEF Next

-----------------------------------------------------------------------------

\* What a step of a thread's own loop leaves alone, and what it may change.
LEMMA CycleEffect ==
  ASSUME TypeOK, NEW t \in Threads, Cycle(t)
  PROVE  /\ \A u \in Threads : u # t =>
              /\ Command'[u] = Command[u] /\ command'[u] = command[u]
              /\ tpc'[u] = tpc[u] /\ Status'[u] = Status[u]
         /\ Command'[t] \in {Command[t], "NONE"} /\ command'[t] \in {command[t], Command[t]}
         /\ tpc[t] \notin {"done", "closeAll", "join"} /\ tpc'[t] # "join"
         /\ tpc'[t] = "done" => t # Master /\ command[t] = "FINISH"
         /\ tpc'[t] = "closeAll" => t = Master
         /\ closing' = IF tpc'[t] = "closeAll" THEN N ELSE closing
         /\ Status'[t] = "CLOSED" => Status[t] = "CLOSED"
         /\ main' = main
<1>. USE DEF TypeOK, Goto, SetStatus, locals, history
<1>1. CASE ReadCommand(t)   BY <1>1 DEF ReadCommand
<1>2. CASE ReadPause(t)     BY <1>2 DEF ReadPause
<1>3. CASE ResetCommand(t)  BY <1>3 DEF ResetCommand
<1>4. CASE ResetPause(t)    BY <1>4 DEF ResetPause
<1>5. CASE Finished(t)      BY <1>5 DEF Finished, N
<1>6. CASE Goes(t)          BY <1>6 DEF Goes
<1>7. CASE Wakes(t)         BY <1>7 DEF Wakes
<1>8. CASE Works(t)         BY <1>8 DEF Works
<1>. QED  BY <1>1, <1>2, <1>3, <1>4, <1>5, <1>6, <1>7, <1>8 DEF Cycle

\* A thread that ends was asked to; the master begins to close when nobody was.
LEMMA CycleInv ==
  ASSUME IInv, NEW t \in Threads, Cycle(t)
  PROVE  InTurn' /\ MasterLast'
<1>. USE DEF IInv
<1>1. CASE t = Master
  <2>1. ~Closing /\ \A j \in 1..N : ~Asked(ThreadList[j])
    BY <1>1, CycleEffect DEF Closing, InTurn
  <2>2. \A j \in 1..N : Command'[ThreadList[j]] = Command[ThreadList[j]]
          /\ command'[ThreadList[j]] = command[ThreadList[j]] /\ tpc'[ThreadList[j]] = tpc[ThreadList[j]]
    BY <1>1, CycleEffect, List
  <2>3. tpc'[Master] \notin {"join", "done"} /\ (tpc'[Master] = "closeAll" => closing' = N)
    BY <1>1, CycleEffect
  <2>4. InTurn'
    BY <2>1, <2>2, <2>3, List DEF InTurn, Asked, Closing
  <2>5. MasterLast'
    BY <1>1, <2>1, <2>2, <2>3, CycleEffect DEF MasterLast, Closing
  <2>. QED  BY <2>4, <2>5
<1>2. CASE t # Master
  <2>1. tpc'[Master] = tpc[Master] /\ Status'[Master] = Status[Master] /\ main' = main /\ closing' = closing
    BY <1>2, CycleEffect, List
  <2>2. ASSUME NEW j \in 1..N
        PROVE  /\ (Asked(ThreadList[j]))' => Asked(ThreadList[j])
               /\ tpc[ThreadList[j]] = "done" => tpc'[ThreadList[j]] = "done"
               /\ tpc'[ThreadList[j]] \notin {"closeAll", "join"}
    BY <1>2, CycleEffect, List DEF Asked, MasterLast
  <2>3. InTurn'
    BY <2>1, <2>2 DEF InTurn, Closing
  <2>4. MasterLast'
    BY <2>1, <2>2 DEF MasterLast
  <2>. QED  BY <2>3, <2>4
<1>. QED  BY <1>1, <1>2

\* closeAll goes from the last thread of the list to the first, and waits for each.
LEMMA MasterInv ==
  ASSUME IInv, MasterThread
  PROVE  InTurn' /\ MasterLast'
<1>. USE DEF IInv
<1>. DEFINE T(j) == ThreadList[j]
<1>1. closing \in 0..N
  BY DEF TypeOK, N
<1>2. ASSUME FinishThread PROVE InTurn' /\ MasterLast'
  <2>1. /\ closing > 0 /\ tpc[Master] = "closeAll" /\ tpc'[Master] = "join"
        /\ UNCHANGED <<Status, command, closing, main>>
    BY <1>2, List DEF FinishThread, Goto, TypeOK, history
  <2>2. \A j \in 1..N : tpc'[T(j)] = tpc[T(j)] /\ (j # closing => Command'[T(j)] = Command[T(j)])
    BY <1>1, <1>2, <2>1, List DEF FinishThread, Goto, TypeOK, Order
  <2>3. InTurn'
    BY <1>1, <2>1, <2>2 DEF InTurn, Asked, Closing
  <2>4. MasterLast'
    BY <2>1, <2>2 DEF MasterLast
  <2>. QED  BY <2>3, <2>4
<1>3. ASSUME Join PROVE InTurn' /\ MasterLast'
  <2>1. /\ tpc[Master] = "join" /\ tpc'[Master] = "closeAll" /\ closing' = closing - 1
        /\ UNCHANGED <<Status, Command, command, main>> /\ tpc[T(closing)] = "done"
    BY <1>3, List DEF Join, Goto, TypeOK, history, Order
  <2>2. closing > 0 /\ Status[Master] # "CLOSED" /\ main # "end"
    BY <2>1 DEF MasterLast
  <2>3. \A j \in 1..N : tpc'[T(j)] = tpc[T(j)]
    BY <1>3, List DEF Join, Goto, TypeOK
  <2>4. InTurn'
    BY <1>1, <2>1, <2>2, <2>3 DEF InTurn, Asked, Closing
  <2>5. MasterLast'
    BY <2>1, <2>2, <2>3 DEF MasterLast
  <2>. QED  BY <2>4, <2>5
<1>4. ASSUME CloseMaster PROVE InTurn' /\ MasterLast'
  <2>1. /\ closing = 0 /\ tpc[Master] = "closeAll" /\ tpc'[Master] = "done"
        /\ UNCHANGED <<closing, command, main>>
    BY <1>4, List DEF CloseMaster, Goto, TypeOK, history
  <2>2. \A j \in 1..N : tpc'[T(j)] = tpc[T(j)] /\ Command'[T(j)] = Command[T(j)]
    BY <1>4, List DEF CloseMaster, Goto, TypeOK
  <2>3. InTurn'
    BY <2>1, <2>2 DEF InTurn, Asked, Closing
  <2>4. MasterLast'
    BY <2>1, <2>2 DEF MasterLast
  <2>. QED  BY <2>3, <2>4
<1>. QED  BY <1>2, <1>3, <1>4 DEF MasterThread

\* The commands of other threads ask no thread of the list to finish.
LEMMA OthersInv ==
  ASSUME IInv,
         \/ \E t \in Requesters : RequestFinish(t)
         \/ \E t \in Workers : SetPause(t) \/ Restore(t)
         \/ MainEnds
         \/ UNCHANGED vars
  PROVE  InTurn' /\ MasterLast'
<1>. USE DEF IInv
<1>1. /\ tpc' = tpc /\ command' = command /\ closing' = closing /\ Status' = Status
      /\ main' = "end" /\ main # "end" => Status[Master] = "CLOSED"
  BY DEF RequestFinish, SetPause, Restore, MainEnds, vars, locals
<1>2. \A j \in 1..N : Command'[ThreadList[j]] = "FINISH" => Command[ThreadList[j]] = "FINISH"
  <2>1. ASSUME NEW t \in Requesters, RequestFinish(t), NEW j \in 1..N
        PROVE  Command'[ThreadList[j]] = Command[ThreadList[j]]
    BY <2>1, List DEF RequestFinish, TypeOK
  <2>2. ASSUME NEW t \in Workers, SetPause(t) \/ Restore(t), NEW j \in 1..N, Command'[ThreadList[j]] = "FINISH"
        PROVE  Command[ThreadList[j]] = "FINISH"
    BY <2>2, List DEF SetPause, Restore, TypeOK
  <2>3. CASE MainEnds \/ UNCHANGED vars
    BY <2>3 DEF MainEnds, vars
  <2>. QED  BY <2>1, <2>2, <2>3
<1>3. InTurn'
  BY <1>1, <1>2 DEF InTurn, Asked, Closing
<1>4. MasterLast'
  BY <1>1 DEF MasterLast
<1>. QED  BY <1>3, <1>4

LEMMA StepInv == IInv /\ [Next]_vars => IInv'
<1>. SUFFICES ASSUME IInv, [Next]_vars PROVE IInv'
  OBVIOUS
<1>1. TypeOK'
  <2>1. CASE Next
    BY <2>1, TypeKept DEF IInv
  <2>2. CASE UNCHANGED vars
    BY <2>2 DEF vars, locals, history, IInv, TypeOK
  <2>. QED  BY <2>1, <2>2
<1>2. InTurn' /\ MasterLast'
  BY CycleInv, MasterInv, OthersInv DEF Next
<1>. QED  BY <1>1, <1>2 DEF IInv

LEMMA Invariant == Spec => []IInv
BY InitInv, StepInv, PTL DEF Spec

\* Every variable keeps its type, so closeAll never leaves the list of threads.
THEOREM TypeCorrect == Spec => []TypeOK
<1>1. IInv => TypeOK
  BY DEF IInv
<1>. QED  BY Invariant, <1>1, PTL

\* A thread ends only after all threads that were added after it
\* (rThreadMaster::closeAll).
THEOREM ReverseOrder == Spec => []ClosedInReverse
<1>1. IInv => ClosedInReverse
  <2>. SUFFICES ASSUME IInv, NEW i \in 1..N, NEW j \in 1..N, i < j, tpc[ThreadList[i]] = "done"
                PROVE  tpc[ThreadList[j]] = "done"
    BY DEF ClosedInReverse, N
  <2>1. Closing /\ closing <= i
    BY DEF IInv, InTurn, Asked
  <2>2. closing < j
    BY <2>1 DEF IInv, TypeOK
  <2>. QED  BY <2>1, <2>2 DEF IInv, InTurn
<1>. QED  BY Invariant, <1>1, PTL

\* When main returns, every thread has returned from its loop (main waits for the
\* master to be closed, which it is after closeAll).
THEOREM MainOutlivesAll == Spec => []EndsAfterAll
<1>1. IInv => EndsAfterAll
  <2>. SUFFICES ASSUME IInv, main = "end", NEW t \in Threads PROVE tpc[t] = "done"
    BY DEF EndsAfterAll
  <2>1. tpc[Master] = "done" /\ closing = 0
    BY DEF IInv, MasterLast
  <2>2. CASE t = Master
    BY <2>1, <2>2
  <2>3. CASE t \in Workers
    <3>1. PICK j \in 1..N : t = ThreadList[j]
      BY <2>3, List
    <3>. QED  BY <2>1, <3>1 DEF IInv, InTurn, Closing
  <2>. QED  BY <2>2, <2>3 DEF Threads
<1>. QED  BY Invariant, <1>1, PTL

-----------------------------------------------------------------------------
(* A thread that was told to finish.                                       *)

\* A thread that has read FINISH goes straight to its end.
Heard == \A t \in Threads : command[t] = "FINISH" => tpc[t] \notin {"top", "sleep", "work"}

\* What a step of a thread's own loop does to FINISH: it is read, acted on, or lost.
LEMMA CycleAsked ==
  ASSUME TypeOK, Heard, NEW t \in Threads, Cycle(t)
  PROVE  /\ Heard'
         /\ ~lost' => ~lost /\ (Asked(t) => Asked(t)')
         /\ requested' = requested
<1>. USE DEF TypeOK, Goto, SetStatus, locals, history, Heard, Asked
<1>1. CASE ReadCommand(t)   BY <1>1 DEF ReadCommand
<1>2. CASE ReadPause(t)     BY <1>2 DEF ReadPause
<1>3. CASE ResetCommand(t)
  <2>1. Heard' /\ requested' = requested
    BY <1>3 DEF ResetCommand
  <2>2. lost' = (lost \/ (Command[t] = "FINISH" /\ command[t] # "FINISH"))
    BY <1>3 DEF ResetCommand
  <2>3. command' = command /\ (tpc[t] = "done" => tpc'[t] = "done")
    BY <1>3 DEF ResetCommand
  <2>4. ~lost' => ~lost /\ (Command[t] = "FINISH" => command[t] = "FINISH")
    BY <2>2, Zenon
  <2>. QED  BY <2>1, <2>3, <2>4
<1>4. CASE ResetPause(t)    BY <1>4 DEF ResetPause
<1>5. CASE Finished(t)      BY <1>5 DEF Finished
<1>6. CASE Goes(t)          BY <1>6 DEF Goes
<1>7. CASE Wakes(t)         BY <1>7 DEF Wakes
<1>8. CASE Works(t)         BY <1>8 DEF Works
<1>. QED  BY <1>1, <1>2, <1>3, <1>4, <1>5, <1>6, <1>7, <1>8 DEF Cycle

\* What the other steps do to FINISH.
OthersKeep ==
  /\ Heard'
  /\ ~lost' => ~lost /\ \A u \in Threads : Asked(u) => Asked(u)'
  /\ requested' # requested => Asked(Master)'

\* The other steps overwrite a FINISH only if they say so.
LEMMA OthersAsked ==
  ASSUME IInv, Heard, NEW r \in Threads,
         \/ RequestFinish(r) \/ SetPause(r) \/ (r \in Workers /\ Restore(r))
         \/ MasterThread \/ MainEnds \/ UNCHANGED vars
  PROVE  OthersKeep
<1>. USE DEF IInv, TypeOK, Goto, SetStatus, locals, history, Heard, Asked, OthersKeep
<1>1. CASE RequestFinish(r)
  BY <1>1, List DEF RequestFinish
<1>2. CASE SetPause(r)
  BY <1>2, List DEF SetPause
<1>3. CASE r \in Workers /\ Restore(r)
  <2>1. /\ lost' = (lost \/ Command[r] = "FINISH") /\ requested' = requested
        /\ tpc' = tpc /\ command' = command
        /\ \A u \in Threads : u # r => Command'[u] = Command[u]
    BY <1>3 DEF Restore
  <2>2. ~lost' => ~lost /\ Command[r] # "FINISH"
    BY <2>1, Zenon
  <2>3. \A u \in Threads : Command[r] # "FINISH" /\ Asked(u) => Asked(u)'
    BY <2>1
  <2>. QED  BY <2>1, <2>2, <2>3
<1>4. CASE FinishThread
  BY <1>4, List DEF FinishThread
<1>5. CASE Join
  BY <1>5, List DEF Join
<1>6. CASE CloseMaster
  BY <1>6, List DEF CloseMaster
<1>7. CASE MainEnds
  BY <1>7 DEF MainEnds
<1>8. CASE UNCHANGED vars
  BY <1>8 DEF vars
<1>. QED  BY <1>1, <1>2, <1>3, <1>4, <1>5, <1>6, <1>7, <1>8 DEF MasterThread

\* closeAll waits for the thread it has just told to finish.
LEMMA JoinsAsked ==
  ASSUME IInv, [Next]_vars, tpc'[Master] = "join"
  PROVE  /\ closing' = closing /\ Order(closing) \in Threads
         /\ tpc[Master] # "join" => Asked(Order(closing))'
<1>. USE DEF IInv, Order
<1>1. CASE FinishThread
  <2>1. Order(closing) \in Threads /\ closing' = closing
    BY <1>1, List DEF FinishThread, TypeOK, N
  <2>. QED  BY <1>1, <2>1 DEF FinishThread, Asked, TypeOK
<1>2. CASE ~FinishThread
  <2>1. closing' = closing /\ tpc[Master] = "join"
    <3>1. ASSUME NEW t \in Threads, Cycle(t) PROVE closing' = closing /\ tpc[Master] = "join"
      BY <3>1, CycleEffect, List
    <3>2. CASE MasterThread
      BY <1>2, <3>2, List DEF MasterThread, Join, CloseMaster, Goto, TypeOK
    <3>3. ASSUME NEW t \in Threads, RequestFinish(t) \/ SetPause(t) \/ Restore(t)
          PROVE  closing' = closing /\ tpc[Master] = "join"
      BY <3>3 DEF RequestFinish, SetPause, Restore, locals
    <3>4. CASE MainEnds \/ UNCHANGED vars
      BY <3>4 DEF MainEnds, vars, locals
    <3>. QED  BY <3>1, <3>2, <3>3, <3>4, ThreadMasterAssumption DEF Next, Threads
  <2>2. closing \in 1..N
    BY <2>1 DEF MasterLast, TypeOK, N
  <2>. QED  BY <2>1, <2>2, List
<1>. QED  BY <1>1, <1>2

\* The inductive invariant, over that of the order.
HeardInv == Heard /\ WaitsForAsked

LEMMA StepHeard ==
  ASSUME IInv, HeardInv, [Next]_vars
  PROVE  HeardInv'
<1>. USE DEF HeardInv
<1>1. /\ Heard'
      /\ ~lost' => ~lost /\ \A u \in Threads : Asked(u) => Asked(u)'
      /\ requested' # requested => Asked(Master)'
  <2>1. ASSUME NEW t \in Threads, Cycle(t) PROVE OthersKeep
    <3>1. \A u \in Threads : u # t /\ Asked(u) => Asked(u)'
      BY <2>1, CycleEffect DEF Asked, IInv
    <3>. QED  BY <2>1, <3>1, CycleAsked DEF OthersKeep, IInv
  <2>2. ASSUME \A t \in Threads : ~Cycle(t) PROVE OthersKeep
    BY <2>2, OthersAsked, List, ThreadMasterAssumption DEF Next, Threads
  <2>. QED  BY <2>1, <2>2 DEF OthersKeep
<1>2. ASSUME ~lost', requested' PROVE Asked(Master)'
  <2>1. CASE requested
    BY <1>1, <1>2, <2>1, List DEF WaitsForAsked
  <2>2. CASE ~requested
    BY <1>1, <1>2, <2>2
  <2>. QED  BY <2>1, <2>2
<1>3. ASSUME ~lost', tpc'[Master] = "join" PROVE Asked(Order(closing))'
  <2>1. CASE tpc[Master] = "join"
    <3>1. Asked(Order(closing)) /\ closing' = closing /\ Order(closing) \in Threads
      BY <1>1, <1>3, <2>1, JoinsAsked DEF WaitsForAsked
    <3>2. \A u \in Threads : Asked(u) => Asked(u)'
      BY <1>1, <1>3
    <3>. QED  BY <3>1, <3>2 DEF Asked, Order
  <2>2. CASE tpc[Master] # "join"
    BY <1>3, <2>2, JoinsAsked
  <2>. QED  BY <2>1, <2>2
<1>. QED  BY <1>1, <1>2, <1>3 DEF WaitsForAsked

\* Unless a FINISH was overwritten, the master has not forgotten a commanded restart,
\* and closeAll joins no thread that has forgotten to finish
\* (rThreadClass::Proccesing, rThreadMaster::closeAll).
THEOREM NobodyForgets == Spec => []WaitsForAsked
<1>1. Init => HeardInv
  <2>1. Init => ~requested /\ \A t \in Threads : tpc[t] = "top" /\ command[t] = "NONE"
    BY DEF Init
  <2>. QED  BY <2>1, List DEF HeardInv, Heard, WaitsForAsked
<1>2. HeardInv => WaitsForAsked
  BY DEF HeardInv
<1>. QED  BY Invariant, StepHeard, <1>1, <1>2, PTL DEF Spec

-----------------------------------------------------------------------------
(* LiveStatus.                                                             *)

\* A thread that has set Halt and is not through with DoHalt.
Halting(t) == hpc[t] \in {"flagged", "halted", "saving"}

\* Once Halt is set, the file holds a cold restart, or a thread is about to write it:
\* the last of them to truncate the file is not the last to write it.
ColdOrComing == Halt = 1 => fRestart = "cold" \/ \E t \in Callers : Halting(t)

\* The inductive invariant.
LiveIInv == LiveTypeOK /\ ColdOrComing

LEMMA LiveConstants == Objects \in Nat \ {0} /\ MaxHalt \in Nat /\ Data \in Callers
BY LiveStatusAssumption DEF Callers

LEMMA LiveInitInv == LiveInit => LiveIInv
BY LiveStatusAssumption, LiveConstants DEF LiveInit, LiveIInv, LiveTypeOK, ColdOrComing, Callers

\* A step of DoHalt.
LEMMA LiveHaltInv ==
  ASSUME LiveIInv, NEW t \in Callers, DoHalt(t)
  PROVE  LiveIInv'
<1>. USE DEF LiveIInv, LiveTypeOK, At
<1>1. CASE HaltTest(t)
  <2>1. LiveTypeOK'
    BY <1>1, LiveConstants DEF HaltTest
  <2>2. \A u \in Callers : Halting(u) => Halting(u)'
    BY <1>1 DEF HaltTest, Halting
  <2>3. Halt' = Halt /\ fRestart' = fRestart
    BY <1>1 DEF HaltTest
  <2>. QED  BY <2>1, <2>2, <2>3 DEF ColdOrComing
<1>2. CASE HaltFlag(t)
  <2>1. LiveTypeOK' /\ Halting(t)'
    BY <1>2 DEF HaltFlag, Halting
  <2>. QED  BY <2>1 DEF ColdOrComing
<1>3. CASE HaltStatus(t)
  <2>1. LiveTypeOK' /\ Halting(t)'
    BY <1>3 DEF HaltStatus, Halting
  <2>. QED  BY <2>1 DEF ColdOrComing
<1>4. CASE HaltTruncate(t)
  <2>1. LiveTypeOK' /\ Halting(t)'
    BY <1>4 DEF HaltTruncate, Halting
  <2>. QED  BY <2>1 DEF ColdOrComing
<1>5. CASE HaltSave(t)
  <2>1. LiveTypeOK' /\ fRestart' = "cold"
    BY <1>5 DEF HaltSave
  <2>. QED  BY <2>1 DEF ColdOrComing
<1>. QED  BY <1>1, <1>2, <1>3, <1>4, <1>5 DEF DoHalt

\* The data thread and the JSON thread do not touch what DoHalt has done.
LEMMA LiveOthersInv ==
  ASSUME LiveIInv, CycleBegins \/ NextObject \/ Json \/ UNCHANGED liveVars
  PROVE  LiveIInv'
<1>1. UNCHANGED <<Halt, fRestart, hpc, calls>>
  BY DEF CycleBegins, NextObject, Json, ForceLoad, SetTest, SetLive, liveVars
<1>2. LiveTypeOK'
  <2>1. CASE CycleBegins  BY <1>1, <2>1, LiveConstants DEF CycleBegins, LiveIInv, LiveTypeOK
  <2>2. CASE NextObject   BY <1>1, <2>2, LiveConstants DEF NextObject, LiveIInv, LiveTypeOK
  <2>3. CASE ForceLoad    BY <1>1, <2>3 DEF ForceLoad, LiveIInv, LiveTypeOK
  <2>4. CASE SetTest      BY <1>1, <2>4 DEF SetTest, LiveIInv, LiveTypeOK
  <2>5. CASE SetLive      BY <1>1, <2>5 DEF SetLive, LiveIInv, LiveTypeOK
  <2>6. CASE UNCHANGED liveVars  BY <2>6 DEF liveVars, LiveIInv, LiveTypeOK
  <2>. QED  BY <2>1, <2>2, <2>3, <2>4, <2>5, <2>6 DEF Json
<1>3. ColdOrComing'
  BY <1>1 DEF LiveIInv, ColdOrComing, Halting
<1>. QED  BY <1>2, <1>3 DEF LiveIInv

LEMMA LiveStepInv == LiveIInv /\ [LiveNext]_liveVars => LiveIInv'
BY LiveHaltInv, LiveOthersInv DEF LiveNext

LEMMA LiveInvariant == LiveSpec => []LiveIInv
BY LiveInitInv, LiveStepInv, PTL DEF LiveSpec

\* Every variable holds a value of its type, whoever halts the system.
THEOREM LiveTypeCorrect == LiveSpec => []LiveTypeOK
<1>1. LiveIInv => LiveTypeOK
  BY DEF LiveIInv
<1>. QED  BY LiveInvariant, <1>1, PTL

\* Once Halt is set and nobody is in DoHalt, FILE_RESTART holds a cold restart,
\* however many threads have truncated and written it (rDataManager::DoHalt).
THEOREM ColdIsSaved == LiveSpec => []HaltRequestsCold
<1>1. LiveIInv => HaltRequestsCold
  BY DEF LiveIInv, ColdOrComing, HaltRequestsCold, InDoHalt, Halting
<1>. QED  BY LiveInvariant, <1>1, PTL

\* While the system runs, and after a HALT from there, the JSON thread is not about to
\* set a status.
RunsAlone == m_live = "RUNNING" => jpc = "out"
HaltedAlone == m_live = "HALT" /\ jpc = "out"

LEMMA RunsAloneKept ==
  ASSUME RunsAlone, [LiveNext]_liveVars
  PROVE  RunsAlone'
<1>1. ASSUME NEW t \in Callers, DoHalt(t) PROVE RunsAlone'
  BY <1>1 DEF DoHalt, HaltTest, HaltFlag, HaltStatus, HaltTruncate, HaltSave, RunsAlone
<1>2. CASE CycleBegins \/ NextObject \/ UNCHANGED liveVars
  BY <1>2 DEF CycleBegins, NextObject, liveVars, RunsAlone
<1>3. CASE Json
  BY <1>3 DEF Json, ForceLoad, SetTest, SetLive, RunsAlone
<1>. QED  BY <1>1, <1>2, <1>3 DEF LiveNext

\* A system that runs goes on, or halts for ever.
LEMMA RunsOrHalts ==
  ASSUME [LiveNext]_liveVars, HaltedAlone \/ (m_live = "RUNNING" /\ RunsAlone)
  PROVE  /\ HaltedAlone => HaltedAlone'
         /\ m_live = "RUNNING" => m_live' = "RUNNING" \/ HaltedAlone'
<1>. USE DEF HaltedAlone, RunsAlone
<1>1. ASSUME NEW t \in Callers, DoHalt(t)
      PROVE  jpc' = jpc /\ m_live' \in {m_live, "HALT"}
  BY <1>1 DEF DoHalt, HaltTest, HaltFlag, HaltStatus, HaltTruncate, HaltSave
<1>2. CASE CycleBegins \/ NextObject \/ UNCHANGED liveVars
  BY <1>2 DEF CycleBegins, NextObject, liveVars
<1>3. CASE Json
  BY <1>3 DEF Json, ForceLoad, SetTest, SetLive
<1>. QED  BY <1>1, <1>2, <1>3 DEF LiveNext

\* A system that runs does so until it halts, and a HALT from there is final, although
\* setLiveStatus tests and sets the status in two steps.
THEOREM RunsThenHalts == LiveSpec => RunsUntilHalt
<1>1. LiveInit => RunsAlone
  BY DEF LiveInit, RunsAlone
<1>2. RunsAlone /\ [LiveNext]_liveVars => RunsAlone'
  BY RunsAloneKept
<1>3. RunsAlone /\ [LiveNext]_liveVars =>
        /\ HaltedAlone => HaltedAlone'
        /\ m_live = "RUNNING" => (m_live = "RUNNING")' \/ HaltedAlone'
  BY RunsOrHalts
<1>4. HaltedAlone => m_live = "HALT"
  BY DEF HaltedAlone
<1>. QED  BY <1>1, <1>2, <1>3, <1>4, PTL DEF LiveSpec, RunsUntilHalt
=============================================================================
