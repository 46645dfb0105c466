---------------------- MODULE VariableExchange_proofs ----------------------
(***************************************************************************)
(* Theorems about VariableExchange, for any list of variables, any number  *)
(* of clients and any values: the type invariant with the mutual exclusion *)
(* of the locked blocks, and that the exchange, variable by variable,      *)
(* implements the atomic register of VarRegister.                          *)
(*                                                                         *)
(* The argument: while the mutex is held, the shared data is what it was   *)
(* when it was taken, but for the variables that the holder is through     *)
(* with; these have their new values.  So the register can change at the   *)
(* moment the mutex is released.                                           *)
(***************************************************************************)
EXTENDS VariableExchange, TLAPS

\* The variables before place i of the list.
Through(i, v) == \E j \in 1..(i - 1) : VarList[j] = v

\* The shared data when the mutex was taken.
PreOK ==
  /\ pre.value \in [Vars -> Values] /\ pre.read \in [Vars -> Values]
  /\ pre.write \in [Vars -> Values] /\ pre.isWrited \in [Vars -> BOOLEAN]
  /\ pre.got \in [Clients -> [Vars -> Values]]

\* Only what clients may write is ever marked as written.
OnlyWritten == \A v \in Vars : isWrited[v] \/ (mutex # Free /\ pre.isWrited[v]) => v \in Written

\* The owner, in writeExt and in readExt.
Writing ==
  opc = "writing" =>
    /\ value = pre.value /\ write = pre.write /\ isWrited = pre.isWrited /\ got = pre.got
    /\ \A v \in Vars : read[v] = IF Through(oi, v) THEN value[v] ELSE pre.read[v]

Reading ==
  opc = "reading" =>
    /\ read = pre.read /\ write = pre.write /\ got = pre.got
    /\ \A v \in Vars :
         IF Through(oi, v)
         THEN value[v] = (IF pre.isWrited[v] THEN pre.write[v] ELSE pre.value[v]) /\ ~isWrited[v]
         ELSE value[v] = pre.value[v] /\ isWrited[v] = pre.isWrited[v]

\* A client, in get and in set.
Getting ==
  \A c \in Clients : cpc[c] = "get" =>
    /\ read = pre.read /\ write = pre.write /\ isWrited = pre.isWrited
    /\ \A d \in Clients, v \in Vars :
         got[d][v] = IF d = c /\ Through(ci[c], v) THEN read[v] ELSE pre.got[d][v]

Setting ==
  \A c \in Clients : cpc[c] = "set" =>
    /\ read = pre.read /\ got = pre.got
    /\ \A v \in Vars :
         IF v \in Written /\ Through(ci[c], v) THEN write[v] = cval[c] /\ isWrited[v]
         ELSE write[v] = pre.write[v] /\ isWrited[v] = pre.isWrited[v]

\* The inductive invariant.
IInv == TypeOK /\ PreOK /\ OnlyWritten /\ Writing /\ Reading /\ Getting /\ Setting

-----------------------------------------------------------------------------

LEMMA Constants ==
  /\ Len(VarList) \in Nat /\ \A i \in 1..Len(VarList) : VarList[i] \in Vars
  /\ \A v \in Vars : \E i \in 1..Len(VarList) : VarList[i] = v
  /\ Written \subseteq Vars /\ Dumped \subseteq Written /\ Dumped \subseteq Vars
  /\ None \notin Values /\ MaxCycles \in Nat /\ MaxCalls \in Nat
  /\ 0 \in Values /\ 0..MaxCycles \subseteq Values /\ Tokens \subseteq Values
  /\ \A c \in Clients : c # Owner /\ c # Free
  /\ Owner # Free
BY ExchangeAssumption DEF Vars, Values, Owner, Free

\* One step through the list.
LEMMA ThroughStep ==
  ASSUME NEW i \in 1..Len(VarList)
  PROVE  /\ i + 1 \in 1..(Len(VarList) + 1)
         /\ \A v \in Vars : Through(i + 1, v) <=> Through(i, v) \/ v = VarList[i]
BY Constants DEF Through

LEMMA ThroughEnds ==
  /\ \A v \in Vars : ~Through(1, v)
  /\ \A i \in 1..(Len(VarList) + 1) : i > Len(VarList) => \A v \in Vars : Through(i, v)
BY Constants DEF Through

LEMMA InitInv == Init => IInv
<1>. SUFFICES ASSUME Init PROVE IInv
  OBVIOUS
<1>1. /\ mutex = Free /\ opc = "work" /\ oi \in 1..(Len(VarList) + 1) /\ cycle \in 0..MaxCycles
      /\ cpc = [c \in Clients |-> "idle"]
      /\ ci \in [Clients -> 1..(Len(VarList) + 1)] /\ cval \in [Clients -> Tokens]
      /\ calls \in 0..MaxCalls
  BY Constants DEF Init
<1>2. /\ value \in [Vars -> Values] /\ read \in [Vars -> Values] /\ write \in [Vars -> Values]
      /\ got \in [Clients -> [Vars -> Values]] /\ file \in [Dumped -> Values \cup {None}]
  BY Constants DEF Init
<1>3. isWrited \in [Vars -> BOOLEAN] /\ \A v \in Vars : ~isWrited[v]
  BY DEF Init
<1>4. doSave \in BOOLEAN /\ crashed \in BOOLEAN
  BY Zenon DEF Init
<1>5. TypeOK
  <2>1. \A c \in Clients : cpc[c] = "idle" /\ mutex # c
    BY <1>1, Constants
  <2>2. opc \in {"work", "write", "writing", "read", "reading"} /\ opc \notin {"writing", "reading"}
        /\ cpc \in [Clients -> {"idle", "get", "set"}] /\ mutex \in Clients \cup {Owner, Free}
        /\ mutex # Owner
    BY <1>1, Constants
  <2>. QED  BY <1>1, <1>2, <1>3, <1>4, <2>1, <2>2, Zenon DEF TypeOK
<1>6. PreOK /\ OnlyWritten
  BY <1>1, <1>2, <1>3 DEF Init, PreOK, OnlyWritten, Shared
<1>7. Writing /\ Reading /\ Getting /\ Setting
  BY <1>1 DEF Writing, Reading, Getting, Setting
<1>. QED  BY <1>5, <1>6, <1>7 DEF IInv

-----------------------------------------------------------------------------
(* The owner.                                                              *)

\* The owner's own work may go on while a client holds the mutex.
LEMMA WorkInv ==
  ASSUME IInv, OwnerWork
  PROVE  IInv'
<1>. USE DEF IInv
<1>1. /\ UNCHANGED <<mutex, oi, cpc, ci, cval, got, calls, read, write, isWrited, doSave, file, crashed, pre>>
      /\ opc = "work" /\ opc' = "write"
  BY DEF OwnerWork, client, extvars, disk
<1>2. cycle' \in 0..MaxCycles
  BY Constants DEF OwnerWork, TypeOK
<1>3. value' \in [Vars -> Values]
  BY <1>2, Constants DEF OwnerWork, TypeOK
<1>4. TypeOK'
  BY <1>1, <1>2, <1>3 DEF TypeOK
<1>5. PreOK' /\ OnlyWritten' /\ Writing' /\ Reading' /\ Getting' /\ Setting'
  BY <1>1 DEF PreOK, OnlyWritten, Writing, Reading, Getting, Setting
<1>. QED  BY <1>4, <1>5

LEMMA ExtLockInv ==
  ASSUME IInv, ExtLock("write", "writing") \/ ExtLock("read", "reading")
  PROVE  IInv'
<1>. USE DEF IInv
<1>1. /\ UNCHANGED <<value, cycle, cpc, ci, cval, got, calls, read, write, isWrited, doSave, file, crashed>>
      /\ mutex = Free /\ mutex' = Owner /\ pre' = Shared /\ oi' = 1
      /\ opc' \in {"writing", "reading"}
  BY DEF ExtLock, Lock, client, extvars, disk
<1>2. \A c \in Clients : cpc'[c] = "idle" /\ mutex' # c
  BY <1>1, Constants DEF TypeOK
<1>3. TypeOK'
  BY <1>1, <1>2, Constants DEF TypeOK
<1>4. PreOK' /\ OnlyWritten'
  BY <1>1 DEF PreOK, OnlyWritten, Shared, TypeOK
<1>5. Writing' /\ Reading'
  BY <1>1, ThroughEnds DEF Writing, Reading, Shared, TypeOK
<1>6. Getting' /\ Setting'
  BY <1>2 DEF Getting, Setting
<1>. QED  BY <1>3, <1>4, <1>5, <1>6

LEMMA ExtUnlockInv ==
  ASSUME IInv, ExtUnlock("writing", "read") \/ ExtUnlock("reading", "work")
  PROVE  IInv'
<1>. USE DEF IInv
<1>1. /\ UNCHANGED <<oi, value, cycle, cpc, ci, cval, got, calls, read, write, isWrited, doSave, file, crashed, pre>>
      /\ mutex = Owner /\ mutex' = Free /\ opc' \in {"read", "work"}
  BY DEF ExtUnlock, Unlock, client, extvars, disk
<1>2. \A c \in Clients : cpc'[c] = "idle" /\ mutex' # c
  BY <1>1, Constants DEF TypeOK
<1>3. TypeOK'
  BY <1>1, <1>2, Constants DEF TypeOK
<1>4. PreOK' /\ OnlyWritten'
  BY <1>1 DEF PreOK, OnlyWritten
<1>5. Writing' /\ Reading' /\ Getting' /\ Setting'
  BY <1>1, <1>2 DEF Writing, Reading, Getting, Setting
<1>. QED  BY <1>3, <1>4, <1>5

\* A variable is published.
LEMMA WriteExtInv ==
  ASSUME IInv, writeExt
  PROVE  IInv'
<1>. USE DEF IInv
<1>. DEFINE x == VarList[oi]
<1>1. /\ UNCHANGED <<mutex, opc, value, cycle, cpc, ci, cval, got, calls, write, isWrited, doSave, file, crashed, pre>>
      /\ opc = "writing" /\ oi \in 1..Len(VarList) /\ oi' = oi + 1
      /\ read' = [read EXCEPT ![x] = value[x]]
  BY Constants DEF writeExt, Exchanged, client, disk, TypeOK
<1>2. x \in Vars /\ mutex = Owner /\ \A c \in Clients : cpc[c] = "idle"
  BY <1>1, Constants DEF TypeOK
<1>. HIDE DEF x
<1>3. read' \in [Vars -> Values]
  BY <1>1, <1>2 DEF TypeOK
<1>4. oi' \in 1..(Len(VarList) + 1)
  BY <1>1, ThroughStep
<1>5. TypeOK'
  BY <1>1, <1>3, <1>4 DEF TypeOK
<1>6. PreOK' /\ OnlyWritten' /\ Reading'
  BY <1>1 DEF PreOK, OnlyWritten, Reading
<1>7. Writing'
  <2>1. \A v \in Vars : read'[v] = IF v = x THEN value[v] ELSE read[v]
    BY <1>1, <1>2 DEF TypeOK
  <2>2. \A v \in Vars : Through(oi', v) <=> Through(oi, v) \/ v = x
    BY <1>1, ThroughStep DEF x
  <2>. QED  BY <1>1, <2>1, <2>2 DEF Writing
<1>8. Getting' /\ Setting'
  BY <1>1, <1>2 DEF Getting, Setting
<1>. QED  BY <1>5, <1>6, <1>7, <1>8

\* A variable is taken over, and its mark is cleared.
LEMMA ReadExtInv ==
  ASSUME IInv, readExt
  PROVE  IInv'
<1>. USE DEF IInv
<1>. DEFINE x == VarList[oi]
<1>1. /\ UNCHANGED <<mutex, opc, cycle, cpc, ci, cval, got, calls, read, write, doSave, file, crashed, pre>>
      /\ opc = "reading" /\ oi \in 1..Len(VarList) /\ oi' = oi + 1
      /\ value' = IF isWrited[x] THEN [value EXCEPT ![x] = write[x]] ELSE value
      /\ isWrited' = [isWrited EXCEPT ![x] = FALSE]
  BY Constants DEF readExt, Exchanged, client, disk, TypeOK
<1>2. x \in Vars /\ mutex = Owner /\ \A c \in Clients : cpc[c] = "idle"
  BY <1>1, Constants DEF TypeOK
<1>. HIDE DEF x
<1>3. value' \in [Vars -> Values] /\ isWrited' \in [Vars -> BOOLEAN]
  BY <1>1, <1>2 DEF TypeOK
<1>4. oi' \in 1..(Len(VarList) + 1)
  BY <1>1, ThroughStep
<1>5. TypeOK'
  BY <1>1, <1>3, <1>4 DEF TypeOK
<1>6. \A v \in Vars : /\ value'[v] = IF v = x /\ isWrited[v] THEN write[v] ELSE value[v]
                      /\ v = x => ~isWrited'[v]
                      /\ v # x => isWrited'[v] = isWrited[v]
  BY <1>1, <1>2 DEF TypeOK
<1>7. PreOK' /\ OnlyWritten' /\ Writing'
  BY <1>1, <1>6 DEF PreOK, OnlyWritten, Writing
<1>8. Reading'
  <2>1. \A v \in Vars : Through(oi', v) <=> Through(oi, v) \/ v = x
    BY <1>1, ThroughStep DEF x
  <2>2. ASSUME NEW v \in Vars
        PROVE  IF Through(oi', v)
               THEN value'[v] = (IF pre.isWrited[v] THEN pre.write[v] ELSE pre.value[v]) /\ ~isWrited'[v]
               ELSE value'[v] = pre.value[v] /\ isWrited'[v] = pre.isWrited[v]
    <3>1. /\ IF Through(oi, v)
             THEN value[v] = (IF pre.isWrited[v] THEN pre.write[v] ELSE pre.value[v]) /\ ~isWrited[v]
             ELSE value[v] = pre.value[v] /\ isWrited[v] = pre.isWrited[v]
          /\ write[v] = pre.write[v]
      BY <1>1 DEF Reading
    <3>2. CASE v = x
      BY <1>6, <2>1, <3>1, <3>2
    <3>3. CASE v # x
      BY <1>6, <2>1, <3>1, <3>3
    <3>. QED  BY <3>2, <3>3
  <2>3. read' = pre'.read /\ write' = pre'.write /\ got' = pre'.got /\ pre' = pre
    BY <1>1 DEF Reading
  <2>. QED  BY <2>2, <2>3, Zenon DEF Reading
<1>9. Getting' /\ Setting'
  BY <1>1, <1>2 DEF Getting, Setting
<1>. QED  BY <1>5, <1>7, <1>8, <1>9

-----------------------------------------------------------------------------
(* The clients.                                                            *)

LEMMA CallLockInv ==
  ASSUME IInv, NEW c \in Clients, NEW to \in {"get", "set"}, NEW x \in Tokens, CallLock(c, to, x)
  PROVE  IInv'
<1>. USE DEF IInv
<1>1. /\ UNCHANGED <<opc, oi, value, cycle, got, read, write, isWrited, doSave, file, crashed>>
      /\ mutex = Free /\ mutex' = c /\ pre' = Shared
      /\ cpc' = [cpc EXCEPT ![c] = to] /\ ci' = [ci EXCEPT ![c] = 1] /\ cval' = [cval EXCEPT ![c] = x]
      /\ calls < MaxCalls /\ calls' = calls + 1
  BY DEF CallLock, Lock, owner, extvars, disk
<1>2. \A d \in Clients : cpc[d] = "idle"
  BY <1>1, Constants DEF TypeOK
<1>3. opc \notin {"writing", "reading"} /\ mutex' # Owner
  BY <1>1, Constants DEF TypeOK
<1>4. /\ cpc' \in [Clients -> {"idle", "get", "set"}] /\ ci' \in [Clients -> 1..(Len(VarList) + 1)]
      /\ cval' \in [Clients -> Tokens] /\ calls' \in 0..MaxCalls
      /\ \A d \in Clients : cpc'[d] # "idle" <=> mutex' = d
  BY <1>1, <1>2, Constants DEF TypeOK
<1>5. TypeOK'
  BY <1>1, <1>3, <1>4 DEF TypeOK
<1>6. PreOK' /\ OnlyWritten'
  BY <1>1 DEF PreOK, OnlyWritten, Shared, TypeOK
<1>7. Writing' /\ Reading'
  BY <1>1, <1>3 DEF Writing, Reading
<1>8. \A d \in Clients : cpc'[d] # "idle" => d = c /\ ci'[d] = 1
  BY <1>1, <1>2 DEF TypeOK
<1>9. Getting' /\ Setting'
  BY <1>1, <1>8, ThroughEnds DEF Getting, Setting, Shared, TypeOK
<1>. QED  BY <1>5, <1>6, <1>7, <1>9

LEMMA CallUnlockInv ==
  ASSUME IInv, NEW c \in Clients, CallUnlock(c)
  PROVE  IInv'
<1>. USE DEF IInv
<1>1. /\ UNCHANGED <<opc, oi, value, cycle, got, read, write, isWrited, doSave, file, crashed, ci, cval, calls, pre>>
      /\ mutex = c /\ mutex' = Free /\ cpc' = [cpc EXCEPT ![c] = "idle"]
  BY DEF CallUnlock, Unlock, owner, extvars, disk
<1>2. \A d \in Clients : cpc'[d] = "idle" /\ mutex' # d
  BY <1>1, Constants DEF TypeOK
<1>3. opc \notin {"writing", "reading"} /\ cpc' \in [Clients -> {"idle", "get", "set"}]
  BY <1>1, Constants DEF TypeOK
<1>4. TypeOK'
  BY <1>1, <1>2, <1>3, Constants DEF TypeOK
<1>5. PreOK' /\ OnlyWritten' /\ Writing' /\ Reading' /\ Getting' /\ Setting'
  BY <1>1, <1>2, <1>3 DEF PreOK, OnlyWritten, Writing, Reading, Getting, Setting
<1>. QED  BY <1>4, <1>5

\* A variable is read into the snapshot.
LEMMA GetInv ==
  ASSUME IInv, NEW c \in Clients, getVar(c)
  PROVE  IInv'
<1>. USE DEF IInv
<1>. DEFINE x == VarList[ci[c]]
<1>1. /\ UNCHANGED <<mutex, opc, oi, value, cycle, read, write, isWrited, doSave, file, crashed, pre, cpc, cval, calls>>
      /\ cpc[c] = "get" /\ ci[c] \in 1..Len(VarList)
      /\ ci' = [ci EXCEPT ![c] = ci[c] + 1] /\ got' = [got EXCEPT ![c][x] = read[x]]
  BY Constants DEF getVar, owner, extvars, disk, TypeOK
<1>2. x \in Vars /\ mutex = c /\ opc \notin {"writing", "reading"} /\ \A d \in Clients : d # c => cpc[d] = "idle"
  BY <1>1, Constants DEF TypeOK
<1>. HIDE DEF x
<1>3. ci' \in [Clients -> 1..(Len(VarList) + 1)] /\ got' \in [Clients -> [Vars -> Values]]
  BY <1>1, <1>2, ThroughStep DEF TypeOK
<1>4. TypeOK'
  BY <1>1, <1>3 DEF TypeOK
<1>5. PreOK' /\ OnlyWritten' /\ Writing' /\ Reading' /\ Setting'
  BY <1>1, <1>2 DEF PreOK, OnlyWritten, Writing, Reading, Setting
<1>6. Getting'
  <2>1. \A d \in Clients, v \in Vars : got'[d][v] = IF d = c /\ v = x THEN read[v] ELSE got[d][v]
    BY <1>1, <1>2 DEF TypeOK
  <2>2. \A v \in Vars : Through(ci'[c], v) <=> Through(ci[c], v) \/ v = x
    BY <1>1, ThroughStep DEF x, TypeOK
  <2>. QED  BY <1>1, <1>2, <2>1, <2>2 DEF Getting
<1>. QED  BY <1>4, <1>5, <1>6

\* A variable is set, if clients may write it.
LEMMA SetInv ==
  ASSUME IInv, NEW c \in Clients, setVar(c)
  PROVE  IInv'
<1>. USE DEF IInv
<1>. DEFINE x == VarList[ci[c]]
            save == doSave \/ x \in Dumped
<1>1. /\ UNCHANGED <<mutex, opc, oi, value, cycle, read, file, crashed, pre, cpc, cval, got, calls>>
      /\ cpc[c] = "set" /\ ci[c] \in 1..Len(VarList) /\ ci' = [ci EXCEPT ![c] = ci[c] + 1]
      /\ IF x \in Written
         THEN write' = [write EXCEPT ![x] = cval[c]] /\ isWrited' = [isWrited EXCEPT ![x] = TRUE]
         ELSE UNCHANGED <<write, isWrited>>
  BY Constants DEF setVar, owner, TypeOK
<1>2. x \in Vars /\ mutex = c /\ opc \notin {"writing", "reading"} /\ \A d \in Clients : d # c => cpc[d] = "idle"
  BY <1>1, Constants DEF TypeOK
<1>3. doSave' \in BOOLEAN
  <2>1. save \in BOOLEAN
    OBVIOUS
  <2>2. doSave' = save \/ doSave' = doSave
    BY DEF setVar
  <2>. HIDE DEF save
  <2>. QED  BY <2>1, <2>2, Zenon DEF TypeOK
<1>. HIDE DEF x
<1>4. ci' \in [Clients -> 1..(Len(VarList) + 1)]
  <2>1. ci[c] + 1 \in 1..(Len(VarList) + 1)
    BY <1>1, ThroughStep, Zenon
  <2>2. ci \in [Clients -> 1..(Len(VarList) + 1)]
    BY DEF TypeOK
  <2>3. [ci EXCEPT ![c] = ci[c] + 1] \in [Clients -> 1..(Len(VarList) + 1)]
    BY <2>1, <2>2
  <2>. QED  BY <1>1, <2>3
<1>5. write' \in [Vars -> Values] /\ isWrited' \in [Vars -> BOOLEAN]
  <2>1. cval[c] \in Values /\ write \in [Vars -> Values] /\ isWrited \in [Vars -> BOOLEAN]
    BY Constants DEF TypeOK
  <2>2. [write EXCEPT ![x] = cval[c]] \in [Vars -> Values]
        /\ [isWrited EXCEPT ![x] = TRUE] \in [Vars -> BOOLEAN]
    BY <1>2, <2>1
  <2>. QED  BY <1>1, <2>1, <2>2
<1>6. TypeOK'
  BY <1>1, <1>3, <1>4, <1>5 DEF TypeOK
<1>7. \A v \in Vars :
        /\ v = x /\ v \in Written => write'[v] = cval[c] /\ isWrited'[v]
        /\ ~(v = x /\ v \in Written) => write'[v] = write[v] /\ isWrited'[v] = isWrited[v]
  BY <1>1, <1>2 DEF TypeOK
<1>8. PreOK' /\ OnlyWritten' /\ Writing' /\ Reading' /\ Getting'
  BY <1>1, <1>2, <1>7 DEF PreOK, OnlyWritten, Writing, Reading, Getting
<1>9. Setting'
  <2>1. \A v \in Vars : Through(ci'[c], v) <=> Through(ci[c], v) \/ v = x
    BY <1>1, ThroughStep DEF x, TypeOK
  <2>. QED  BY <1>1, <1>2, <1>7, <2>1 DEF Setting
<1>. QED  BY <1>6, <1>8, <1>9

\* The dump reads the variables only.
LEMMA DiskInv ==
  ASSUME IInv, SaveVars \/ Reboot \/ UNCHANGED vars
  PROVE  IInv'
<1>. USE DEF IInv
<1>1. UNCHANGED <<mutex, opc, oi, value, cycle, cpc, ci, cval, got, calls, read, write, isWrited, pre>>
  BY DEF SaveVars, Reboot, vars, owner, client, extvars
<1>2. file' \in [Dumped -> Values \cup {None}]
  BY Constants DEF SaveVars, Reboot, vars, disk, TypeOK
<1>3. doSave' \in BOOLEAN /\ crashed' \in BOOLEAN
  BY Zenon DEF SaveVars, Reboot, vars, disk, TypeOK
<1>4. TypeOK'
  BY <1>1, <1>2, <1>3 DEF TypeOK
<1>5. PreOK' /\ OnlyWritten' /\ Writing' /\ Reading' /\ Getting' /\ Setting'
  BY <1>1 DEF PreOK, OnlyWritten, Writing, Reading, Getting, Setting
<1>. QED  BY <1>4, <1>5

LEMMA StepInv == IInv /\ [Next]_vars => IInv'
<1>. SUFFICES ASSUME IInv, [Next]_vars PROVE IInv'
  OBVIOUS
<1>1. CASE OwnerWork \/ OwnerSteps
  BY <1>1, WorkInv, ExtLockInv, ExtUnlockInv, WriteExtInv, ReadExtInv DEF OwnerSteps
<1>2. ASSUME NEW c \in Clients, NEW x \in Tokens, CallLock(c, "set", x) PROVE IInv'
  BY <1>2, CallLockInv
<1>3. ASSUME NEW c \in Clients, CallLock(c, "get", cval[c]) PROVE IInv'
  BY <1>3, CallLockInv DEF IInv, TypeOK
<1>4. ASSUME NEW c \in Clients, ClientSteps(c) PROVE IInv'
  BY <1>4, GetInv, SetInv, CallUnlockInv DEF ClientSteps
<1>5. CASE SaveVars \/ Reboot \/ UNCHANGED vars
  BY <1>5, DiskInv
<1>. QED  BY <1>1, <1>2, <1>3, <1>4, <1>5 DEF Next

LEMMA Invariant == Spec => []IInv
BY InitInv, StepInv, PTL DEF Spec

\* Every variable keeps its type, and whoever is in a locked block of the exchange
\* holds the mutex (rLocker in rVariableClass::get, set, writeExt and readExt).
THEOREM TypeCorrect == Spec => []TypeOK
<1>1. IInv => TypeOK
  BY DEF IInv
<1>. QED  BY Invariant, <1>1, PTL

-----------------------------------------------------------------------------
(* The exchange is an atomic register.                                     *)

\* The variables of the register, as Register defines them.
RVal == IF mutex = Owner THEN pre.value ELSE value
RShown == IF mutex = Owner THEN pre.read ELSE read
RPending == LET s == IF mutex = Free THEN Shared ELSE pre
            IN  [v \in Written |-> IF s.isWrited[v] THEN s.write[v] ELSE None]
RGot == IF mutex = Free THEN got ELSE pre.got

\* The register does not change.
Stutter == RVal' = RVal /\ RShown' = RShown /\ RPending' = RPending /\ RGot' = RGot

\* What is pending, in the two cases of the mutex.
LEMMA Pending ==
  /\ mutex = Free => RPending = [v \in Written |-> IF isWrited[v] THEN write[v] ELSE None]
  /\ mutex # Free => RPending = [v \in Written |-> IF pre.isWrited[v] THEN pre.write[v] ELSE None]
  /\ mutex' = Free => RPending' = [v \in Written |-> IF isWrited'[v] THEN write'[v] ELSE None]
  /\ mutex' # Free => RPending' = [v \in Written |-> IF pre'.isWrited[v] THEN pre'.write[v] ELSE None]
BY DEF RPending, Shared

LEMMA RegisterInit == Init => Register!Init
<1>. SUFFICES ASSUME Init PROVE Register!Init
  OBVIOUS
<1>1. mutex = Free /\ Free # Owner
  BY Constants DEF Init
<1>2. value \in [Vars -> Values] /\ read \in [Vars -> Values]
  BY Constants DEF Init
<1>3. got = [c \in Clients |-> read]
  BY DEF Init
<1>4. [v \in Written |-> IF Shared.isWrited[v] THEN Shared.write[v] ELSE None] = [v \in Written |-> None]
  BY Constants DEF Init, Shared
<1>. QED  BY <1>1, <1>2, <1>3, <1>4 DEF Register!Init

\* While the mutex is held or taken, the register stands still.
LEMMA Stands ==
  ASSUME IInv,
         \/ ExtLock("write", "writing") \/ ExtLock("read", "reading") \/ writeExt \/ readExt
         \/ \E c \in Clients, x \in Tokens : CallLock(c, "set", x)
         \/ \E c \in Clients : CallLock(c, "get", cval[c]) \/ getVar(c) \/ setVar(c)
         \/ SaveVars \/ Reboot \/ UNCHANGED vars
  PROVE  Stutter
<1>. USE DEF IInv
<1>1. CASE UNCHANGED <<mutex, pre>> /\ mutex # Free /\ (mutex = Owner \/ UNCHANGED <<value, read>>)
  <2>1. RPending' = RPending
    BY <1>1, Pending
  <2>2. RVal' = RVal /\ RShown' = RShown /\ RGot' = RGot
    BY <1>1 DEF RVal, RShown, RGot
  <2>. QED  BY <2>1, <2>2 DEF Stutter
<1>2. CASE UNCHANGED <<mutex, value, read, write, isWrited, got, pre>>
  <2>1. RPending' = RPending
    BY <1>2, Pending
  <2>2. RVal' = RVal /\ RShown' = RShown /\ RGot' = RGot
    BY <1>2 DEF RVal, RShown, RGot
  <2>. QED  BY <2>1, <2>2 DEF Stutter
<1>3. CASE /\ mutex = Free /\ mutex' # Free /\ pre' = Shared
           /\ UNCHANGED <<value, read, write, isWrited, got>>
  <2>1. /\ pre'.value = value /\ pre'.read = read /\ pre'.got = got
        /\ pre'.isWrited = isWrited /\ pre'.write = write
    BY <1>3 DEF Shared
  <2>2. RPending' = RPending
    BY <1>3, <2>1, Pending
  <2>3. RVal' = RVal /\ RShown' = RShown /\ RGot' = RGot
    BY <1>3, <2>1, Constants DEF RVal, RShown, RGot
  <2>. QED  BY <2>2, <2>3 DEF Stutter
<1>4. CASE ExtLock("write", "writing") \/ ExtLock("read", "reading")
  <2>1. /\ mutex = Free /\ mutex' = Owner /\ pre' = Shared
        /\ UNCHANGED <<value, read, write, isWrited, got>>
    BY <1>4 DEF ExtLock, Lock, extvars, client
  <2>. QED  BY <2>1, <1>3, Constants
<1>5. CASE writeExt \/ readExt
  <2>1. UNCHANGED <<mutex, pre>> /\ mutex = Owner
    BY <1>5 DEF writeExt, readExt, Exchanged, TypeOK
  <2>. QED  BY <2>1, <1>1, Constants
<1>6. ASSUME NEW c \in Clients, NEW to, NEW x, CallLock(c, to, x) PROVE Stutter
  <2>1. /\ mutex = Free /\ mutex' = c /\ pre' = Shared
        /\ UNCHANGED <<value, read, write, isWrited, got>>
    BY <1>6 DEF CallLock, Lock, extvars, owner
  <2>. QED  BY <2>1, <1>3, Constants
<1>7. ASSUME NEW c \in Clients, getVar(c) \/ setVar(c) PROVE Stutter
  <2>1. UNCHANGED <<mutex, pre, value, read>> /\ mutex = c
    BY <1>7 DEF getVar, setVar, owner, extvars, TypeOK
  <2>. QED  BY <2>1, <1>1, Constants
<1>8. CASE SaveVars \/ Reboot \/ UNCHANGED vars
  <2>1. UNCHANGED <<mutex, value, read, write, isWrited, got, pre>>
    BY <1>8 DEF SaveVars, Reboot, vars, owner, client, extvars
  <2>. QED  BY <2>1, <1>2
<1>. QED  BY <1>4, <1>5, <1>6, <1>7, <1>8

\* The owner's work changes the register's value only.
LEMMA Works ==
  ASSUME IInv, OwnerWork
  PROVE  /\ RVal' \in [Vars -> Values] /\ \A v \in Written : RVal'[v] = RVal[v]
         /\ RShown' = RShown /\ RPending' = RPending /\ RGot' = RGot
<1>. USE DEF IInv
<1>1. /\ UNCHANGED <<mutex, read, write, isWrited, got, pre>> /\ mutex # Owner
      /\ value' \in [Vars -> Values] /\ \A v \in Written : value'[v] = value[v]
  <2>1. cycle' \in Values
    <3>1. cycle' \in 0..MaxCycles
      BY Constants DEF OwnerWork, TypeOK
    <3>. QED  BY <3>1, Constants
  <2>2. value' = [v \in Vars |-> IF v \in Written THEN value[v] ELSE cycle'] /\ opc = "work"
    BY DEF OwnerWork
  <2>3. UNCHANGED <<mutex, read, write, isWrited, got, pre>>
    BY DEF OwnerWork, client, extvars
  <2>. QED  BY <2>1, <2>2, <2>3, Constants DEF TypeOK
<1>. QED  BY <1>1 DEF RVal, RShown, RGot, RPending, Shared

\* The end of writeExt publishes all variables at once.
LEMMA Publishes ==
  ASSUME IInv, ExtUnlock("writing", "read")
  PROVE  RShown' = RVal /\ RVal' = RVal /\ RPending' = RPending /\ RGot' = RGot
<1>. USE DEF IInv
<1>1. /\ UNCHANGED <<value, read, write, isWrited, got, pre>> /\ opc = "writing" /\ oi > Len(VarList)
      /\ mutex = Owner /\ mutex' = Free
  BY DEF ExtUnlock, Unlock, client, extvars
<1>2. \A v \in Vars : read[v] = value[v]
  BY <1>1, ThroughEnds DEF Writing, TypeOK
<1>3. read = value
  BY <1>2 DEF TypeOK
<1>4. RPending' = RPending
  BY <1>1, Constants, Pending DEF Writing
<1>. QED  BY <1>1, <1>3, <1>4, Constants DEF Writing, RVal, RShown, RGot

\* The end of readExt takes all pending variables over at once.
LEMMA Applies ==
  ASSUME IInv, ExtUnlock("reading", "work")
  PROVE  /\ RVal' = [v \in Vars |-> IF v \in Written /\ RPending[v] # None THEN RPending[v] ELSE RVal[v]]
         /\ RPending' = [v \in Written |-> None]
         /\ RShown' = RShown /\ RGot' = RGot
<1>. USE DEF IInv
<1>1. /\ UNCHANGED <<value, read, write, isWrited, got, pre>> /\ opc = "reading" /\ oi > Len(VarList)
      /\ mutex = Owner /\ mutex' = Free
  BY DEF ExtUnlock, Unlock, client, extvars
<1>2. \A v \in Vars : value[v] = (IF pre.isWrited[v] THEN pre.write[v] ELSE pre.value[v]) /\ ~isWrited[v]
  BY <1>1, ThroughEnds DEF Reading, TypeOK
<1>3. RPending' = [v \in Written |-> None]
  BY <1>1, <1>2, Constants, Pending
<1>4. RPending = [v \in Written |-> IF pre.isWrited[v] THEN pre.write[v] ELSE None]
  BY <1>1, Constants, Pending
<1>5. \A v \in Vars : pre.isWrited[v] => v \in Written
  BY <1>1, Constants DEF OnlyWritten
<1>6. \A v \in Vars : pre.write[v] # None
  BY Constants DEF PreOK
<1>7. RVal = pre.value /\ RVal' = value
  BY <1>1, Constants DEF RVal
<1>8. \A v \in Vars : value[v] = IF v \in Written /\ RPending[v] # None THEN RPending[v] ELSE RVal[v]
  BY <1>2, <1>4, <1>5, <1>6, <1>7
<1>9. RVal' = [v \in Vars |-> IF v \in Written /\ RPending[v] # None THEN RPending[v] ELSE RVal[v]]
  BY <1>7, <1>8 DEF TypeOK
<1>. QED  BY <1>1, <1>3, <1>9, Constants DEF Reading, RShown, RGot

\* The end of get has read a snapshot, the end of set has written one.
LEMMA Calls ==
  ASSUME IInv, NEW c \in Clients, CallUnlock(c)
  PROVE  /\ RVal' = RVal /\ RShown' = RShown
         /\ \/ RGot' = [RGot EXCEPT ![c] = RShown] /\ RPending' = RPending
            \/ RPending' = [v \in Written |-> cval[c]] /\ RGot' = RGot
<1>. USE DEF IInv
<1>1. /\ UNCHANGED <<value, read, write, isWrited, got, pre>> /\ cpc[c] \in {"get", "set"} /\ ci[c] > Len(VarList)
      /\ mutex = c /\ mutex' = Free /\ c # Owner /\ c # Free /\ Owner # Free
  BY Constants DEF CallUnlock, Unlock, owner, extvars, TypeOK
<1>2. \A v \in Vars : Through(ci[c], v)
  BY <1>1, ThroughEnds DEF TypeOK
<1>3. RVal' = RVal /\ RShown' = RShown /\ RShown = read
  BY <1>1 DEF RVal, RShown
<1>4. CASE cpc[c] = "get"
  <2>1. \A d \in Clients, v \in Vars : got[d][v] = IF d = c THEN read[v] ELSE pre.got[d][v]
    BY <1>2, <1>4 DEF Getting
  <2>2. \A d \in Clients : got[d] = IF d = c THEN read ELSE pre.got[d]
    BY <2>1 DEF TypeOK, PreOK
  <2>3. got = [pre.got EXCEPT ![c] = read]
    BY <2>2 DEF TypeOK, PreOK
  <2>4. RPending' = RPending
    BY <1>1, <1>4, Pending DEF Getting
  <2>. QED  BY <1>1, <1>3, <2>3, <2>4 DEF RGot
<1>5. CASE cpc[c] = "set"
  <2>1. \A v \in Written : write[v] = cval[c] /\ isWrited[v]
    BY <1>2, <1>5, Constants DEF Setting
  <2>2. RPending' = [v \in Written |-> cval[c]]
    BY <1>1, <2>1, Pending
  <2>. QED  BY <1>1, <1>3, <1>5, <2>2 DEF RGot, Setting
<1>. QED  BY <1>1, <1>4, <1>5

LEMMA RegisterStep == IInv /\ [Next]_vars => [Register!Next]_(Register!rvars)
<1>. SUFFICES ASSUME IInv, [Next]_vars PROVE Register!Next \/ UNCHANGED Register!rvars
  OBVIOUS
<1>1. Stutter => UNCHANGED Register!rvars
  BY DEF Stutter, Register!rvars, RVal, RShown, RPending, RGot
<1>2. CASE OwnerWork
  <2>1. Register!Work
    BY <1>2, Works DEF Register!Work, RVal, RShown, RPending, RGot
  <2>. QED  BY <2>1 DEF Register!Next
<1>3. CASE ExtUnlock("writing", "read")
  <2>1. Register!Publish
    BY <1>3, Publishes DEF Register!Publish, RVal, RShown, RPending, RGot
  <2>. QED  BY <2>1 DEF Register!Next
<1>4. CASE ExtUnlock("reading", "work")
  <2>1. Register!Apply
    BY <1>4, Applies DEF Register!Apply, RVal, RShown, RPending, RGot
  <2>. QED  BY <2>1 DEF Register!Next
<1>5. ASSUME NEW c \in Clients, CallUnlock(c) PROVE Register!Next
  <2>1. Register!Get(c) \/ Register!Set(cval[c])
    BY <1>5, Calls DEF Register!Get, Register!Set, RVal, RShown, RPending, RGot
  <2>2. cval[c] \in Values
    BY Constants DEF IInv, TypeOK
  <2>3. Register!Get(c) => Register!Next
    BY DEF Register!Next
  <2>4. Register!Set(cval[c]) => Register!Next
    BY <2>2 DEF Register!Next, Register!Set
  <2>. QED  BY <2>1, <2>3, <2>4
<1>6. CASE ~(OwnerWork \/ ExtUnlock("writing", "read") \/ ExtUnlock("reading", "work") \/ \E c \in Clients : CallUnlock(c))
  BY <1>1, <1>6, Stands DEF Next, OwnerSteps, ClientSteps
<1>. QED  BY <1>2, <1>3, <1>4, <1>5, <1>6

\* Whatever the owner and the clients do in between, snapshots are read and written as
\* a whole (rVariableClass::get, set, writeExt, readExt).
THEOREM ExchangeIsAtomic == Spec => Implements
<1>1. Init => Register!Init
  BY RegisterInit
<1>2. IInv /\ [Next]_vars => [Register!Next]_(Register!rvars)
  BY RegisterStep
<1>. QED  BY <1>1, <1>2, Invariant, PTL DEF Spec, Implements, Register!Spec
=============================================================================
