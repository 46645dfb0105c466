-------------------------- MODULE VariableExchange --------------------------
(***************************************************************************)
(* The exchange of external variables between the data manager and another *)
(* thread (IO manager, thread master, an interface), rVariableClass        *)
(* (src/tritonn/variable_class.cpp, variable_item.cpp): clients get and    *)
(* set snapshots under the data manager's mutex, and the owner exchanges   *)
(* values in its cycle, one variable after another under the same mutex.   *)
(* The model begins when the owner's list is linked to the data manager's. *)
(***************************************************************************)
EXTENDS Naturals, Sequences, FiniteSets

CONSTANTS
  VarList,   \* m_varList of the owner
  Written,   \* the variables that clients may write
  Dumped,    \* those of them with Flags::DUMP
  Clients,
  Tokens,    \* values that clients write
  None,      \* no value
  MaxCycles, \* bound: the owner's cycles are counted modulo MaxCycles + 1
  MaxCalls   \* bound: number of get and set calls

Vars == {VarList[i] : i \in 1..Len(VarList)}
Values == (0..MaxCycles) \cup Tokens
Owner == "owner"
Free == "free"

ASSUME ExchangeAssumption ==
  /\ VarList \in Seq(Vars)
  /\ Written \subseteq Vars /\ Dumped \subseteq Written
  /\ None \notin Values /\ {Owner, Free} \cap Clients = {}
  /\ MaxCycles \in Nat /\ MaxCalls \in Nat

VARIABLES
  mutex,     \* holder of the data manager's mutex
  opc, oi,   \* the owner: where it is, index of the variable
  cpc, ci,   \* the clients
  cval,      \* what a client writes
  value,     \* the owner's data, *m_pointer
  read, write, isWrited,  \* m_external of the local variables
  got,       \* the snapshot each client has read
  doSave,    \* m_doSaveVars
  file,      \* the dump of the variables
  crashed,   \* a null pointer was used
  cycle, calls,           \* counters of the bounds
  pre        \* history: the shared data when the mutex was taken

extvars == <<read, write, isWrited>>
client == <<cpc, ci, cval, got, calls>>
owner == <<opc, oi, value, cycle>>
disk == <<doSave, file, crashed>>
vars == <<mutex, owner, client, extvars, disk, pre>>

Shared == [value |-> value, read |-> read, write |-> write,
           isWrited |-> isWrited, got |-> got]

Init ==
  /\ mutex = Free /\ opc = "work" /\ oi = 1 /\ cycle = 0
  /\ cpc = [c \in Clients |-> "idle"] /\ ci = [c \in Clients |-> 1]
  /\ cval \in [Clients -> Tokens]
  /\ value = [v \in Vars |-> 0] /\ read = [v \in Vars |-> 0]
  /\ write = [v \in Vars |-> 0] /\ isWrited = [v \in Vars |-> FALSE]
  /\ got = [c \in Clients |-> [v \in Vars |-> 0]] /\ calls = 0
  /\ doSave = FALSE /\ file = [v \in Dumped |-> None] /\ crashed = FALSE
  /\ pre = Shared

\* rLocker on the mutex of the data manager
Lock(p) == mutex = Free /\ mutex' = p /\ pre' = Shared
Unlock(p) == mutex = p /\ mutex' = Free /\ UNCHANGED pre
-----------------------------------------------------------------------------
(* The owner's cycle. *)

\* Its work: the variables that clients do not write get new values.
OwnerWork ==
  /\ opc = "work" /\ cycle' = (cycle + 1) % (MaxCycles + 1)
  /\ value' = [v \in Vars |-> IF v \in Written THEN value[v] ELSE cycle']
  /\ opc' = "write"
  /\ UNCHANGED <<mutex, oi, client, extvars, disk, pre>>

ExtLock(at, to) ==
  /\ opc = at /\ opc' = to /\ oi' = 1 /\ Lock(Owner)
  /\ UNCHANGED <<value, cycle, client, extvars, disk>>

ExtUnlock(at, to) ==
  /\ opc = at /\ oi > Len(VarList) /\ opc' = to /\ Unlock(Owner)
  /\ UNCHANGED <<oi, value, cycle, client, extvars, disk>>

Exchanged(at) == opc = at /\ oi <= Len(VarList) /\ oi' = oi + 1

writeExt ==
  LET v == VarList[oi]
  IN  /\ Exchanged("writing")
      /\ read' = [read EXCEPT ![v] = value[v]]
      /\ UNCHANGED <<mutex, opc, value, cycle, client, write,
                     isWrited, disk, pre>>

\* Mutant: the flag of the write is not reset.
readExt_KeepsFlag ==
  LET v == VarList[oi]
  IN  /\ Exchanged("reading")
      /\ value' = IF isWrited[v] THEN [value EXCEPT ![v] = write[v]] ELSE value
      /\ UNCHANGED <<mutex, opc, cycle, client, extvars, disk, pre>>

readExt ==
  LET v == VarList[oi]
  IN  /\ Exchanged("reading")
      /\ value' = IF isWrited[v] THEN [value EXCEPT ![v] = write[v]] ELSE value
      /\ isWrited' = [isWrited EXCEPT ![v] = FALSE]
      /\ UNCHANGED <<mutex, opc, cycle, client, read, write, disk, pre>>

\* Mutant: processing writes only.
OwnerSteps_WriteOnly ==
  ExtLock("write", "writing") \/ writeExt \/ ExtUnlock("writing", "work")

\* rVariableClass::processing
OwnerSteps ==
  \/ ExtLock("write", "writing") \/ writeExt \/ ExtUnlock("writing", "read")
  \/ ExtLock("read", "reading") \/ readExt \/ ExtUnlock("reading", "work")
-----------------------------------------------------------------------------
(* rVariableClass::get and set, of a snapshot of all variables. *)

CallLock(c, to, x) ==
  /\ cpc[c] = "idle" /\ calls < MaxCalls /\ calls' = calls + 1
  /\ cpc' = [cpc EXCEPT ![c] = to] /\ ci' = [ci EXCEPT ![c] = 1]
  /\ cval' = [cval EXCEPT ![c] = x] /\ Lock(c)
  /\ UNCHANGED <<owner, extvars, disk, got>>

CallUnlock(c) ==
  /\ cpc[c] # "idle" /\ ci[c] > Len(VarList)
  /\ cpc' = [cpc EXCEPT ![c] = "idle"] /\ Unlock(c)
  /\ UNCHANGED <<owner, extvars, disk, ci, cval, got, calls>>

getVar(c) ==
  LET v == VarList[ci[c]]
  IN  /\ cpc[c] = "get" /\ ci[c] <= Len(VarList) /\ ci' = [ci EXCEPT ![c] = @ + 1]
      /\ got' = [got EXCEPT ![c][v] = read[v]]
      /\ UNCHANGED <<mutex, owner, extvars, disk, pre, cpc, cval, calls>>

setVar(c) ==
  LET v == VarList[ci[c]]
  IN  /\ cpc[c] = "set" /\ ci[c] <= Len(VarList) /\ ci' = [ci EXCEPT ![c] = @ + 1]
      /\ IF v \in Written
         THEN /\ write' = [write EXCEPT ![v] = cval[c]]
              /\ isWrited' = [isWrited EXCEPT ![v] = TRUE]
              /\ doSave' = (doSave \/ v \in Dumped)
         ELSE UNCHANGED <<write, isWrited, doSave>>
      /\ UNCHANGED <<mutex, owner, read, file, crashed, pre, cpc,
                     cval, got, calls>>

ClientSteps(c) == getVar(c) \/ setVar(c) \/ CallUnlock(c)
-----------------------------------------------------------------------------
(* The dump of the variables. *)

\* saveDataVariables, under the mutex of the cycle: valueToXml of an external
\* variable is what was last published.
SaveVars ==
  /\ doSave /\ mutex = Free /\ doSave' = FALSE
  /\ file' = [v \in Dumped |-> read[v]]
  /\ UNCHANGED <<mutex, owner, client, extvars, crashed, pre>>

\* loadDataVariables at the next boot: stringToValue writes through m_pointer,
\* which the local variable of an external one does not have.
Reboot ==
  /\ \E v \in Dumped : file[v] # None
  /\ crashed' = TRUE
  /\ UNCHANGED <<mutex, owner, client, extvars, doSave, file, pre>>

Next ==
  /\ ~crashed
  /\ \/ OwnerWork \/ OwnerSteps
     \/ \E c \in Clients, x \in Tokens : CallLock(c, "set", x)
     \/ \E c \in Clients : CallLock(c, "get", cval[c]) \/ ClientSteps(c)
     \/ SaveVars \/ Reboot

\* Threads run on, and a mutex that is freed again and again is obtained.
Fairness ==
  /\ WF_vars(~crashed /\ OwnerWork) /\ SF_vars(~crashed /\ OwnerSteps)
  /\ \A c \in Clients : WF_vars(~crashed /\ ClientSteps(c))
  /\ SF_vars(~crashed /\ SaveVars)

Spec == Init /\ [][Next]_vars /\ Fairness
-----------------------------------------------------------------------------
(* Properties. *)

\* Every variable keeps its type, and a thread that is inside a locked block
\* holds the mutex.
TypeOK ==
  /\ mutex \in Clients \cup {Owner, Free}
  /\ opc \in {"work", "write", "writing", "read", "reading"}
  /\ oi \in 1..(Len(VarList) + 1) /\ cycle \in 0..MaxCycles
  /\ cpc \in [Clients -> {"idle", "get", "set"}]
  /\ ci \in [Clients -> 1..(Len(VarList) + 1)] /\ cval \in [Clients -> Tokens]
  /\ value \in [Vars -> Values] /\ read \in [Vars -> Values]
  /\ write \in [Vars -> Values] /\ isWrited \in [Vars -> BOOLEAN]
  /\ got \in [Clients -> [Vars -> Values]] /\ calls \in 0..MaxCalls
  /\ doSave \in BOOLEAN /\ file \in [Dumped -> Values \cup {None}]
  /\ crashed \in BOOLEAN
  /\ opc \in {"writing", "reading"} <=> mutex = Owner
  /\ \A c \in Clients : cpc[c] # "idle" <=> mutex = c

\* While the mutex is held the register is what it was when it was taken.
Register == INSTANCE VarRegister WITH
  val <- IF mutex = Owner THEN pre.value ELSE value,
  shown <- IF mutex = Owner THEN pre.read ELSE read,
  pending <- LET s == IF mutex = Free THEN Shared ELSE pre
             IN  [v \in Written |-> IF s.isWrited[v] THEN s.write[v] ELSE None],
  got <- IF mutex = Free THEN got ELSE pre.got

\* The exchange under the mutex of the data manager implements an atomic
\* register.
Implements == Register!Spec

\* What a client has set reaches the owner, unless it is overwritten first.
Taken ==
  \A v \in Written, x \in Tokens :
    (isWrited[v] /\ write[v] = x) ~> (value[v] = x \/ write[v] # x \/ crashed)

=============================================================================
