---------------------------- MODULE VarRegister ----------------------------
(***************************************************************************)
(* What the exchange of external variables promises to a client of the     *)
(* data manager: the variables of another thread behave like one atomic    *)
(* register.  A snapshot is read as a whole and shows the variables as     *)
(* they were at one moment of their owner's cycle; a snapshot is written   *)
(* as a whole, and the owner takes it over at once between two cycles.     *)
(***************************************************************************)
CONSTANTS
  Vars,     \* variables of the owner
  Written,  \* those that clients may write
  Clients,
  Values,
  None      \* no value

VARIABLES
  val,      \* the owner's data
  shown,    \* what a read returns
  pending,  \* what the owner has to take over
  got       \* what each client has read

rvars == <<val, shown, pending, got>>

Init ==
  /\ val \in [Vars -> Values] /\ shown \in [Vars -> Values]
  /\ pending = [v \in Written |-> None]
  /\ got = [c \in Clients |-> shown]

\* The owner changes its data.
Work ==
  /\ val' \in [Vars -> Values] /\ \A v \in Written : val'[v] = val[v]
  /\ UNCHANGED <<shown, pending, got>>

Publish == shown' = val /\ UNCHANGED <<val, pending, got>>

Apply ==
  /\ val' = [v \in Vars |-> IF v \in Written /\ pending[v] # None THEN pending[v]
                            ELSE val[v]]
  /\ pending' = [v \in Written |-> None]
  /\ UNCHANGED <<shown, got>>

Set(x) == pending' = [v \in Written |-> x] /\ UNCHANGED <<val, shown, got>>

Get(c) == got' = [got EXCEPT ![c] = shown] /\ UNCHANGED <<val, shown, pending>>

Next ==
  \/ Work \/ Publish \/ Apply
  \/ \E x \in Values : Set(x)
  \/ \E c \in Clients : Get(c)

Spec == Init /\ [][Next]_rvars
=============================================================================
