----------------------------- MODULE MC_Objects -----------------------------
(* Two objects that the data thread calculates, the prover and the selector, for TLC. *)
(* They share nothing: a behaviour is of one, and the other stays as it was.          *)
EXTENDS MC_Prove, Selector

VARIABLE object  \* "prover" or "selector"

objectsVars == <<vars, selectorVars, object>>

ObjectsInit == Init /\ SelectorInit /\ object \in {"prover", "selector"}

Proving == object = "prover" /\ UNCHANGED <<selectorVars, object>>
Selecting == object = "selector" /\ UNCHANGED <<vars, object>>

ObjectsNext ==
  \/ Proving /\ Next
  \/ Selecting /\ SelectorNext

\* The fairness of the prover; the selector has none.
ObjectsSpec ==
  /\ ObjectsInit /\ [][ObjectsNext]_objectsVars
  /\ WF_objectsVars(Proving /\ calculate)
  /\ WF_objectsVars(Proving /\ TimerElapses) /\ WF_objectsVars(Proving /\ BounceElapses)
=============================================================================
