----------------------------- MODULE EventFeed -----------------------------
(***************************************************************************)
(* What the event manager promises to its clients: a feed of numbered      *)
(* events with one mark for all of them.  A turn hands what is behind the  *)
(* mark, in order, to every client that stays, and moves the mark to the   *)
(* end; without clients the mark stays where it is and the events wait.    *)
(* Who comes begins at the mark, and may be handed what waits at once: the *)
(* next turn hands it that again.                                          *)
(***************************************************************************)
EXTENDS Integers, Sequences

CONSTANT Subscribers

VARIABLES
  n,        \* events so far
  done,     \* the mark: the events that were handed out
  members,
  got       \* what each member was handed out

feedVars == <<n, done, members, got>>

\* The events from a to b, in order.
Run(a, b) == [i \in 1..(b - a + 1) |-> a + i - 1]

Init ==
  /\ n = 0 /\ done = 0 /\ members = {}
  /\ got = [c \in Subscribers |-> <<>>]

Publish == n' = n + 1 /\ UNCHANGED <<done, members, got>>

\* A new member may take the place of one other, and may be handed what waits.
Join(c, out, first) ==
  /\ c \notin members
  /\ members' = (members \cup {c}) \ out
  /\ got' = [k \in Subscribers |-> IF k \in out THEN <<>> ELSE IF k = c THEN first ELSE got[k]]
  /\ UNCHANGED <<n, done>>

\* A turn after which stay are the members.
Deliver(stay) ==
  /\ stay \subseteq members /\ stay # {}
  /\ members' = stay /\ done' = n
  /\ got' = [c \in Subscribers |-> IF c \in stay THEN got[c] \o Run(done + 1, n) ELSE <<>>]
  /\ UNCHANGED n

AllLeave ==
  /\ members' = {} /\ got' = [c \in Subscribers |-> <<>>]
  /\ UNCHANGED <<n, done>>

Next ==
  \/ Publish \/ AllLeave
  \/ \E c \in Subscribers, out \in {{}} \cup {{m} : m \in members} ,
        first \in {<<>>, Run(done + 1, n)} : Join(c, out, first)
  \/ \E stay \in SUBSET members : Deliver(stay)

Spec == Init /\ [][Next]_feedVars
=============================================================================
