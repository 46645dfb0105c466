----------------------------- MODULE TCPServer -----------------------------
(***************************************************************************)
(* rTCPClass (src/shared/tcp_class.cpp): the thread of a server polls its  *)
(* sockets once per turn, accepts at most one connection, drops the oldest *)
(* client above the limit, and reads from the clients that select has      *)
(* reported.  What a server does with the bytes and with a new client is   *)
(* its own matter (Events).                                                *)
(*                                                                         *)
(* Only the descriptors up to Maxfd are watched; the process has less than *)
(* 64 of them, so select clears the bits of the others (they share a word  *)
(* of the set).                                                            *)
(***************************************************************************)
EXTENDS Integers, SequencesExt

CONSTANTS
  Conns,      \* connections, each of which may be opened again when it was dropped
  Fds,        \* descriptors that accept may return
  Listen,     \* descriptor of the listening socket
  MaxClient,
  MaxErrors   \* bound: failures of select and setsockopt

ASSUME TCPServerAssumption ==
  /\ Fds \subseteq Nat /\ Listen \in Nat \ Fds
  /\ MaxClient \in Nat \ {0} /\ MaxErrors \in Nat

VARIABLES
  peer,      \* "none": not connected; "closed": the peer has gone
  unread,    \* connections with bytes that were not read
  backlog,   \* connections that were not accepted
  Client,    \* the clients, in order
  fd,        \* descriptor of each client
  step,      \* where the thread is in its turn
  readfds, exfds,  \* what select has reported
  errors     \* failures that may still come

peers == <<peer, unread, backlog>>
server == <<Client, fd, step, readfds, exfds, errors>>
tcpVars == <<peers, server>>

Clients == ToSet(Client)
NoFd == -1

TCPInit ==
  /\ peer = [c \in Conns |-> "none"] /\ unread = {} /\ backlog = <<>>
  /\ Client = <<>> /\ fd = [c \in Conns |-> NoFd]
  /\ step = "select" /\ readfds = {} /\ exfds = {} /\ errors = MaxErrors

-----------------------------------------------------------------------------
(* The peers.                                                              *)

Connects(c) ==
  /\ peer[c] = "none" /\ peer' = [peer EXCEPT ![c] = "open"]
  /\ backlog' = Append(backlog, c) /\ UNCHANGED <<unread, server>>

Sends(c) ==
  /\ peer[c] = "open" /\ unread' = unread \cup {c} /\ UNCHANGED <<peer, backlog, server>>

Leaves(c) ==
  /\ peer[c] = "open" /\ peer' = [peer EXCEPT ![c] = "closed"]
  /\ UNCHANGED <<unread, backlog, server>>

Peers == \E c \in Conns : Connects(c) \/ Sends(c) \/ Leaves(c)

-----------------------------------------------------------------------------
(* The turn of the thread.                                                 *)

\* Mutant: the clients are forgotten.
Maxfd_Listen == Listen

\* Of the clients, only the last one counts.
Maxfd == IF Client = <<>> \/ Listen > fd[Last(Client)] THEN Listen ELSE fd[Last(Client)]

HasInput(c) == c \in unread \/ peer[c] = "closed"

select ==
  /\ step = "select" /\ step' = "accept"
  /\ readfds' = {c \in Clients : HasInput(c) /\ fd[c] <= Maxfd} /\ exfds' = {}
  /\ UNCHANGED <<peers, Client, fd, errors>>

\* A failing select leaves the sets as they were passed to it.
selectFails ==
  /\ step = "select" /\ step' = "clients" /\ errors > 0 /\ errors' = errors - 1
  /\ readfds' = Clients /\ exfds' = Clients
  /\ UNCHANGED <<peers, Client, fd>>

acceptNone ==
  /\ step = "accept" /\ backlog = <<>> /\ step' = "clients"
  /\ UNCHANGED <<peers, Client, fd, readfds, exfds, errors>>

Free == Fds \ {fd[c] : c \in Clients}

\* Mutant: the last client is the one that is dropped.
Surplus_Last(list) == IF Len(list) > MaxClient THEN {list[MaxClient]} ELSE {}

\* The first client is dropped when there are too many.
Surplus(list) == IF Len(list) > MaxClient THEN {Head(list)} ELSE {}

\* What erase leaves of the list: the others, in their order.
Without(list, lost) ==
  LET Kept[i \in 0..Len(list)] ==
        IF i = 0 THEN <<>>
        ELSE IF list[i] \in lost THEN Kept[i - 1] ELSE Append(Kept[i - 1], list[i])
  IN  Kept[Len(list)]

\* accept, NewClient and the limit; the new client is lost if setsockopt fails.
accept(c, d) ==
  /\ step = "accept" /\ backlog # <<>> /\ c = Head(backlog) /\ step' = "clients"
  /\ backlog' = Tail(backlog) /\ d \in Free
  /\ LET list == Append(Client, c)
         lost == Surplus(list)
     IN  \/ /\ Client' = Without(list, lost)
            /\ peer' = [k \in Conns |-> IF k \in lost THEN "none" ELSE peer[k]]
            /\ fd' = [k \in Conns |-> IF k = c THEN d ELSE IF k \in lost THEN NoFd ELSE fd[k]]
            /\ unread' = unread \ lost /\ UNCHANGED errors
         \/ /\ lost = {} /\ errors > 0 /\ errors' = errors - 1
            /\ peer' = [peer EXCEPT ![c] = "none"] /\ unread' = unread \ {c}
            /\ UNCHANGED <<Client, fd>>
  /\ UNCHANGED <<readfds, exfds>>

\* The clients whose socket is read; they are dropped if the peer has closed, or
\* ClientRecv wants it (refused).
Read == (Clients \cap readfds) \ exfds
AtEnd(c) == c \notin unread /\ peer[c] = "closed"

clients(refused) ==
  /\ step = "clients" /\ step' = "select"
  /\ refused \subseteq Read \cap unread
  /\ LET gone == (Clients \cap exfds) \cup refused \cup {c \in Read : AtEnd(c)}
     IN  /\ Client' = Without(Client, gone)
         /\ peer' = [c \in Conns |-> IF c \in gone THEN "none" ELSE peer[c]]
         /\ fd' = [c \in Conns |-> IF c \in gone THEN NoFd ELSE fd[c]]
         /\ unread' = unread \ (Read \cup gone)
  /\ readfds' = {} /\ exfds' = {}
  /\ UNCHANGED <<backlog, errors>>

-----------------------------------------------------------------------------
(* Properties.                                                             *)

\* A client that is not watched, because the last one has a lower descriptor.
Unwatched(c) == c \in Clients /\ fd[c] > Listen /\ fd[c] > fd[Last(Client)]

\* Whoever sends or leaves is answered in the end: no client has input that is
\* neither read nor the end of the client, from some time on.  The exception is a
\* client behind Maxfd, as long as it stays there.
InputTaken ==
  \A c \in Conns : []<>(c \in Clients /\ HasInput(c) => Unwatched(c))

\* A peer that neither sends nor leaves keeps its place, unless it is the first of
\* more than MaxClient clients, or select fails.
QuietStays ==
  [][\A c \in Clients :
       peer[c] = "open" /\ c \notin unread /\ c \notin ToSet(Client')
       => c \in exfds \/ (c = Head(Client) /\ Len(Client) = MaxClient)]_tcpVars
=============================================================================
