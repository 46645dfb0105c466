------------------------------- MODULE Events -------------------------------
(***************************************************************************)
(* rEventManager (src/tritonn/event/manager.cpp): any thread adds events,  *)
(* and the thread of the event server, a TCPServer, hands them to its      *)
(* clients.  m_list holds what no turn has delivered yet, m_archive the    *)
(* last events.  A new client is sent m_list at once, and by the next turn *)
(* again, with what was added meanwhile.                                   *)
(*                                                                         *)
(* Events are numbered in the order of add.  A client has been sent an     *)
(* event when it was handed to rClientTCP::Send, whose result the server   *)
(* does not look at.  Texts, files and logs are left out.                  *)
(***************************************************************************)
EXTENDS TCPServer

CONSTANTS
  MAX_EVENT,
  MaxAdds     \* bound: events

ASSUME EventsAssumption ==
  MAX_EVENT \in Nat /\ MaxAdds \in Nat

VARIABLES
  added,      \* number of events so far
  m_list, m_archive,
  sent,       \* history: what NewClient and the turns have sent to each client
  since,      \* history: the first event that it should be sent
  anyone      \* history: events sent to some client by a turn

queue == <<added, m_list, m_archive>>
history == <<sent, since, anyone>>
eventsVars == <<tcpVars, queue, history>>

EventsInit ==
  /\ TCPInit
  /\ added = 0 /\ m_list = <<>> /\ m_archive = <<>>
  /\ sent = [c \in Conns |-> <<>>] /\ anyone = {}
  /\ since = [c \in Conns |-> 0]

-----------------------------------------------------------------------------
(* rEventManager::add, in any thread, under m_mutexList.                   *)

\* Mutant: the queue is as short as the archive.
Queued_Short(e) == IF Len(m_list) > MAX_EVENT THEN Append(Tail(m_list), e) ELSE Append(m_list, e)

Queued(e) == Append(m_list, e)

\* The archive is cut before the event is added to it.
Archived(e) ==
  LET n == Len(m_archive)
  IN  Append(IF n > MAX_EVENT THEN SubSeq(m_archive, n - MAX_EVENT + 1, n) ELSE m_archive, e)

add ==
  /\ added < MaxAdds /\ added' = added + 1
  /\ m_list' = Queued(added') /\ m_archive' = Archived(added')
  /\ UNCHANGED <<tcpVars, history>>

-----------------------------------------------------------------------------
(* The thread of the server.                                               *)

\* The history of a connection ends with it.
Stays(c) == peer'[c] # "none"

\* Mutant: what NewClient has sent counts as delivered to all.
NewClient_Clears(c) ==
  /\ sent' = [k \in Conns |-> IF Stays(k) THEN IF k = c THEN m_list ELSE sent[k] ELSE <<>>]
  /\ since' = [k \in Conns |-> IF Stays(k) THEN IF k = c THEN added - Len(m_list) + 1
                                                ELSE since[k]
                               ELSE 0]
  /\ m_list' = <<>>

\* NewClient, under m_mutexList: m_list is sent and stays as it is.
NewClient(c) ==
  /\ sent' = [k \in Conns |-> IF Stays(k) THEN IF k = c THEN m_list ELSE sent[k] ELSE <<>>]
  /\ since' = [k \in Conns |-> IF Stays(k) THEN IF k = c THEN added - Len(m_list) + 1
                                                ELSE since[k]
                               ELSE 0]
  /\ UNCHANGED m_list

Accepts ==
  \/ acceptNone /\ UNCHANGED <<queue, history>>
  \/ /\ \E c \in Conns, d \in Fds : accept(c, d) /\ NewClient(c)
     /\ UNCHANGED <<added, m_archive, anyone>>

Polls == (select \/ selectFails) /\ UNCHANGED <<queue, history>>

\* ClientRecv answers TRITONN_RESULT_OK, zero: a client that has sent bytes is dropped.
ClientRecv == Read \cap unread

\* The rest of Proccesing, under m_mutexList: Send to every client.
Deliver ==
  IF Client' = <<>>
  THEN sent' = [c \in Conns |-> <<>>] /\ UNCHANGED <<m_list, anyone>>
  ELSE /\ sent' = [c \in Conns |-> IF c \in ToSet(Client') THEN sent[c] \o m_list ELSE <<>>]
       /\ anyone' = anyone \cup ToSet(m_list)
       /\ m_list' = <<>>

\* In one step: what others do between the two halves, they could as well do before.
Serves ==
  /\ clients(ClientRecv) /\ Deliver
  /\ since' = [c \in Conns |-> IF Stays(c) THEN since[c] ELSE 0]
  /\ UNCHANGED <<added, m_archive>>

Server == Accepts \/ Polls \/ Serves

EventsNext == add \/ Server \/ (Peers /\ UNCHANGED <<queue, history>>)

EventsSpec == EventsInit /\ [][EventsNext]_eventsVars /\ WF_eventsVars(Server)

-----------------------------------------------------------------------------
(* Properties.                                                             *)

\* The events that the manager keeps and those its clients were sent have their types;
\* the archive holds one event more than MAX_EVENT.
EventsTypeOK ==
  /\ added \in 0..MaxAdds
  /\ m_list \in Seq(1..MaxAdds) /\ m_archive \in Seq(1..MaxAdds) /\ Len(m_archive) <= MAX_EVENT + 1
  /\ sent \in [Conns -> Seq(1..MaxAdds)]
  /\ since \in [Conns -> 0..(MaxAdds + 1)] /\ anyone \subseteq 1..MaxAdds

\* The events from a to b, in order.
Run(a, b) == [i \in 1..(b - a + 1) |-> a + i - 1]

\* Each client is sent every event from the first undelivered one on, in the order
\* of add, and what is still to come is m_list.  What it was sent twice is no more
\* than the first of them, once, before the rest begins (NewClient, Proccesing).
SentInOrder ==
  \A c \in Clients : \E b \in (since[c] - 1)..added :
    sent[c] \o m_list = Run(since[c], b) \o Run(since[c], added)

\* No event is forgotten, with or without clients, though clients come and go: what
\* is not in m_list was sent by a turn to somebody.
NoneLost == anyone \cup ToSet(m_list) = 1..added

\* The queue is what lies behind the mark.
Feed == INSTANCE EventFeed WITH
  Subscribers <- Conns, n <- added, done <- added - Len(m_list), members <- Clients, got <- sent

\* The manager, its threads and its sockets implement the feed: nothing is skipped or
\* handed to some of the clients only, and nothing repeated but what a new client was
\* handed when it came, whoever comes, goes or is put out.
FeedImplemented == Feed!Spec

=============================================================================
