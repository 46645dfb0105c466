----------------------------- MODULE MC_Threads -----------------------------
(* What threads do to each other, for TLC: the closing of all of them, the halt   *)
(* by several of them, and a thread that serves its clients, whichever of those   *)
(* it refuses.  The three share nothing: a behaviour is of one, and the others    *)
(* stay as they were.                                                             *)
EXTENDS ThreadMaster, LiveStatus, TCPServer

MCTwo == <<"data", "web">>

VARIABLE story  \* "close", "halt" or "serve"

threadsVars == <<vars, liveVars, tcpVars, story>>

ThreadsInit ==
  /\ Init /\ LiveInit /\ TCPInit
  /\ story \in {"close", "halt", "serve"}
  /\ story # "halt" => m_live = "RUNNING"

Closing == story = "close" /\ UNCHANGED <<liveVars, tcpVars, story>>
Halting == story = "halt" /\ UNCHANGED <<vars, tcpVars, story>>
Serving == story = "serve" /\ UNCHANGED <<vars, liveVars, story>>

Turn ==
  \/ select \/ selectFails \/ acceptNone
  \/ \E c \in Conns, d \in Fds : accept(c, d)
  \/ \E refused \in SUBSET (Read \cap unread) : clients(refused)

ThreadsNext ==
  \/ Closing /\ Next
  \/ Halting /\ LiveNext
  \/ Serving /\ (Turn \/ Peers)

\* Fairness, LiveFairness, and the thread of the server.
ThreadsFairness ==
  /\ \A t \in Threads : WF_threadsVars(Closing /\ Cycle(t))
  /\ WF_threadsVars(Closing /\ MasterThread) /\ WF_threadsVars(Closing /\ MainEnds)
  /\ \A t \in Callers :
       WF_threadsVars(Halting /\ (HaltFlag(t) \/ HaltStatus(t) \/ HaltTruncate(t) \/ HaltSave(t)))
  /\ WF_threadsVars(Halting /\ CycleBegins) /\ WF_threadsVars(Halting /\ NextObject)
  /\ WF_threadsVars(Halting /\ (SetTest \/ SetLive))
  /\ WF_threadsVars(Serving /\ Turn)

ThreadsSpec == ThreadsInit /\ [][ThreadsNext]_threadsVars /\ ThreadsFairness
=============================================================================
