------------------------------- MODULE Server -------------------------------
(***************************************************************************)
(* A TcpServer and its Acceptor at the limit of descriptors.  Acceptor's   *)
(* onRead calls newConnection, and a connection's descriptor comes back    *)
(* only when the last pointer to the Connection is gone: the map's, that   *)
(* of a functor in some loop's queue, that of the handler being run, or    *)
(* that of a thread in forceClose.                                         *)
(*                                                                         *)
(* The thread of the base loop is one: while it is at a call of onRead it  *)
(* handles nothing else.  The other loops go on, and so do other threads.  *)
(***************************************************************************)
EXTENDS TcpServer, Acceptor

VARIABLE deleted \* the connections whose object is gone

serverVars == <<vars, acceptorVars, deleted>>

\* start() ends with Acceptor::listen, run at once by the thread of the base loop.
StartListening == Start /\ listen /\ UNCHANGED deleted

\* Bound: no more connections wait than there are numbers left for them.
ArriveAtServer ==
  /\ m_nextConnId + backlog <= MaxConns
  /\ Arrive
  /\ UNCHANGED <<vars, deleted>>

\* onRead accepts, and calls its m_newConnectionCallback.
AcceptConnection == onRead /\ newConnection /\ UNCHANGED deleted

\* onRead at the limit, one call after the other, or with an error it only logs.
RefuseConnection ==
  /\ server = "serving" /\ Free(Base)
  /\ LimitStep \/ onReadAborted
  /\ UNCHANGED <<vars, deleted>>

\* The last pointer goes: ~Channel closes the descriptor.
Delete(c) ==
  /\ conn[c].destroyed > 0 /\ conn[c].forcing = 0
  /\ c \notin deleted \cup m_connections
  /\ \A l \in Loops :
       /\ busy[l] # c
       /\ \A i \in DOMAIN queue[l] : queue[l][i].conn # c
  /\ deleted' = deleted \cup {c}
  /\ ConnectionEnds
  /\ UNCHANGED vars

\* Descriptors of the rest of the process.
OthersMove == (OtherOpens \/ OtherCloses) /\ UNCHANGED <<vars, deleted>>

\* The acceptor goes last, when the pool has joined its threads.
ServerEnds == EndDisposal /\ CloseListener /\ UNCHANGED deleted

AtServer(A) == A /\ UNCHANGED <<acceptorVars, deleted>>

\* The base loop is not in onRead; the code that ran ~TcpServer may have returned to it.
OutsideOnRead(l) == l = Base => pc \in {"idle", "gone"}

ThreadMoves(l) == OutsideOnRead(l) /\ AtServer(LoopMoves(l))

ServerInit == Init /\ AcceptorInit /\ deleted = {}

ServerNext ==
  \/ StartListening \/ ArriveAtServer \/ AcceptConnection \/ RefuseConnection
  \/ \E l \in Loops : ThreadMoves(l)
  \/ \E c \in Conns : AtServer(BeginForceClose(c) \/ forceClose(c))
  \/ \E c \in Conns : Delete(c)
  \/ OthersMove
  \/ pc = "idle" /\ AtServer(BaseStops \/ BeginDisposal)
  \/ AtServer(Disposal)
  \/ ServerEnds

\* The loops run their functors, their handlers return, and each poll reports the
\* listening socket again: what EventLoop provides; accept does not fail for ever with an
\* error that leaves the connection waiting and onRead only logs.  A thread in forceClose goes on, and
\* nobody else keeps a pointer to a destroyed connection for ever.
Fairness ==
  /\ \A l \in Loops :
       /\ WF_serverVars(AtServer(HandlerReturns(l)))
       /\ SF_serverVars(OutsideOnRead(l) /\ AtServer(RunFunctor(l)))
  /\ SF_serverVars(AcceptConnection \/ RefuseConnection)
  /\ \A c \in Conns : WF_serverVars(AtServer(forceClose(c))) /\ WF_serverVars(Delete(c))

ServerSpec == ServerInit /\ [][ServerNext]_serverVars /\ Fairness

-----------------------------------------------------------------------------
(* Properties.                                                             *)

\* The base loop still serves.
Serving == server = "serving" /\ status[Base] # "stopped"

\* At the limit the loop does not spin on connections it can neither accept nor
\* refuse: the backlog is emptied, although no descriptor may ever become free.
BacklogServed == (backlog > 0) ~> (backlog = 0 \/ ~Serving)

\* A connection that was closed gives its descriptor back: it is destroyed in its
\* loop and no map, functor or handler keeps it.
ClosedFreesDescriptor ==
  \A c \in Conns : (conn[c].closes > 0) ~> (c \in deleted \/ ~Serving)
=============================================================================
