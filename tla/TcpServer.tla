------------------------------ MODULE TcpServer ------------------------------
(***************************************************************************)
(* TcpServer of src/src/net/TcpServer.cpp with its EventLoopThreadPool:    *)
(* connections are accepted in the base loop, live in an I/O loop chosen   *)
(* in turn, and leave the map by a hop to the base loop and back.          *)
(*                                                                         *)
(* A loop is what EventLoop is shown to implement: a FIFO queue of         *)
(* functors, and between two of them the handlers of its channels.  A      *)
(* loop that is told to quit runs some of its queue yet and stops.  A      *)
(* Connection is reduced to the places where it meets its server; module   *)
(* Connection has the rest.                                                *)
(***************************************************************************)
EXTENDS Naturals, Sequences, FiniteSets

CONSTANTS
  MaxThreads, \* bound: the I/O threads of the pool
  MaxConns,   \* bound: connections accepted
  MaxCloses,  \* bound: calls of one connection's close callback up to which handlers add more
  Forced,     \* bound: the connections that forceClose is called for
  MaxForced   \* bound: its calls for one of them

ASSUME TcpServerAssumption ==
  MaxThreads \in Nat /\ MaxConns \in Nat /\ MaxCloses \in Nat \ {0}
  /\ Forced \subseteq Nat /\ MaxForced \in Nat

Base == 0              \* m_eventLoop
Loops == 0 .. MaxThreads
Conns == 1 .. MaxConns \* by the number in their name
NoConn == 0

VARIABLES
  m_numThreads, \* of the pool; 0: the base loop is the I/O loop
  m_nextConnId, m_next, m_connections,
  conn,      \* of each connection: its loop, m_state, whether its loop watches it,
             \* the calls of its close callback and of its onConnectionDestroy, those
             \* of its forceClose, and the threads between the test and the store of one
  queue,     \* of each loop: its functors
  status,    \* of each loop: whether it runs, was told to quit, has stopped
  busy,      \* of each loop: the connection whose handler it is in
  server,    \* the life of the TcpServer
  undefined  \* history: the TcpServer was used after its destruction

vars == <<m_numThreads, m_nextConnId, m_next, m_connections, conn, queue, status, busy,
          server, undefined>>

IoLoops == 1 .. m_numThreads \* m_loops

Functor(f, c) == [call |-> f, conn |-> c]

\* queueInLoop: q is the queues it finds.
Push(q, l, f, c) == [q EXCEPT ![l] = Append(@, Functor(f, c))]

Accepted(c) == c < m_nextConnId

Active(l) == status[l] \in {"running", "quit"}

\* The loop is between two functors or handlers.
Free(l) == Active(l) /\ busy[l] = NoConn /\ (l = Base => server # "disposing")

-----------------------------------------------------------------------------
(* The base loop: start and newConnection.                                 *)

\* setThreadNum, and start: the pool starts its threads one after the other, then
\* the acceptor listens.
Start ==
  /\ server = "new"
  /\ server' = "serving"
  /\ m_numThreads' \in 0 .. MaxThreads
  /\ status' = [l \in Loops |-> IF l <= m_numThreads' THEN "running" ELSE "none"]
  /\ UNCHANGED <<m_nextConnId, m_next, m_connections, conn, queue, busy, undefined>>

\* EventLoopThreadPool::getNextLoop.
NextLoop == IF m_numThreads = 0 THEN Base ELSE m_next + 1

Advanced == IF m_numThreads = 0 \/ m_next + 1 >= m_numThreads THEN 0 ELSE m_next + 1

\* onConnectionEstablish is run at once if the connection lives in the base loop.
newConnection ==
  LET c == m_nextConnId
      l == NextLoop
  IN  /\ server = "serving" /\ Free(Base)
      /\ c \in Conns
      /\ m_nextConnId' = c + 1
      /\ m_next' = Advanced
      /\ m_connections' = m_connections \cup {c}
      /\ conn' = [conn EXCEPT ![c].loop = l,
                              ![c].state = IF l = Base THEN "kConnected" ELSE "kConnecting",
                              ![c].watched = (l = Base)]
      /\ queue' = IF l = Base THEN queue ELSE Push(queue, l, "onConnectionEstablish", c)
      /\ UNCHANGED <<m_numThreads, status, busy, server, undefined>>

-----------------------------------------------------------------------------
(* Removal.                                                                *)

\* Mutant: onConnectionDestroy is not queued.
removeOnlyErases(c, q) ==
  /\ m_connections' = m_connections \ {c}
  /\ queue' = q

\* removeConnectionInLoop, always in the base loop.
removeConnectionInLoop(c, q) ==
  /\ m_connections' = m_connections \ {c}
  /\ queue' = Push(q, conn[c].loop, "onConnectionDestroy", c)

\* Mutant: the connection is destroyed, but not erased (as the function of this name
\* in TcpClient.cpp does).
removeOnlyDestroys(l, c, q) ==
  queue' = Push(q, conn[c].loop, "onConnectionDestroy", c) /\ UNCHANGED m_connections

\* removeConnection, called in loop l: runInLoop of the base loop.
removeConnection(l, c, q) ==
  IF l = Base
    THEN removeConnectionInLoop(c, q)
    ELSE queue' = Push(q, Base, "removeConnectionInLoop", c) /\ UNCHANGED m_connections

Open(c) == conn[c].state \in {"kConnected", "kDisconnecting"}

\* A second disableAll registers the channel again (see Channel!Update).
Closed(c) ==
  [conn EXCEPT ![c].state = "kDisconnected", ![c].watched = ~@, ![c].closes = @ + 1]

\* onClose and onError: the close callback holds the TcpServer's address.
onClose(l, c, q) ==
  /\ conn' = Closed(c)
  /\ IF server = "gone"
       THEN undefined' = TRUE /\ queue' = q /\ UNCHANGED m_connections
       ELSE removeConnection(l, c, q) /\ UNCHANGED undefined

\* A connection's loop enters one of its handlers.  A closed connection, too, is
\* reported if a second close has registered it again.  A loop polls here between any
\* two functors, and not only when it has run those it found.
HandleEvent(l, c) ==
  /\ Free(l)
  /\ Accepted(c) /\ conn[c].loop = l
  /\ conn[c].watched
  /\ busy' = [busy EXCEPT ![l] = c]
  /\ UNCHANGED <<m_numThreads, m_nextConnId, m_next, m_connections, conn, queue, status, server, undefined>>

\* Mutant: removeConnectionInLoop hands onConnectionDestroy over by runInLoop, which
\* calls it when the connection lives in the base loop.
CallCloseDestroys(l) ==
  LET c == busy[l]
  IN  /\ c # NoConn
      /\ conn[c].closes < MaxCloses
      /\ IF l = Base
           THEN /\ conn' = [Closed(c) EXCEPT ![c].destroyed = @ + 1, ![c].watched = FALSE]
                /\ m_connections' = m_connections \ {c}
                /\ UNCHANGED queue
           ELSE conn' = Closed(c) /\ removeConnection(l, c, queue)
      /\ UNCHANGED <<m_numThreads, m_nextConnId, m_next, status, busy, server, undefined>>

\* The handler closes the connection, as onError and onRead of one report may both
\* do.
CallClose(l) ==
  /\ busy[l] # NoConn /\ conn[busy[l]].closes < MaxCloses
  /\ onClose(l, busy[l], queue)
  /\ UNCHANGED <<m_numThreads, m_nextConnId, m_next, status, busy, server>>

HandlerReturns(l) ==
  /\ busy[l] # NoConn
  /\ busy' = [busy EXCEPT ![l] = NoConn]
  /\ UNCHANGED <<m_numThreads, m_nextConnId, m_next, m_connections, conn, queue, status, server, undefined>>

\* forceClose, by any thread: it tests m_state, and stores another one whatever has become
\* of the connection by then.
BeginForceClose(c) ==
  /\ c \in Forced
  /\ Accepted(c) /\ Open(c)
  /\ conn[c].forced < MaxForced
  /\ conn' = [conn EXCEPT ![c].forced = @ + 1, ![c].forcing = @ + 1]
  /\ UNCHANGED <<m_numThreads, m_nextConnId, m_next, m_connections, queue, status, busy, server, undefined>>

forceClose(c) ==
  /\ conn[c].forcing > 0
  /\ conn' = [conn EXCEPT ![c].forcing = @ - 1, ![c].state = "kDisconnecting"]
  /\ queue' = Push(queue, conn[c].loop, "forceCloseInLoop", c)
  /\ UNCHANGED <<m_numThreads, m_nextConnId, m_next, m_connections, status, busy, server, undefined>>

-----------------------------------------------------------------------------
(* The functors.                                                           *)

Runs(l, f) == Free(l) /\ queue[l] # <<>> /\ Head(queue[l]).call = f

Popped(l) == [queue EXCEPT ![l] = Tail(@)]

RunEstablish(l) ==
  /\ Runs(l, "onConnectionEstablish")
  /\ conn' = [conn EXCEPT ![Head(queue[l]).conn].state = "kConnected",
                          ![Head(queue[l]).conn].watched = TRUE]
  /\ queue' = Popped(l)
  /\ UNCHANGED <<m_numThreads, m_nextConnId, m_next, m_connections, status, busy, server, undefined>>

\* The functor in the base loop holds the TcpServer's address.
RunRemove ==
  /\ Runs(Base, "removeConnectionInLoop")
  /\ IF server = "gone"
       THEN undefined' = TRUE /\ queue' = Popped(Base) /\ UNCHANGED m_connections
       ELSE removeConnectionInLoop(Head(queue[Base]).conn, Popped(Base)) /\ UNCHANGED undefined
  /\ UNCHANGED <<m_numThreads, m_nextConnId, m_next, conn, status, busy, server>>

\* forceCloseInLoop.  Its functor does not own the connection; whether it finds it
\* alive is a question of module Connection.
RunForceClose(l) ==
  /\ Runs(l, "forceCloseInLoop")
  /\ LET c == Head(queue[l]).conn
     IN  IF Open(c)
           THEN onClose(l, c, Popped(l))
           ELSE queue' = Popped(l) /\ UNCHANGED <<m_connections, conn, undefined>>
  /\ UNCHANGED <<m_numThreads, m_nextConnId, m_next, status, busy, server>>

\* onConnectionDestroy.
Destroyed(c) ==
  [conn EXCEPT ![c].destroyed = @ + 1,
               ![c].watched = FALSE,
               ![c].state = IF @ = "kConnected" THEN "kDisconnected" ELSE @]

RunDestroy(l) ==
  /\ Runs(l, "onConnectionDestroy")
  /\ conn' = Destroyed(Head(queue[l]).conn)
  /\ queue' = Popped(l)
  /\ UNCHANGED <<m_numThreads, m_nextConnId, m_next, m_connections, status, busy, server, undefined>>

-----------------------------------------------------------------------------
(* ~TcpServer, in the thread of the base loop.                             *)

BaseStops ==
  /\ server = "serving" /\ Free(Base)
  /\ status' = [status EXCEPT ![Base] = "stopped"]
  /\ UNCHANGED <<m_numThreads, m_nextConnId, m_next, m_connections, conn, queue, busy, server, undefined>>

\* After loop() has returned, or called by code of the user that the base loop runs.
BeginDisposal ==
  /\ server = "serving"
  /\ status[Base] = "stopped" \/ Free(Base)
  /\ server' = "disposing"
  /\ UNCHANGED <<m_numThreads, m_nextConnId, m_next, m_connections, conn, queue, status, busy, undefined>>

\* Mutant: the destructor calls onConnectionDestroy itself.
DisposeAtOnce(c) ==
  /\ server = "disposing"
  /\ c \in m_connections
  /\ m_connections' = m_connections \ {c}
  /\ conn' = Destroyed(c)
  /\ UNCHANGED <<m_numThreads, m_nextConnId, m_next, queue, status, busy, server, undefined>>

\* runInLoop of the connection's loop, which is the calling thread's for the base loop.
Dispose(c) ==
  /\ server = "disposing"
  /\ c \in m_connections
  /\ m_connections' = m_connections \ {c}
  /\ IF conn[c].loop = Base
       THEN conn' = Destroyed(c) /\ UNCHANGED queue
       ELSE queue' = Push(queue, conn[c].loop, "onConnectionDestroy", c) /\ UNCHANGED conn
  /\ UNCHANGED <<m_numThreads, m_nextConnId, m_next, status, busy, server, undefined>>

\* The pool destroys its threads one after the other: quit, and join.
QuitThread(l) ==
  /\ server = "disposing" /\ m_connections = {}
  /\ l \in IoLoops /\ status[l] = "running"
  /\ \A k \in 1 .. l - 1 : status[k] = "stopped"
  /\ status' = [status EXCEPT ![l] = "quit"]
  /\ UNCHANGED <<m_numThreads, m_nextConnId, m_next, m_connections, conn, queue, busy, server, undefined>>

\* A loop told to quit leaves loop(), whatever is queued by then.
LoopStops(l) ==
  /\ l \in IoLoops /\ status[l] = "quit" /\ Free(l)
  /\ status' = [status EXCEPT ![l] = "stopped"]
  /\ UNCHANGED <<m_numThreads, m_nextConnId, m_next, m_connections, conn, queue, busy, server, undefined>>

\* Mutant: the threads are not joined.
EndDisposalUnjoined ==
  /\ server = "disposing" /\ m_connections = {}
  /\ \A l \in IoLoops : status[l] # "running"
  /\ server' = "gone"
  /\ UNCHANGED <<m_numThreads, m_nextConnId, m_next, m_connections, conn, queue, status, busy, undefined>>

EndDisposal ==
  /\ server = "disposing" /\ m_connections = {}
  /\ \A l \in IoLoops : status[l] = "stopped"
  /\ server' = "gone"
  /\ UNCHANGED <<m_numThreads, m_nextConnId, m_next, m_connections, conn, queue, status, busy, undefined>>

-----------------------------------------------------------------------------
Init ==
  /\ m_numThreads = 0 /\ m_nextConnId = 1 /\ m_next = 0 /\ m_connections = {}
  /\ conn = [c \in Conns |-> [loop |-> Base, state |-> "kConnecting", watched |-> FALSE, closes |-> 0,
                              destroyed |-> 0, forced |-> 0, forcing |-> 0]]
  /\ queue = [l \in Loops |-> <<>>]
  /\ status = [l \in Loops |-> "none"]
  /\ busy = [l \in Loops |-> NoConn]
  /\ server = "new"
  /\ undefined = FALSE

RunFunctor(l) ==
  RunEstablish(l) \/ (l = Base /\ RunRemove) \/ RunForceClose(l) \/ RunDestroy(l)

Disposal ==
  \/ \E c \in Conns : Dispose(c)
  \/ \E l \in IoLoops : QuitThread(l)

\* What the thread of loop l does once start() has returned, accepting excepted.
LoopMoves(l) ==
  \/ \E c \in Conns : HandleEvent(l, c)
  \/ CallClose(l) \/ HandlerReturns(l) \/ RunFunctor(l) \/ LoopStops(l)

Next ==
  \/ Start \/ newConnection
  \/ \E c \in Conns : BeginForceClose(c) \/ forceClose(c)
  \/ \E l \in Loops : LoopMoves(l)
  \/ BaseStops \/ BeginDisposal \/ Disposal \/ EndDisposal

Spec == Init /\ [][Next]_vars

-----------------------------------------------------------------------------
(* Properties.                                                             *)

Functors ==
  [call : {"onConnectionEstablish", "removeConnectionInLoop", "forceCloseInLoop",
           "onConnectionDestroy"},
   conn : Conns]

\* Every variable stays in its set.
TypeOK ==
  /\ m_nextConnId \in 1 .. MaxConns + 1
  /\ m_numThreads \in 0 .. MaxThreads
  /\ m_next \in 0 .. m_numThreads /\ (m_numThreads > 0 => m_next < m_numThreads)
  /\ m_connections \subseteq {c \in Conns : Accepted(c)}
  /\ conn \in [Conns -> [loop : Loops,
                         state : {"kConnecting", "kConnected", "kDisconnecting", "kDisconnected"},
                         watched : BOOLEAN, closes : Nat, destroyed : Nat,
                         forced : 0 .. MaxForced, forcing : Nat]]
  /\ queue \in [Loops -> Seq(Functors)]
  /\ status \in [Loops -> {"none", "running", "quit", "stopped"}]
  /\ busy \in [Loops -> Conns \cup {NoConn}]
  /\ server \in {"new", "serving", "disposing", "gone"}
  /\ undefined \in BOOLEAN

Pending(l, f, c) == \E i \in DOMAIN queue[l] : queue[l][i] = Functor(f, c)

\* The server keeps exactly the connections it has to: each one that is open, and a
\* closed one only as long as its removal is on its way through the base loop.
MapTracksOpen ==
  server = "serving" =>
    \A c \in Conns :
      /\ Accepted(c) /\ conn[c].closes = 0 => c \in m_connections
      /\ c \in m_connections => conn[c].closes = 0 \/ Pending(Base, "removeConnectionInLoop", c)

\* onConnectionDestroy never runs inside a handler of the connection it destroys:
\* the reason why removeConnectionInLoop uses queueInLoop and not runInLoop.
NotDestroyedInHandler ==
  [][\A l \in Loops :
       busy[l] # NoConn => conn'[busy[l]].destroyed = conn[busy[l]].destroyed]_vars

\* No connection is destroyed before it was established or established after that,
\* even if the server is destroyed while onConnectionEstablish waits in its loop.
EstablishedFirst ==
  \A c \in Conns : conn[c].destroyed > 0 => conn[c].state \in {"kDisconnecting", "kDisconnected"}

\* The close callbacks and the functors of removeConnection hold the TcpServer's
\* address without owning it.  Nobody uses it after its destruction if the threads
\* are joined before and the base loop has ended, as in src/src/test.  If the base loop
\* goes on it still finds a removal of an I/O loop, or a forceCloseInLoop.
NoUseAfterDisposal == undefined => status[Base] = "running"
=============================================================================
