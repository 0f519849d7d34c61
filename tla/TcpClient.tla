------------------------------ MODULE TcpClient ------------------------------
(***************************************************************************)
(* TcpClient of src/src/net/TcpClient.cpp on its loop: connecting,         *)
(* retrying, stopping, connecting again after the connection has ended,    *)
(* and the destructor, called by the loop's thread outside the client's    *)
(* own handlers.  TcpClient is a Connector (the record k) and has an       *)
(* m_connect of its own, which is a different one.                         *)
(*                                                                         *)
(* The loop thread is at                                                   *)
(*   "idle"        between two functors or handlers                        *)
(*   "polled"      epoll_wait has reported the connector's channel         *)
(*   "callback"    in the user's connection callback, in newConnection     *)
(*   "closing"     in the user's close callback, in removeConnection       *)
(*   "restarting"  after the test of m_retry && m_connect                  *)
(*   "again"       in a handler of the connection that closes it twice     *)
(* A Connection is known by its descriptor; it lives while m_connectionPtr *)
(* or a functor holds it.                                                  *)
(*                                                                         *)
(* connect() called while something of an earlier attempt is left is       *)
(* recorded (overlapped), and what follows from it is not modelled.        *)
(***************************************************************************)
EXTENDS Sequences, Connector

CONSTANT MaxCalls  \* bound: calls of clientConnect, clientStop and disConnect

ASSUME TcpClientAssumption == MaxCalls \in Nat

VARIABLES
  k,               \* the Connector
  m_connectionPtr, \* its descriptor, or NoFd
  m_connect,       \* the TcpClient's own
  m_retry,
  pc, rev,         \* where the loop thread is; what epoll_wait reported
  twice,           \* whether the handler will close its connection twice
  queue,           \* the loop's functors
  tpc,             \* another thread: idle, or in a call
  calls,           \* bound: calls made
  wanted,          \* history: the last of start() and stop() to set Connector::m_connect
  stopRaced,       \* history: restart() has undone a stop()
  misused,         \* history: clientConnect came while the client was busy
  closedTwice,     \* history: a connection has called removeConnection twice
  overlapped,      \* history: connect() was called while the client was busy
  gone,            \* ~TcpClient has run
  left,            \* history: it has left something under way
  undefined        \* history: the client or its connection was used after its destruction

vars == <<k, m_connectionPtr, m_connect, m_retry, pc, rev, twice, queue, tpc, calls,
          wanted, stopRaced, misused, closedTwice, overlapped, gone, left, undefined>>

goneVars == <<gone, left, undefined>>
userVars == <<tpc, calls, wanted, misused, goneVars>>
connVars == <<m_connectionPtr, twice, closedTwice, stopRaced>>

Functor(f, fd) == [call |-> f, fd |-> fd]
NoCall == <<"idle", "none">>

\* An attempt is watched, a retry is due, an event is on its way, or there is a connection.
Busy ==
  k.ch.registered \/ k.timers > 0 \/ rev # "none" \/ m_connectionPtr # NoFd

\* startInLoop with the connector as kk.
Starts(kk) ==
  IF kk.connect /\ Busy
    THEN overlapped' = TRUE /\ k' = kk
    ELSE k' \in StartInLoop(kk) /\ UNCHANGED overlapped

-----------------------------------------------------------------------------
(* The network.                                                            *)

SocketTurns(from, to) ==
  /\ k.sock[k.fd] = from
  /\ k' = [k EXCEPT !.sock[k.fd] = to]
  /\ UNCHANGED <<m_connect, m_retry, pc, rev, queue, overlapped>>
  /\ UNCHANGED <<userVars, connVars>>

AttemptSucceeds == k.ch.registered /\ SocketTurns("connecting", "established")

AttemptFails ==
  k.ch.registered /\ (SocketTurns("connecting", "failed") \/ SocketTurns("established", "failed"))

-----------------------------------------------------------------------------
(* The connector's events and timers.                                      *)

Poll ==
  /\ pc = "idle" /\ k.ch.registered
  /\ k.sock[k.fd] \in {"established", "failed"}
  /\ pc' = "polled"
  /\ rev' = IF k.sock[k.fd] = "failed" THEN "err" ELSE "out"
  /\ UNCHANGED <<k, m_connect, m_retry, queue, overlapped>>
  /\ UNCHANGED <<userVars, connVars>>

\* handleEvent with EPOLLERR: onError.  onWrite, called after it, finds no kConnecting.
HandleError ==
  /\ pc = "polled" /\ rev = "err"
  /\ pc' = "idle" /\ rev' = "none"
  /\ k' = OnError(k)
  /\ UNCHANGED <<m_connect, m_retry, queue, overlapped>>
  /\ UNCHANGED <<userVars, connVars>>

\* onWrite after a stop() has ended the attempt.
HandleWriteStale ==
  /\ pc = "polled" /\ rev = "out" /\ k.state # "kConnecting"
  /\ pc' = "idle" /\ rev' = "none"
  /\ UNCHANGED <<k, m_connect, m_retry, queue, overlapped>>
  /\ UNCHANGED <<userVars, connVars>>

\* onWrite that finds an error.
HandleWriteFailed ==
  /\ pc = "polled" /\ rev = "out" /\ k.state = "kConnecting"
  /\ k.sock[k.fd] = "failed"
  /\ pc' = "idle" /\ rev' = "none"
  /\ k' = OnWriteFailed(k)
  /\ UNCHANGED <<m_connect, m_retry, queue, overlapped>>
  /\ UNCHANGED <<userVars, connVars>>

\* onWrite of an established attempt, with newConnection.
HandleWrite ==
  /\ pc = "polled" /\ rev = "out" /\ k.state = "kConnecting"
  /\ k.sock[k.fd] = "established"
  /\ rev' = "none"
  /\ k' = OnWriteConnected(k)
  /\ IF k.connect
       THEN pc' = "callback" /\ m_connectionPtr' = k.fd
       ELSE pc' = "idle" /\ UNCHANGED m_connectionPtr
  /\ UNCHANGED <<m_connect, m_retry, queue, overlapped>>
  /\ UNCHANGED <<userVars, twice, closedTwice, stopRaced>>

CallbackReturns ==
  /\ pc = "callback"
  /\ pc' = "idle"
  /\ UNCHANGED <<k, m_connect, m_retry, rev, queue, overlapped>>
  /\ UNCHANGED <<userVars, connVars>>

\* A retry timer, whose handler runs before or after others of the same epoll_wait.
TimerFires ==
  /\ pc \in {"idle", "polled"} /\ k.timers > 0
  /\ LET kk == [k EXCEPT !.timers = @ - 1]
         busy == k.ch.registered \/ k.timers > 1 \/ rev # "none" \/ m_connectionPtr # NoFd
     IN  IF k.connect /\ busy
           THEN overlapped' = TRUE /\ k' = kk
           ELSE k' \in StartInLoop(kk) /\ UNCHANGED overlapped
  /\ UNCHANGED <<m_connect, m_retry, pc, rev, queue>>
  /\ UNCHANGED <<userVars, connVars>>

-----------------------------------------------------------------------------
(* The end of a connection: TcpClient::removeConnection.                   *)

BeginRemove(c) ==
  /\ pc' = "closing"
  /\ m_connectionPtr' = NoFd
  /\ queue' = Append(queue, Functor("onConnectionDestroy", c))

\* onClose or onError of the connection.  Both may be called for one report (module
\* Connection, ClosesOnce): after a reset by the peer.
HandleClose ==
  /\ pc = "idle" /\ m_connectionPtr # NoFd
  /\ BeginRemove(m_connectionPtr)
  /\ twice' \in {NoFd, m_connectionPtr}
  /\ UNCHANGED <<k, m_connect, m_retry, rev, closedTwice, stopRaced, overlapped>>
  /\ UNCHANGED userVars

HandleCloseAgain ==
  /\ pc = "again"
  /\ BeginRemove(twice)
  /\ twice' = NoFd
  /\ closedTwice' = TRUE
  /\ UNCHANGED <<k, m_connect, m_retry, rev, stopRaced, overlapped>>
  /\ UNCHANGED userVars

RemoveReturns == pc' = IF twice = NoFd THEN "idle" ELSE "again"

\* The close callback has returned.
TestRetry ==
  /\ pc = "closing"
  /\ IF m_retry /\ m_connect THEN pc' = "restarting" ELSE RemoveReturns
  /\ UNCHANGED <<k, m_connect, m_retry, rev, queue, overlapped>>
  /\ UNCHANGED <<userVars, connVars>>

Restart ==
  /\ pc = "restarting"
  /\ RemoveReturns
  /\ Starts(Restarted(k))
  /\ stopRaced' = (stopRaced \/ ~wanted)
  /\ UNCHANGED <<m_connect, m_retry, rev, queue, m_connectionPtr, twice, closedTwice>>
  /\ UNCHANGED userVars

-----------------------------------------------------------------------------
(* The functors.                                                           *)

Runs(f) == pc = "idle" /\ queue # <<>> /\ Head(queue).call = f

RunStart ==
  /\ Runs("startInLoop")
  /\ queue' = Tail(queue)
  /\ Starts(k)
  /\ misused' = (misused \/ (k.connect /\ Busy))
  /\ UNCHANGED <<m_connect, m_retry, pc, rev, tpc, calls, wanted, goneVars>>
  /\ UNCHANGED connVars

RunStop ==
  /\ Runs("stopInLoop")
  /\ queue' = Tail(queue)
  /\ k' = StopInLoop(k)
  /\ UNCHANGED <<m_connect, m_retry, pc, rev, overlapped>>
  /\ UNCHANGED <<userVars, connVars>>

\* onConnectionDestroy; ~Channel closes the descriptor with the last reference.
RunDestroy ==
  /\ Runs("onConnectionDestroy")
  /\ queue' = Tail(queue)
  /\ LET c == Head(queue).fd
     IN  k' = IF \E i \in 2 .. Len(queue) : queue[i] = Head(queue) THEN k
              ELSE [k EXCEPT !.sock[c] = "closed"]
  /\ UNCHANGED <<m_connect, m_retry, pc, rev, overlapped>>
  /\ UNCHANGED <<userVars, connVars>>

\* resetChannel, called on this even if there is no client any more.
RunReset ==
  /\ pc = "idle" /\ k.reset
  /\ k' = ResetChannel(k)
  /\ UNCHANGED <<m_connect, m_retry, pc, rev, queue, overlapped>>
  /\ UNCHANGED <<userVars, connVars>>

-----------------------------------------------------------------------------
(* Calls on the loop thread, in callbacks of this client or of others.     *)

LoopCalls ==
  /\ pc \in {"idle", "polled", "callback", "closing"}
  /\ calls < MaxCalls
  /\ calls' = calls + 1
  /\ UNCHANGED <<m_connectionPtr, m_retry, pc, rev, twice, queue, tpc, closedTwice, goneVars>>

\* It is misuse, too, if the client is about to restart itself.
LoopConnect ==
  /\ LoopCalls
  /\ m_connect' = TRUE
  /\ Starts([k EXCEPT !.connect = TRUE])
  /\ misused' = (misused \/ Busy \/ (pc = "closing" /\ m_retry))
  /\ wanted' = TRUE /\ stopRaced' = FALSE

LoopStop ==
  /\ LoopCalls
  /\ m_connect' = FALSE
  /\ k' = StopInLoop([k EXCEPT !.connect = FALSE])
  /\ wanted' = FALSE
  /\ UNCHANGED <<stopRaced, misused, overlapped>>

\* disConnect, whose shutdown() of the connection is in module Connection.
LoopDisconnect ==
  /\ LoopCalls
  /\ m_connect' = FALSE
  /\ UNCHANGED <<k, wanted, stopRaced, misused, overlapped>>

-----------------------------------------------------------------------------
(* Calls of another thread: a store to each m_connect, and the functor.    *)

ThreadUnchanged ==
  UNCHANGED <<m_connectionPtr, m_retry, pc, rev, twice, misused, closedTwice, overlapped, goneVars>>

BeginCall(f) ==
  /\ tpc = NoCall /\ calls < MaxCalls
  /\ calls' = calls + 1
  /\ m_connect' = (f = "startInLoop")
  /\ tpc' = <<"store", f>>
  /\ UNCHANGED <<k, queue, wanted, stopRaced>>
  /\ ThreadUnchanged

StoreConnect(f) ==
  /\ tpc = <<"store", f>>
  /\ k' = [k EXCEPT !.connect = (f = "startInLoop")]
  /\ wanted' = (f = "startInLoop")
  /\ stopRaced' = (stopRaced /\ f = "stopInLoop")
  /\ tpc' = <<"push", f>>
  /\ UNCHANGED <<m_connect, queue, calls>>
  /\ ThreadUnchanged

PushFunctor(f) ==
  /\ tpc = <<"push", f>>
  /\ queue' = Append(queue, Functor(f, NoFd))
  /\ tpc' = NoCall
  /\ UNCHANGED <<k, m_connect, calls, wanted, stopRaced>>
  /\ ThreadUnchanged

-----------------------------------------------------------------------------
(* ~TcpClient.                                                             *)

\* What holds the address of a client without owning it and uses what it finds there: a
\* retry timer, a functor of start() or stop(), a report of the poll; and the connection's
\* close callback, or the forceCloseInLoop that takes the connection itself by its
\* address.  resetChannel has the address, too, and does not look.
Raw == {"startInLoop", "stopInLoop", "forceCloseInLoop"}

Functors == [call : Raw \cup {"onConnectionDestroy"}, fd : Fds \cup {NoFd}]

StillUsed ==
  \/ k.timers > 0 \/ rev # "none" \/ m_connectionPtr # NoFd
  \/ \E i \in DOMAIN queue : queue[i].call \in Raw

\* Mutant: the attempt is given up as if it had failed, with m_connect still set.
StopKeepsConnect == StopInLoop(k)

\* stop() on the loop's thread, as ~TcpClient calls it.
Stopped == StopInLoop([k EXCEPT !.connect = FALSE])

\* ~Channel of the client closes m_fd, which its last connection has, or had.
ChannelClosed(kk) == IF kk.fd = NoFd THEN kk ELSE [kk EXCEPT !.sock[kk.fd] = "closed"]

\* With a connection: unless others hold it, forceClose queues its functor and the
\* last reference goes.  Without one: stop(), which queues a resetChannel if it ends an
\* attempt.
Destroy ==
  /\ pc \in {"idle", "polled"} /\ tpc = NoCall
  /\ gone' = TRUE /\ left' = StillUsed
  /\ m_connectionPtr' = NoFd
  /\ k' = ChannelClosed(IF m_connectionPtr = NoFd THEN Stopped ELSE k)
  /\ queue' \in IF m_connectionPtr = NoFd THEN {queue}
                ELSE {queue, Append(queue, Functor("forceCloseInLoop", m_connectionPtr))}
  /\ UNCHANGED <<m_connect, m_retry, pc, rev, twice, tpc, calls, wanted, stopRaced>>
  /\ UNCHANGED <<misused, closedTwice, overlapped, undefined>>

\* A timer, a report or a functor finds the client, or its connection, gone.
UseAfterDestroy ==
  /\ \/ k.timers > 0
     \/ pc = "polled" /\ rev # "none"
     \/ \E f \in Raw : Runs(f)
  /\ undefined' = TRUE
  /\ UNCHANGED <<k, m_connect, m_retry, pc, rev, queue, overlapped>>
  /\ UNCHANGED <<connVars, tpc, calls, wanted, misused, gone, left>>

-----------------------------------------------------------------------------
\* enableRetry may have been called.
Init ==
  /\ k = NewConnector
  /\ m_connectionPtr = NoFd /\ m_connect = FALSE /\ m_retry \in BOOLEAN
  /\ pc = "idle" /\ rev = "none" /\ twice = NoFd
  /\ queue = <<>> /\ tpc = NoCall /\ calls = 0
  /\ wanted = FALSE /\ stopRaced = FALSE
  /\ misused = FALSE /\ closedTwice = FALSE /\ overlapped = FALSE
  /\ gone = FALSE /\ left = FALSE /\ undefined = FALSE

Handler ==
  \/ HandleError \/ HandleWriteStale \/ HandleWriteFailed \/ HandleWrite
  \/ CallbackReturns \/ HandleCloseAgain \/ TestRetry \/ Restart

RunFunctor == RunStart \/ RunStop \/ RunDestroy \/ RunReset

Call ==
  \/ LoopConnect \/ LoopStop \/ LoopDisconnect
  \/ \E f \in {"startInLoop", "stopInLoop"} : BeginCall(f) \/ StoreConnect(f) \/ PushFunctor(f)

Going == ~overlapped /\ ~gone

\* The functors of connections that have ended outlive the client, and so does its
\* resetChannel.
Next ==
  \/ /\ Going
     /\ \/ AttemptSucceeds \/ AttemptFails
        \/ Poll \/ Handler \/ HandleClose \/ TimerFires \/ RunFunctor \/ Call
        \/ Destroy
  \/ gone /\ ~undefined /\ (RunDestroy \/ RunReset \/ UseAfterDestroy)

Spec == Init /\ [][Next]_vars

-----------------------------------------------------------------------------
\* The loop goes on: it handles what it has polled, polls, and its timers fire.
LoopFairness ==
  WF_vars(Going /\ Handler) /\ SF_vars(Going /\ Poll)
  /\ SF_vars(Going /\ TimerFires)

\* The server is there at last: of the attempts that are made again and again, one
\* is not refused at once, succeeds, and is not reset before the loop has seen it.
ServerFairness ==
  /\ SF_vars(Going /\ TimerFires /\ k'.state = "kConnecting")
  /\ SF_vars(Going /\ AttemptSucceeds)
  /\ SF_vars(Going /\ Poll /\ rev' = "out")
  /\ SF_vars(Going /\ HandleWrite)

FairSpec == Spec /\ LoopFairness /\ ServerFairness

-----------------------------------------------------------------------------
(* Properties.                                                             *)

\* Every variable stays in its set.
TypeOK ==
  /\ k \in [connect : BOOLEAN, state : {"kDisconnected", "kConnecting", "kConnected"},
            fd : Fds \cup {NoFd}, ch : ChannelType,
            sock : [Fds -> {"closed", "connecting", "established", "failed"}],
            timers : Nat, reset : BOOLEAN, gaveUp : BOOLEAN]
  /\ {m_connectionPtr, twice} \subseteq Fds \cup {NoFd}
  /\ queue \in Seq(Functors)
  /\ tpc \in {NoCall} \cup {"store", "push"} \X {"startInLoop", "stopInLoop"}
  /\ calls \in 0 .. MaxCalls
  /\ pc \in {"idle", "polled", "callback", "closing", "restarting", "again"}
  /\ rev \in {"none", "out", "err"}
  /\ {m_connect, m_retry, wanted, stopRaced, misused, closedTwice, overlapped, gone, left, undefined} \subseteq BOOLEAN

\* The client works at one connection at a time: retries, timers and restarts never
\* start an attempt beside another one, a connection or a retry that is due.  Only
\* the application can, by a clientConnect that comes while the client is busy or in
\* the close callback of one that reconnects by itself; or a connection that is
\* closed twice and so restarts the client twice.
OneAttempt == overlapped => misused \/ closedTwice

\* No socket is lost: one that is open is the attempt that is being watched, the
\* connection, or a connection about to be destroyed; and the connector's channel
\* is watched only during an attempt.
EverySocketOwned ==
  ~overlapped =>
    /\ k.ch.registered <=> k.state = "kConnecting"
    /\ \A f \in Fds : k.sock[f] # "closed" =>
         \/ f = k.fd /\ k.ch.registered
         \/ f = m_connectionPtr
         \/ \E i \in DOMAIN queue : queue[i] = Functor("onConnectionDestroy", f)

\* When the last call was clientStop and has been carried out, no attempt is made
\* any more, though retry timers may still fire; unless restart() came between the
\* stores and the functor of the call, and has set Connector::m_connect again.
StopIsFinal ==
  /\ ~wanted /\ tpc = NoCall /\ ~stopRaced /\ ~overlapped
  /\ \A i \in DOMAIN queue : queue[i].call # "stopInLoop"
  => ~k.connect /\ k.state # "kConnecting"

\* ~TcpClient takes an attempt that is under way back: the poller forgets its channel, no
\* retry is set, and the resetChannel that is left in the queue, with the address of the
\* client, does nothing with it.  What else is left, and used, is a connection, a retry
\* timer, a report of the same poll or a functor of an earlier call.
OnlyResetIsLeft ==
  gone =>
    /\ ~k.ch.registered /\ ~k.ch.mapped
    /\ ~left => ~StillUsed /\ ~undefined

\* An attempt that is made, or due, leads to a connection if the server is there at
\* last and nobody stops the client; but socket() and ::connect() may fail for good.
KeepsTrying ==
  (k.state = "kConnecting" \/ k.timers > 0) ~>
    (m_connectionPtr # NoFd \/ ~k.connect \/ k.gaveUp \/ overlapped \/ gone)
=============================================================================
