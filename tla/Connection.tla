----------------------------- MODULE Connection -----------------------------
(***************************************************************************)
(* One Connection of src/src/net/Connection.cpp on its loop: the handlers  *)
(* the loop calls (onRead, onWrite, onClose, onError), the calls of the    *)
(* user (send, shutdown, forceClose) from the loop thread and from other   *)
(* threads, the functors they queue, the owner that removes the connection *)
(* (TcpServer or TcpClient), the socket and the peer.                      *)
(*                                                                         *)
(* The loop is what EventLoop is shown to implement: a FIFO queue of       *)
(* functors, and between two of them, possibly, the events of a poll.      *)
(* The loop thread is at                                                   *)
(*   "idle"        between two functors or dispatches                      *)
(*   "polled"      epoll_wait has returned, handleEvent not called yet     *)
(*   "dispatch"    in handleEventWithGuard                                 *)
(*   "message"     in the user's message callback                          *)
(*   "connection"  in the user's connection callback                       *)
(* User code on the loop thread may call the connection in its callbacks   *)
(* and, from the callbacks of other channels, at "idle" and "polled".      *)
(***************************************************************************)
EXTENDS Naturals, Sequences, Channel

CONSTANTS
  Messages,       \* what the user sends, each message once
  Threads,        \* threads other than the loop's that call the connection
  ThreadsClose,   \* whether they call shutdown and forceClose, or only send
  MessageLen,     \* the bytes of a message
  Room,           \* the bytes the socket's send buffer holds
  HighWaterMark,  \* m_highWaterMark
  MaxInput,       \* bound: bytes of the peer on their way to the user
  MaxCalls,       \* bound: calls of shutdown and forceClose
  Disposal        \* whether the owner may be destroyed before its connection

ASSUME ConnectionAssumption ==
  /\ MessageLen \in Nat \ {0}
  /\ Room \in Nat \ {0}
  /\ HighWaterMark \in Nat
  /\ MaxInput \in Nat /\ MaxCalls \in Nat
  /\ Disposal \in BOOLEAN /\ ThreadsClose \in BOOLEAN

VARIABLES
  pc,           \* where the loop thread is
  rev,          \* m_rEvents, the events still to be handled of the last poll
  queue,        \* the loop's functors
  m_state,
  ch,           \* the Channel that Connection is
  inputBytes,   \* m_inputBuffer.readableBytes()
  outputBuffer, \* m_outputBuffer
  owner,        \* the reference in TcpServer::m_connections: held, or given up by
                \* removeConnectionInLoop or by ~TcpServer
  removals,     \* calls of removeConnectionInLoop queued in the owner's loop
  tpc,          \* the other threads: idle, or in a call
  sent,         \* the messages handed to send
  calls,        \* the calls of shutdown and forceClose made
  sock,         \* the socket
  accepted,     \* history: the bytes sendInLoop took, in order
  wire,         \* history: the bytes the socket took, in order
  closes        \* history: calls of m_closeCallback

vars == <<pc, rev, queue, m_state, ch, inputBytes, outputBuffer, owner, removals,
          tpc, sent, calls, sock, accepted, wire, closes>>

userVars  == <<tpc, sent, calls>>
ownerVars == <<owner, removals, closes>>
sendVars  == <<outputBuffer, accepted, wire>>

Bytes(m) == [i \in 1 .. MessageLen |-> <<m, i>>]

\* The functors that hold a reference to the connection; the others hold this.
Holding == {"onConnectionEstablish", "onConnectionDestroy",
            "writeCompleteCallback", "highWaterMarkCallback"}
Raw == {"sendInLoop", "shutdownInLoop", "forceCloseInLoop"}

Functor(f) == [call |-> f, message |-> "none"]

\* sendInLoop is bound with its message.
Functors ==
  {f \in [call : Holding \cup Raw, message : Messages \cup {"none"}] :
     f.call = "sendInLoop" => f.message \in Messages}

\* Whether some shared_ptr keeps the Connection: the owner's, one bound to a call
\* on its way, the guard of a running handler, or those of the calling threads,
\* which keep theirs.
Alive ==
  \/ owner = "holds"
  \/ removals > 0
  \/ \E i \in DOMAIN queue : queue[i].call \in Holding
  \/ pc \in {"dispatch", "message", "connection"}
  \/ Threads # {}

-----------------------------------------------------------------------------
(* The socket and the peer.                                                *)

\* What epoll_wait reports of the socket: the events asked for, errors and hangups.
Available ==
  (IF sock.unread > 0 \/ sock.fin \/ sock.reset THEN {"in"} ELSE {})
  \cup (IF sock.room > 0 \/ sock.reset \/ sock.shut THEN {"out"} ELSE {})

Reported ==
  (Available \cap ch.interest)
  \cup (IF sock.error THEN {"err"} ELSE {})
  \cup (IF sock.reset \/ (sock.fin /\ sock.shut) THEN {"hup"} ELSE {})

CanWrite == ~sock.reset /\ ~sock.shut

\* The bytes a write of n takes; 0 when it would block.
Taken(n) == IF n < sock.room THEN n ELSE sock.room

\* The peer's steps leave the connection's side alone.
PeerUnchanged ==
  /\ UNCHANGED <<pc, rev, queue, m_state, ch, inputBytes>>
  /\ UNCHANGED <<userVars, ownerVars, sendVars>>

PeerSends ==
  /\ ~sock.fin /\ ~sock.reset
  /\ sock.unread + inputBytes < MaxInput
  /\ sock' = [sock EXCEPT !.unread = @ + 1]
  /\ PeerUnchanged

PeerReads ==
  /\ sock.room < Room /\ ~sock.reset
  /\ sock' = [sock EXCEPT !.room = @ + 1]
  /\ PeerUnchanged

PeerCloses ==
  /\ ~sock.fin /\ ~sock.reset
  /\ sock' = [sock EXCEPT !.fin = TRUE]
  /\ PeerUnchanged

PeerResets ==
  /\ ~sock.reset
  /\ sock' = [sock EXCEPT !.reset = TRUE, !.error = TRUE]
  /\ PeerUnchanged

-----------------------------------------------------------------------------
(* sendInLoop (and sendBufferInLoop, which differs in where the bytes      *)
(* come from), shutdownInLoop and the closing of the connection: parts of  *)
(* actions.  q is the queue they append their functors to.                 *)

\* Mutant: the direct write does not look at isWriting().
WritesDirectlyAlways == inputBytes = 0

\* The condition of the direct write, which tests the input buffer.
WritesDirectly == ~IsWriting(ch) /\ inputBytes = 0

\* Mutant: the bytes that remain are buffered, but writing is not enabled.
BufferRemainingSilently(rest, q) ==
  /\ outputBuffer' = outputBuffer \o rest
  /\ queue' = q
  /\ ch' = ch

\* The bytes that remain join the output buffer.
BufferRemaining(rest, q) ==
  LET old == Len(outputBuffer)
      new == old + Len(rest)
  IN  /\ outputBuffer' = outputBuffer \o rest
      /\ queue' = IF new > HighWaterMark /\ old < HighWaterMark
                    THEN Append(q, Functor("highWaterMarkCallback")) ELSE q
      /\ ch' = IF IsWriting(ch) THEN ch ELSE EnableWriting(ch)

SendInLoop(m, q) ==
  IF m_state = "kDisconnected"
    THEN /\ queue' = q
         /\ UNCHANGED <<ch, sock, outputBuffer, accepted, wire>>
    ELSE LET n == IF WritesDirectly /\ CanWrite THEN Taken(MessageLen) ELSE 0
             fault == WritesDirectly /\ ~CanWrite
             rest == SubSeq(Bytes(m), n + 1, MessageLen)
         IN  /\ accepted' = accepted \o Bytes(m)
             /\ wire' = wire \o SubSeq(Bytes(m), 1, n)
             /\ sock' = [sock EXCEPT !.room = @ - n, !.error = @ /\ ~fault]
             /\ IF fault \/ rest = <<>>
                  THEN /\ queue' = IF fault THEN q
                                   ELSE Append(q, Functor("writeCompleteCallback"))
                       /\ UNCHANGED <<ch, outputBuffer>>
                  ELSE BufferRemaining(rest, q)

\* shutdownInLoop closes the write side when the channel IS writing.
ShutdownInLoop ==
  sock' = [sock EXCEPT !.shut = @ \/ IsWriting(ch)]

\* m_closeCallback: removeConnection hands removeConnectionInLoop to the owner's
\* loop.  On a TcpServer that is destroyed it is undefined: it does so, or nothing.
CallOwner ==
  /\ closes' = closes + 1
  /\ removals' \in IF owner = "disposed" THEN {removals, removals + 1} ELSE {removals + 1}
  /\ UNCHANGED owner

\* onClose and onError do the same: no more events, and the close callback.
Close ==
  /\ ch' = DisableAll(ch)
  /\ m_state' = "kDisconnected"
  /\ CallOwner

-----------------------------------------------------------------------------
(* The loop: polling and handling the events.                              *)

Poll ==
  /\ pc = "idle"
  /\ ch.registered
  /\ Reported # {}
  /\ rev' = Reported
  /\ pc' = "polled"
  /\ UNCHANGED <<queue, m_state, ch, inputBytes, sock>>
  /\ UNCHANGED <<userVars, ownerVars, sendVars>>

\* handleEvent of the tied channel; that of a channel that is deleted is not modelled.
HandleEvent ==
  /\ pc = "polled" /\ Alive
  /\ pc' = "dispatch"
  /\ UNCHANGED <<rev, queue, m_state, ch, inputBytes, sock>>
  /\ UNCHANGED <<userVars, ownerVars, sendVars>>

\* EPOLLHUP without EPOLLIN: the Channel's own close callback, which the
\* connection never sets (its setCloseCallback hides the channel's).
HandleHup ==
  /\ pc = "dispatch"
  /\ "hup" \in rev
  /\ rev' = rev \ {"hup"}
  /\ UNCHANGED <<pc, queue, m_state, ch, inputBytes, sock>>
  /\ UNCHANGED <<userVars, ownerVars, sendVars>>

\* EPOLLERR: onError.  The socket's pending error is not taken.
HandleError ==
  /\ pc = "dispatch"
  /\ "hup" \notin rev /\ "err" \in rev
  /\ rev' = rev \ {"err"}
  /\ Close
  /\ UNCHANGED <<pc, queue, inputBytes, sock>>
  /\ UNCHANGED <<userVars, sendVars>>

ReadTurn == pc = "dispatch" /\ rev \cap {"hup", "err"} = {} /\ "in" \in rev

\* onRead with bytes to read: readFd takes them all, the message callback is called.
OnReadMessage ==
  /\ ReadTurn
  /\ sock.unread > 0
  /\ rev' = rev \ {"in"}
  /\ pc' = "message"
  /\ inputBytes' = inputBytes + sock.unread
  /\ sock' = [sock EXCEPT !.unread = 0]
  /\ UNCHANGED <<queue, m_state, ch>>
  /\ UNCHANGED <<userVars, ownerVars, sendVars>>

\* onRead at the end of the stream, and after a reset, whose error the read takes.
OnReadClose ==
  /\ ReadTurn
  /\ sock.unread = 0
  /\ sock.fin \/ sock.reset
  /\ rev' = rev \ {"in"}
  /\ sock' = [sock EXCEPT !.error = FALSE]
  /\ Close
  /\ UNCHANGED <<pc, queue, inputBytes>>
  /\ UNCHANGED <<userVars, sendVars>>

\* In its callback the user may read what the input buffer holds.
UserReads ==
  /\ pc = "message"
  /\ inputBytes > 0
  /\ inputBytes' = 0
  /\ UNCHANGED <<pc, rev, queue, m_state, ch, sock>>
  /\ UNCHANGED <<userVars, ownerVars, sendVars>>

MessageReturns ==
  /\ pc = "message"
  /\ pc' = "dispatch"
  /\ UNCHANGED <<rev, queue, m_state, ch, inputBytes, sock>>
  /\ UNCHANGED <<userVars, ownerVars, sendVars>>

WriteTurn == pc = "dispatch" /\ rev = {"out"}

\* onWrite with the socket taking bytes.  When the output is complete writing is
\* disabled first, so that shutdownInLoop, called for kDisconnecting, does nothing.
OnWrite ==
  /\ WriteTurn
  /\ rev' = {}
  /\ IsWriting(ch) /\ CanWrite /\ sock.room > 0
  /\ LET n == Taken(Len(outputBuffer))
         rest == SubSeq(outputBuffer, n + 1, Len(outputBuffer))
     IN  /\ wire' = wire \o SubSeq(outputBuffer, 1, n)
         /\ sock' = [sock EXCEPT !.room = @ - n]
         /\ outputBuffer' = rest
         /\ IF rest = <<>>
              THEN /\ ch' = DisableWriting(ch)
                   /\ queue' = Append(queue, Functor("writeCompleteCallback"))
              ELSE UNCHANGED <<ch, queue>>
  /\ UNCHANGED <<pc, m_state, inputBytes, accepted>>
  /\ UNCHANGED <<userVars, ownerVars>>

\* onWrite with a write that fails: -1 becomes a huge size_t, skip(nWrite) drops
\* the whole buffer, and the output counts as written.
OnWriteFails ==
  /\ WriteTurn
  /\ rev' = {}
  /\ IsWriting(ch) /\ (~CanWrite \/ sock.room = 0)
  /\ sock' = [sock EXCEPT !.error = @ /\ CanWrite]
  /\ outputBuffer' = <<>>
  /\ ch' = DisableWriting(ch)
  /\ queue' = Append(queue, Functor("writeCompleteCallback"))
  /\ UNCHANGED <<pc, m_state, inputBytes, accepted, wire>>
  /\ UNCHANGED <<userVars, ownerVars>>

\* onWrite after another handler of the same events disabled writing.
OnWriteDown ==
  /\ WriteTurn
  /\ rev' = {}
  /\ ~IsWriting(ch)
  /\ UNCHANGED <<pc, queue, m_state, ch, inputBytes, sock>>
  /\ UNCHANGED <<userVars, ownerVars, sendVars>>

DispatchReturns ==
  /\ pc = "dispatch"
  /\ rev = {}
  /\ pc' = "idle"
  /\ UNCHANGED <<rev, queue, m_state, ch, inputBytes, sock>>
  /\ UNCHANGED <<userVars, ownerVars, sendVars>>

-----------------------------------------------------------------------------
(* The loop: its functors.                                                 *)

\* The oldest functor is f and the loop calls it.
Runs(f) == pc = "idle" /\ queue # <<>> /\ Head(queue).call = f

\* Mutant: onConnectionEstablish does not enable reading.
RunEstablishDeaf ==
  /\ Runs("onConnectionEstablish")
  /\ queue' = Tail(queue)
  /\ m_state' = "kConnected"
  /\ pc' = "connection"
  /\ UNCHANGED <<rev, ch, inputBytes, sock>>
  /\ UNCHANGED <<userVars, ownerVars, sendVars>>

\* onConnectionEstablish enters the connection callback.
RunEstablish ==
  /\ Runs("onConnectionEstablish")
  /\ queue' = Tail(queue)
  /\ m_state' = "kConnected"
  /\ ch' = EnableReading(ch)
  /\ pc' = "connection"
  /\ UNCHANGED <<rev, inputBytes, sock>>
  /\ UNCHANGED <<userVars, ownerVars, sendVars>>

ConnectionCallbackReturns ==
  /\ pc = "connection"
  /\ pc' = "idle"
  /\ UNCHANGED <<rev, queue, m_state, ch, inputBytes, sock>>
  /\ UNCHANGED <<userVars, ownerVars, sendVars>>

RunSend ==
  /\ Runs("sendInLoop") /\ Alive
  /\ SendInLoop(Head(queue).message, Tail(queue))
  /\ UNCHANGED <<pc, rev, m_state, inputBytes>>
  /\ UNCHANGED <<userVars, ownerVars>>

RunShutdown ==
  /\ Runs("shutdownInLoop") /\ Alive
  /\ queue' = Tail(queue)
  /\ ShutdownInLoop
  /\ UNCHANGED <<pc, rev, m_state, ch, inputBytes>>
  /\ UNCHANGED <<userVars, ownerVars, sendVars>>

\* Mutant: forceCloseInLoop does not look at the state.
RunForceCloseAlways ==
  /\ Runs("forceCloseInLoop") /\ Alive
  /\ queue' = Tail(queue)
  /\ Close
  /\ UNCHANGED <<pc, rev, inputBytes, sock>>
  /\ UNCHANGED <<userVars, sendVars>>

RunForceClose ==
  /\ Runs("forceCloseInLoop") /\ Alive
  /\ queue' = Tail(queue)
  /\ IF m_state \in {"kConnected", "kDisconnecting"}
       THEN Close
       ELSE UNCHANGED <<ch, m_state, ownerVars>>
  /\ UNCHANGED <<pc, rev, inputBytes, sock>>
  /\ UNCHANGED <<userVars, sendVars>>

OnConnectionDestroy ==
  IF m_state = "kConnected"
    THEN m_state' = "kDisconnected" /\ ch' = Remove(DisableAll(ch))
    ELSE ch' = Remove(ch) /\ UNCHANGED m_state

RunDestroy ==
  /\ Runs("onConnectionDestroy")
  /\ queue' = Tail(queue)
  /\ OnConnectionDestroy
  /\ UNCHANGED <<pc, rev, inputBytes, sock>>
  /\ UNCHANGED <<userVars, ownerVars, sendVars>>

\* The write complete and high water mark callbacks: user code, whose calls are
\* among those at "idle".
RunUserCallback ==
  /\ Runs("writeCompleteCallback") \/ Runs("highWaterMarkCallback")
  /\ queue' = Tail(queue)
  /\ UNCHANGED <<pc, rev, m_state, ch, inputBytes, sock>>
  /\ UNCHANGED <<userVars, ownerVars, sendVars>>

-----------------------------------------------------------------------------
(* The owner: TcpServer and its loop.                                      *)

\* removeConnectionInLoop.
OwnerRemoves ==
  /\ removals > 0
  /\ removals' = removals - 1
  /\ owner' = IF owner = "holds" THEN "removed" ELSE owner
  /\ queue' = Append(queue, Functor("onConnectionDestroy"))
  /\ UNCHANGED <<pc, rev, m_state, ch, inputBytes, sock, closes>>
  /\ UNCHANGED <<userVars, sendVars>>

\* ~TcpServer gives up a connection that is still open, on another loop ...
OwnerDisposes ==
  /\ Disposal /\ owner = "holds"
  /\ owner' = "disposed"
  /\ queue' = Append(queue, Functor("onConnectionDestroy"))
  /\ UNCHANGED <<pc, rev, m_state, ch, inputBytes, sock, removals, closes>>
  /\ UNCHANGED <<userVars, sendVars>>

\* ... or on the loop whose thread calls ~TcpServer, between two handlers: runInLoop
\* calls onConnectionDestroy at once, as it has called onConnectionEstablish.
OwnerDisposesInLoop ==
  /\ Disposal /\ owner = "holds"
  /\ pc \in {"idle", "polled"} /\ m_state # "kConnecting"
  /\ owner' = "disposed"
  /\ OnConnectionDestroy
  /\ UNCHANGED <<pc, rev, queue, inputBytes, sock, removals, closes>>
  /\ UNCHANGED <<userVars, sendVars>>

-----------------------------------------------------------------------------
(* Calls of the user on the loop thread.                                   *)

LoopUserCode ==
  /\ pc \in {"idle", "polled", "message", "connection"}
  /\ Alive

LoopSend(m) ==
  /\ LoopUserCode
  /\ m_state = "kConnected"
  /\ m \notin sent
  /\ sent' = sent \cup {m}
  /\ SendInLoop(m, queue)
  /\ UNCHANGED <<pc, rev, m_state, inputBytes, tpc, calls>>
  /\ UNCHANGED ownerVars

LoopShutdown ==
  /\ LoopUserCode
  /\ m_state = "kConnected"
  /\ calls < MaxCalls
  /\ calls' = calls + 1
  /\ m_state' = "kDisconnecting"
  /\ ShutdownInLoop
  /\ UNCHANGED <<pc, rev, queue, ch, inputBytes, tpc, sent>>
  /\ UNCHANGED <<ownerVars, sendVars>>

LoopForceClose ==
  /\ LoopUserCode
  /\ m_state \in {"kConnected", "kDisconnecting"}
  /\ calls < MaxCalls
  /\ calls' = calls + 1
  /\ m_state' = "kDisconnecting"
  /\ queue' = Append(queue, Functor("forceCloseInLoop"))
  /\ UNCHANGED <<pc, rev, ch, inputBytes, sock, tpc, sent>>
  /\ UNCHANGED <<ownerVars, sendVars>>

-----------------------------------------------------------------------------
(* Calls of another thread: the test of m_state, the store to it and the   *)
(* push of the functor are separate steps.                                 *)

ThreadUnchanged ==
  /\ UNCHANGED <<pc, rev, ch, inputBytes, sock>>
  /\ UNCHANGED <<ownerVars, sendVars>>

Idle == [call |-> "idle", message |-> "none", stored |-> FALSE]

\* A call of another thread, before or after it has stored the state.
Calls ==
  {c \in [call : Raw, message : Messages \cup {"none"}, stored : BOOLEAN] :
     c.call = "sendInLoop" => c.message \in Messages}

BeginSend(t, m) ==
  /\ tpc[t] = Idle
  /\ m \notin sent
  /\ m_state = "kConnected"
  /\ sent' = sent \cup {m}
  /\ tpc' = [tpc EXCEPT ![t] = [call |-> "sendInLoop", message |-> m, stored |-> TRUE]]
  /\ UNCHANGED <<queue, m_state, calls>>
  /\ ThreadUnchanged

BeginShutdown(t) ==
  /\ ThreadsClose
  /\ tpc[t] = Idle
  /\ m_state = "kConnected"
  /\ calls < MaxCalls
  /\ calls' = calls + 1
  /\ tpc' = [tpc EXCEPT ![t] = [call |-> "shutdownInLoop", message |-> "none",
                                stored |-> FALSE]]
  /\ UNCHANGED <<queue, m_state, sent>>
  /\ ThreadUnchanged

BeginForceClose(t) ==
  /\ ThreadsClose
  /\ tpc[t] = Idle
  /\ m_state \in {"kConnected", "kDisconnecting"}
  /\ calls < MaxCalls
  /\ calls' = calls + 1
  /\ tpc' = [tpc EXCEPT ![t] = [call |-> "forceCloseInLoop", message |-> "none",
                                stored |-> FALSE]]
  /\ UNCHANGED <<queue, m_state, sent>>
  /\ ThreadUnchanged

StoreState(t) ==
  /\ tpc[t] # Idle /\ ~tpc[t].stored
  /\ m_state' = "kDisconnecting"
  /\ tpc' = [tpc EXCEPT ![t].stored = TRUE]
  /\ UNCHANGED <<queue, sent, calls>>
  /\ ThreadUnchanged

PushFunctor(t) ==
  /\ tpc[t] # Idle /\ tpc[t].stored
  /\ queue' = Append(queue, [call |-> tpc[t].call, message |-> tpc[t].message])
  /\ tpc' = [tpc EXCEPT ![t] = Idle]
  /\ UNCHANGED <<m_state, sent, calls>>
  /\ ThreadUnchanged

-----------------------------------------------------------------------------
\* TcpServer::newConnection has run.
Init ==
  /\ pc = "idle" /\ rev = {}
  /\ queue = <<Functor("onConnectionEstablish")>>
  /\ m_state = "kConnecting"
  /\ ch = NewChannel
  /\ inputBytes = 0 /\ outputBuffer = <<>>
  /\ owner = "holds" /\ removals = 0 /\ closes = 0
  /\ tpc = [t \in Threads |-> Idle]
  /\ sent = {} /\ calls = 0
  /\ sock = [unread |-> 0, fin |-> FALSE, reset |-> FALSE, error |-> FALSE,
             room |-> Room, shut |-> FALSE]
  /\ accepted = <<>> /\ wire = <<>>

Peer == PeerSends \/ PeerReads \/ PeerCloses \/ PeerResets

Dispatch ==
  \/ HandleEvent \/ HandleHup \/ HandleError \/ OnReadMessage \/ OnReadClose
  \/ MessageReturns \/ OnWrite \/ OnWriteFails \/ OnWriteDown \/ DispatchReturns

RunFunctor ==
  \/ RunEstablish \/ RunSend \/ RunShutdown \/ RunForceClose \/ RunDestroy
  \/ RunUserCallback

ThreadStep(t) ==
  \/ \E m \in Messages : BeginSend(t, m)
  \/ BeginShutdown(t) \/ BeginForceClose(t) \/ StoreState(t) \/ PushFunctor(t)

Next ==
  \/ Peer
  \/ Poll \/ Dispatch \/ UserReads
  \/ RunFunctor \/ ConnectionCallbackReturns
  \/ OwnerRemoves \/ OwnerDisposes \/ OwnerDisposesInLoop
  \/ \E m \in Messages : LoopSend(m)
  \/ LoopShutdown \/ LoopForceClose
  \/ \E t \in Threads : ThreadStep(t)

Spec == Init /\ [][Next]_vars

\* The loop thread is scheduled and the callbacks return.  Each round of the loop
\* polls and runs functors (EventLoop!NoStarvation and FunctorsEventuallyRun).
Fairness ==
  /\ WF_vars(Dispatch) /\ WF_vars(ConnectionCallbackReturns)
  /\ SF_vars(Poll) /\ SF_vars(RunFunctor)
  /\ WF_vars(OwnerRemoves)

\* The peer reads what it is sent.
FairSpec == Spec /\ Fairness /\ WF_vars(PeerReads)

-----------------------------------------------------------------------------
(* Properties.                                                             *)

States == {"kConnecting", "kConnected", "kDisconnecting", "kDisconnected"}

\* Every variable stays in its set; the socket never takes more than its buffer, nor
\* the peer's bytes more than the bound.
TypeOK ==
  /\ pc \in {"idle", "polled", "dispatch", "message", "connection"}
  /\ rev \subseteq Events \cup {"err", "hup"}
  /\ queue \in Seq(Functors)
  /\ m_state \in States
  /\ ch \in ChannelType
  /\ owner \in {"holds", "removed", "disposed"}
  /\ removals \in Nat /\ closes \in Nat
  /\ tpc \in [Threads -> {Idle} \cup Calls]
  /\ sent \subseteq Messages
  /\ calls \in 0 .. MaxCalls
  /\ sock \in [unread : Nat, fin : BOOLEAN, reset : BOOLEAN,
               error : BOOLEAN, room : 0 .. Room, shut : BOOLEAN]
  /\ inputBytes \in Nat /\ sock.unread + inputBytes <= MaxInput
  /\ {outputBuffer, accepted, wire} \subseteq Seq(Messages \X (1 .. MessageLen))

\* The bytes the connection took to send are on the wire or in the output buffer,
\* in the order they were taken, as long as the socket takes bytes: partial writes,
\* writes that would block and direct writes neither lose, repeat nor swap any.
OutputInOrder ==
  CanWrite => accepted = wire \o outputBuffer

\* The same while the connection is open, whatever other threads do.
OutputInOrderWhileOpen ==
  CanWrite /\ closes = 0 /\ owner = "holds" => accepted = wire \o outputBuffer

\* epoll_ctl never fails on the connection's channel, and m_status tells whether
\* the kernel watches it, through every order of errors, closes and removals.
ChannelInSync == InSync(ch)

\* Nothing refers to a connection that is deleted: no functor bound to this, no
\* active channel, no entry of the epoll instance.
NothingDangles ==
  \/ Alive
  \/ /\ \A i \in DOMAIN queue : queue[i].call \notin Raw
     /\ pc # "polled"
     /\ ~ch.registered /\ ~ch.mapped

\* Without a reset by the peer the owner hears of the end of a connection once,
\* and no message is delivered after that.
ClosesOnce ==
  ~sock.reset => closes <= 1 /\ (pc = "message" => closes = 0)

\* What onWrite calls a write to fd error: bytes leave the output buffer only for
\* the wire, and a write that fails is not completed.
OutputLeavesByWire ==
  [][Len(outputBuffer') < Len(outputBuffer) =>
       wire' = wire \o SubSeq(outputBuffer, 1, Len(outputBuffer) - Len(outputBuffer'))]_vars

\* The peer closing or resetting the connection always leads to its deletion.
PeerCloseDeletes == (sock.fin \/ sock.reset) ~> ~Alive

\* Output reaches the wire, unless the connection ends first.
OutputDrains ==
  (outputBuffer # <<>>) ~> (outputBuffer = <<>> \/ m_state = "kDisconnected" \/ ~CanWrite)
=============================================================================
