------------------------------ MODULE Connector ------------------------------
(***************************************************************************)
(* The Connector of src/src/net/Connector.cpp: operators on one record     *)
(*   connect  m_connect                                                    *)
(*   state    m_state                                                      *)
(*   fd       m_fd of the Channel that Connector is                        *)
(*   ch       that Channel                                                 *)
(*   sock     what has become of each descriptor                           *)
(*   timers   the retry timers that are set                                *)
(*   reset    whether a resetChannel with a bare this is queued; what it   *)
(*            does is nothing, so how many and where in the queue is left  *)
(*            out                                                          *)
(*   gaveUp   history: connect() has ended without a retry                 *)
(***************************************************************************)
EXTENDS Channel

CONSTANT Fds  \* the numbers sockets may have

ASSUME ConnectorAssumption == Fds \subseteq Nat \ {0}

NoFd == 0  \* -1 in the code

NewConnector ==
  [connect |-> FALSE, state |-> "kDisconnected", fd |-> NoFd, ch |-> NewChannel,
   sock |-> [f \in Fds |-> "closed"], timers |-> 0, reset |-> FALSE,
   gaveUp |-> FALSE]

\* Mutant: the socket is not closed.
RetryKeepsSocket(k) ==
  [k EXCEPT !.state = "kDisconnected", !.timers = IF k.connect THEN @ + 1 ELSE @]

\* retry, of the socket m_fd.
Retry(k) ==
  [k EXCEPT !.sock[k.fd] = "closed",
            !.state = "kDisconnected",
            !.timers = IF k.connect THEN @ + 1 ELSE @]

\* removeChannel, with the functor it queues.
RemoveChannel(k) == [k EXCEPT !.ch = Remove(DisableAll(@)), !.reset = TRUE]

\* resetChannel, whose body is commented out: all that happens is that it leaves the queue.
ResetChannel(k) == [k EXCEPT !.reset = FALSE]

\* connecting.
Connecting(k, f) ==
  [k EXCEPT !.state = "kConnecting", !.fd = f, !.ch = EnableWriting(@)]

FreeFds(k) == {f \in Fds : k.sock[f] = "closed"}

\* The socket that socket() returns is the lowest that is free.
NextFd(k) == CHOOSE f \in FreeFds(k) : \A g \in FreeFds(k) : f <= g

\* connect: the outcomes of socket() and ::connect(), the latter grouped as the
\* switch groups them.  A socket that is to be retried is closed at once.
InProgress(k) ==
  {Connecting([k EXCEPT !.sock[NextFd(k)] = s], NextFd(k)) : s \in {"connecting", "established"}}
Refused(k) ==
  [k EXCEPT !.state = "kDisconnected", !.timers = IF k.connect THEN @ + 1 ELSE @]
Fatal(k) == [k EXCEPT !.fd = NoFd, !.gaveUp = TRUE]

Connect(k) ==
  IF FreeFds(k) = {}
    THEN {[k EXCEPT !.gaveUp = TRUE]}
    ELSE InProgress(k) \cup {Refused(k), Fatal(k)}

StartInLoop(k) == IF k.connect THEN Connect(k) ELSE {k}

\* Mutant: the attempt goes on.
StopInLoopLate(k) == k

StopInLoop(k) == IF k.state = "kConnecting" THEN Retry(RemoveChannel(k)) ELSE k

\* restart, up to its call of startInLoop.
Restarted(k) == [k EXCEPT !.state = "kDisconnected", !.connect = TRUE]

\* Mutant: the channel of the failed attempt is not removed.
OnErrorKeepsChannel(k) == IF k.state = "kConnecting" THEN Retry(k) ELSE k

OnError(k) == IF k.state = "kConnecting" THEN Retry(RemoveChannel(k)) ELSE k

\* Mutant: an attempt that has failed is only closed.
OnWriteFailedCloses(k) ==
  [RemoveChannel(k) EXCEPT !.sock[k.fd] = "closed", !.state = "kDisconnected"]

\* onWrite of an attempt that has failed by now, or that has succeeded, when m_connect
\* tells whether anyone still wants it.
OnWriteFailed(k) == Retry(RemoveChannel(k))

OnWriteConnected(k) ==
  [RemoveChannel(k) EXCEPT !.state = "kConnected",
                           !.sock[k.fd] = IF k.connect THEN @ ELSE "closed"]
=============================================================================
