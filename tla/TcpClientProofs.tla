--------------------------- MODULE TcpClientProofs ---------------------------
(***************************************************************************)
(* Proofs about TcpClient and its Connector: one attempt at a time, every  *)
(* socket owned, stops that are final and a destruction that leaves no     *)
(* channel behind, for any number of descriptors and calls.                *)
(***************************************************************************)
EXTENDS TcpClient, SequenceTheorems, WellFoundedInduction, TLAPS

\* The connector's channel is watched for writing during an attempt, and new otherwise.
ChannelOf(state) ==
  IF state = "kConnecting" THEN EnableWriting(NewChannel) ELSE NewChannel

KType ==
  [connect : BOOLEAN, state : {"kDisconnected", "kConnecting", "kConnected"},
   fd : Fds \cup {NoFd}, ch : ChannelType,
   sock : [Fds -> {"closed", "connecting", "established", "failed"}],
   timers : Nat, reset : BOOLEAN, gaveUp : BOOLEAN]

\* A connector in order: no retry is due during an attempt, and never two.
KOK(c) ==
  /\ c \in KType
  /\ c.ch = ChannelOf(c.state)
  /\ c.timers \in {0, 1}
  /\ c.state = "kConnecting" => c.fd \in Fds /\ c.timers = 0

PhaseInv ==
  /\ pc = "polled" <=> rev # "none"
  /\ pc \in {"closing", "restarting", "again"} => m_connectionPtr = NoFd
  /\ pc = "restarting" => m_retry

\* At most one of: an attempt, a retry that is due, a report, a connection; and
\* nothing of it when the client is about to restart by itself.
AttemptInv ==
  ~overlapped =>
    /\ KOK(k)
    /\ rev # "none" \/ m_connectionPtr # NoFd => k.timers = 0
    /\ m_connectionPtr # NoFd =>
         m_connectionPtr = k.fd /\ k.state # "kConnecting" /\ rev = "none"
    /\ m_retry /\ pc \in {"closing", "restarting"} =>
         misused \/ closedTwice \/ ~Busy

CallsIn(x) == {x[i].call : i \in DOMAIN x}

\* A stop that nobody has undone has been stored, and is on its way as long as the
\* attempt goes on.
StopInv ==
  ~wanted /\ ~stopRaced /\ ~overlapped =>
    /\ ~k.connect
    /\ k.state = "kConnecting" =>
         tpc = <<"push", "stopInLoop">> \/ "stopInLoop" \in CallsIn(queue)

\* A client that was destroyed has no channel in the poller any more; if nothing else of
\* it was under way, nothing but its resetChannel knows its address.
GoneInv ==
  /\ undefined => gone /\ left
  /\ gone => k.ch = NewChannel /\ m_connectionPtr = NoFd
  /\ gone /\ ~left => k.timers = 0 /\ rev = "none" /\ CallsIn(queue) \cap Raw = {}

ClientInv ==
  /\ TypeOK /\ PhaseInv /\ AttemptInv /\ OneAttempt /\ EverySocketOwned
  /\ StopInv /\ GoneInv

-----------------------------------------------------------------------------
(* The connector's operations.                                             *)

\* socket() finds the lowest descriptor.
LEMMA LowestIsFree ==
  ASSUME NEW c, FreeFds(c) # {}
  PROVE  NextFd(c) \in FreeFds(c)
<1> DEFINE S == FreeFds(c)
<1>1. S \subseteq Nat
  BY ConnectorAssumption DEF FreeFds
<1>2. PICK f \in S : \A g \in S : <<g, f>> \notin OpToRel(<, Nat)
  BY <1>1, NatLessThanWellFounded, WFMin, Zenon
<1>3. \A g \in S : ~ (g < f)
  BY <1>1, <1>2, Zenon DEF OpToRel
<1>4. \A g \in S : f <= g
  BY <1>1, <1>3
<1> QED
  BY <1>4 DEF NextFd

\* enableWriting and removeChannel take the channel to and fro.
LEMMA ChannelsAre ==
  /\ NewChannel \in ChannelType /\ ~NewChannel.registered
  /\ EnableWriting(NewChannel) \in ChannelType /\ EnableWriting(NewChannel).registered
  /\ Remove(DisableAll(NewChannel)) = NewChannel
  /\ Remove(DisableAll(EnableWriting(NewChannel))) = NewChannel
<1> DEFINE W == [events |-> {"out"}, status |-> "kAdded", mapped |-> TRUE,
                 registered |-> TRUE, interest |-> {"out"}, failed |-> FALSE]
           A == [events |-> {}, status |-> "kAdded", mapped |-> TRUE,
                 registered |-> TRUE, interest |-> {}, failed |-> FALSE]
           D == [events |-> {}, status |-> "kDeleted", mapped |-> TRUE,
                 registered |-> FALSE, interest |-> {}, failed |-> FALSE]
<1>1. NewChannel \in ChannelType /\ ~NewChannel.registered
  BY DEF NewChannel, ChannelType, Statuses
<1>2. EnableWriting(NewChannel) = W
  BY DEF NewChannel, EnableWriting, Update, CtlAdd
<1>3. W \in ChannelType /\ W.registered
  BY DEF ChannelType, Statuses, Events
<1>4. DisableAll(W) = D
  BY DEF DisableAll, Update, CtlDel
<1>5. DisableAll(NewChannel) = A
  BY DEF NewChannel, DisableAll, Update, CtlAdd
<1>6. Remove(D) = NewChannel
  <2>1. Remove(D) = [[D EXCEPT !.mapped = FALSE] EXCEPT !.status = "kNew"]
    BY DEF Remove
  <2> QED
    BY <2>1 DEF NewChannel
<1>7. Remove(A) = NewChannel
  <2> DEFINE U == [A EXCEPT !.mapped = FALSE]
  <2>1. Remove(A) = [CtlDel(U) EXCEPT !.status = "kNew"]
    BY DEF Remove
  <2>2. CtlDel(U) = [U EXCEPT !.registered = FALSE, !.interest = {}]
    BY DEF CtlDel
  <2> QED
    BY <2>1, <2>2 DEF NewChannel
<1> QED
  BY <1>1, <1>2, <1>3, <1>4, <1>5, <1>6, <1>7

LEMMA RegisteredIs ==
  ASSUME NEW c, c.ch = ChannelOf(c.state)
  PROVE  c.ch.registered <=> c.state = "kConnecting"
  BY ChannelsAre DEF ChannelOf

\* resetChannel does nothing.
LEMMA ResetEffect ==
  ASSUME TypeOK, RunReset
  PROVE  /\ k' \in KType /\ (KOK(k) => KOK(k'))
         /\ k'.connect = k.connect /\ k'.state = k.state /\ k'.fd = k.fd /\ k'.ch = k.ch
         /\ k'.sock = k.sock /\ k'.timers = k.timers
         /\ pc = "idle"
         /\ UNCHANGED <<m_connectionPtr, m_connect, m_retry, pc, rev, twice, queue, tpc, calls>>
         /\ UNCHANGED <<wanted, stopRaced, misused, closedTwice, overlapped>>
         /\ UNCHANGED <<gone, left, undefined>>
<1>1. k \in KType
  BY DEF TypeOK, KType
<1>2. k' = [k EXCEPT !.reset = FALSE]
  BY DEF RunReset, ResetChannel
<1>3. /\ k' \in KType
      /\ k'.connect = k.connect /\ k'.state = k.state /\ k'.fd = k.fd /\ k'.ch = k.ch
      /\ k'.sock = k.sock /\ k'.timers = k.timers
  BY <1>1, <1>2 DEF KType
<1>4. KOK(k) => KOK(k')
  BY <1>3 DEF KOK
<1> QED
  BY <1>3, <1>4 DEF RunReset, userVars, connVars, goneVars

\* retry: the attempt is over, its socket closed, and the next one due if m_connect is set.
LEMMA RetryEnds ==
  ASSUME NEW c, KOK(c), c.state = "kConnecting"
  PROVE  LET r == Retry(RemoveChannel(c))
         IN  /\ KOK(r) /\ r.state = "kDisconnected"
             /\ r.connect = c.connect /\ r.fd = c.fd
             /\ ~c.connect => r.timers = 0
             /\ r.sock = [c.sock EXCEPT ![c.fd] = "closed"]
<1> DEFINE r == Retry(RemoveChannel(c))
           t == IF c.connect THEN 1 ELSE 0
           s == [c.sock EXCEPT ![c.fd] = "closed"]
<1>1. r = [c EXCEPT !.ch = NewChannel, !.reset = TRUE, !.sock = s,
                    !.state = "kDisconnected", !.timers = t]
  <2> DEFINE q == [c EXCEPT !.ch = NewChannel, !.reset = TRUE]
  <2>1. RemoveChannel(c) = q
    BY ChannelsAre DEF KOK, RemoveChannel, ChannelOf
  <2>2. q \in KType /\ q.fd = c.fd /\ q.sock = c.sock /\ q.connect = c.connect /\ q.timers = 0
    BY ChannelsAre DEF KOK, KType
  <2>3. r = [q EXCEPT !.sock = s, !.state = "kDisconnected", !.timers = t]
    <3>1. r = Retry(q)
      BY <2>1
    <3> HIDE DEF q, r
    <3>2. r = [q EXCEPT !.sock[q.fd] = "closed", !.state = "kDisconnected",
                        !.timers = IF q.connect THEN q.timers + 1 ELSE q.timers]
      BY <3>1 DEF Retry
    <3> QED
      BY <2>2, <3>2 DEF KType
  <2> QED
    BY <2>3 DEF KOK, KType
<1>2. s \in [Fds -> {"closed", "connecting", "established", "failed"}] /\ t \in {0, 1}
      /\ (~c.connect => t = 0)
  BY DEF KOK, KType
<1> HIDE DEF r, s, t
<1>3. r \in KType
  <2>1. t \in Nat /\ NewChannel \in ChannelType /\ c \in KType
    BY <1>2, ChannelsAre DEF KOK
  <2> QED
    BY <1>1, <1>2, <2>1 DEF KType
<1> QED
  BY <1>1, <1>2, <1>3 DEF KOK, KType, ChannelOf, r, s

\* stop() and an error end an attempt that goes on, and nothing else.
LEMMA StopEnds ==
  ASSUME NEW c, KOK(c)
  PROVE  /\ OnError(c) = StopInLoop(c)
         /\ LET r == StopInLoop(c)
            IN  /\ KOK(r) /\ r.state # "kConnecting"
                /\ r.connect = c.connect /\ r.fd = c.fd
                /\ c.state # "kConnecting" => r = c
                /\ ~c.connect => r.timers <= c.timers
                /\ \A f \in Fds : r.sock[f] # "closed" =>
                     c.sock[f] # "closed" /\ (c.state = "kConnecting" => f # c.fd)
<1>1. CASE c.state = "kConnecting"
  <2> DEFINE r == Retry(RemoveChannel(c))
  <2>1. /\ KOK(r) /\ r.state = "kDisconnected"
        /\ r.connect = c.connect /\ r.fd = c.fd
        /\ ~c.connect => r.timers = 0
        /\ r.sock = [c.sock EXCEPT ![c.fd] = "closed"]
    BY <1>1, RetryEnds
  <2>2. OnError(c) = r /\ StopInLoop(c) = r
    BY <1>1 DEF OnError, StopInLoop
  <2>3. c.fd \in Fds /\ c.sock \in [Fds -> {"closed", "connecting", "established", "failed"}]
        /\ c.timers = 0
    BY <1>1 DEF KOK, KType
  <2> HIDE DEF r
  <2> QED
    BY <1>1, <2>1, <2>2, <2>3
<1>2. CASE c.state # "kConnecting"
  <2>1. OnError(c) = c /\ StopInLoop(c) = c
    BY <1>2 DEF OnError, StopInLoop
  <2>2. c.timers \in {0, 1}
    BY DEF KOK
  <2> QED
    BY <1>2, <2>1, <2>2
<1> QED
  BY <1>1, <1>2

\* onWrite of an attempt that was established: the connection has the socket, or it
\* is closed.
LEMMA WriteConnects ==
  ASSUME NEW c, KOK(c), c.state = "kConnecting"
  PROVE  LET r == OnWriteConnected(c)
         IN  /\ KOK(r) /\ r.state = "kConnected" /\ r.timers = 0
             /\ r.connect = c.connect /\ r.fd = c.fd
             /\ \A f \in Fds : r.sock[f] # "closed" =>
                  c.sock[f] # "closed" /\ (f = c.fd => c.connect)
<1> DEFINE r == OnWriteConnected(c)
           q == [c EXCEPT !.ch = NewChannel, !.reset = TRUE]
           s == [c.sock EXCEPT ![c.fd] = IF c.connect THEN c.sock[c.fd] ELSE "closed"]
<1>1. RemoveChannel(c) = q
  BY ChannelsAre DEF KOK, RemoveChannel, ChannelOf
<1>2. q \in KType /\ q.fd = c.fd /\ q.sock = c.sock /\ q.connect = c.connect /\ q.timers = 0
      /\ q.ch = NewChannel
  BY ChannelsAre DEF KOK, KType
<1>3. s \in [Fds -> {"closed", "connecting", "established", "failed"}] /\ c.fd \in Fds
      /\ \A f \in Fds : s[f] # "closed" => c.sock[f] # "closed" /\ (f = c.fd => c.connect)
  BY DEF KOK, KType
<1>4. r = [q EXCEPT !.state = "kConnected",
                    !.sock[c.fd] = IF c.connect THEN q.sock[c.fd] ELSE "closed"]
  BY <1>1 DEF OnWriteConnected
<1> HIDE DEF r, q
<1>5. r = [q EXCEPT !.state = "kConnected", !.sock = s]
  BY <1>2, <1>4 DEF KType
<1> HIDE DEF s
<1>6. r \in KType /\ r.state = "kConnected" /\ r.timers = 0 /\ r.ch = NewChannel
      /\ r.connect = c.connect /\ r.fd = c.fd /\ r.sock = s
  BY <1>2, <1>3, <1>5 DEF KType
<1> QED
  BY <1>3, <1>6 DEF KOK, ChannelOf, r

\* connect: an attempt on a socket that was free, a retry, or nothing.
LEMMA StartBegins ==
  ASSUME NEW c, KOK(c), c.state # "kConnecting", c.timers = 0, NEW r, r \in StartInLoop(c)
  PROVE  /\ KOK(r) /\ r.connect = c.connect
         /\ r.state = "kConnecting" => c.connect
         /\ ~c.connect => r = c
         /\ \A f \in Fds : r.sock[f] # "closed" =>
              c.sock[f] # "closed" \/ (f = r.fd /\ r.state = "kConnecting")
<1>1. c \in KType /\ c.ch = NewChannel /\ c.sock \in [Fds -> {"closed", "connecting", "established", "failed"}]
  BY DEF KOK, ChannelOf, KType
<1>2. CASE ~c.connect
  BY <1>2 DEF StartInLoop
<1>3. CASE c.connect /\ r = [c EXCEPT !.gaveUp = TRUE]
  BY <1>1, <1>3 DEF KOK, KType
<1>4. CASE c.connect /\ r = Fatal(c)
  BY <1>1, <1>4 DEF KOK, KType, Fatal
<1>5. CASE c.connect /\ r = Refused(c)
  <2>1. r = [c EXCEPT !.state = "kDisconnected", !.timers = 1]
    BY <1>1, <1>5 DEF Refused
  <2>2. /\ r \in KType /\ r.state = "kDisconnected" /\ r.timers = 1 /\ r.ch = NewChannel
        /\ r.connect = c.connect /\ r.sock = c.sock
    BY <1>1, <2>1 DEF KType
  <2> QED
    BY <1>5, <2>2 DEF KOK, ChannelOf
<1>6. CASE c.connect /\ FreeFds(c) # {} /\ r \in InProgress(c)
  <2>1. PICK t \in {"connecting", "established"} :
          r = Connecting([c EXCEPT !.sock[NextFd(c)] = t], NextFd(c))
    BY <1>6 DEF InProgress
  <2> DEFINE n == NextFd(c)
             s == [c.sock EXCEPT ![n] = t]
             q == [c EXCEPT !.sock = s]
  <2>2. n \in Fds
    BY <1>6, LowestIsFree DEF FreeFds
  <2>3. [c EXCEPT !.sock[NextFd(c)] = t] = q
    BY <1>1 DEF KType
  <2> HIDE DEF n
  <2>4. s \in [Fds -> {"closed", "connecting", "established", "failed"}]
        /\ \A f \in Fds : s[f] # "closed" => c.sock[f] # "closed" \/ f = n
    BY <1>1, <2>2
  <2> HIDE DEF s
  <2>5. q \in KType /\ q.ch = NewChannel /\ q.connect = c.connect /\ q.timers = 0 /\ q.sock = s
    BY <1>1, <2>4 DEF KType
  <2>6. r = [q EXCEPT !.state = "kConnecting", !.fd = n, !.ch = EnableWriting(NewChannel)]
    BY <2>1, <2>3, <2>5 DEF Connecting, n
  <2> HIDE DEF q
  <2>7. /\ r \in KType /\ r.state = "kConnecting" /\ r.fd = n /\ r.timers = 0
        /\ r.ch = EnableWriting(NewChannel) /\ r.sock = s /\ r.connect = c.connect
    BY <2>2, <2>5, <2>6, ChannelsAre DEF KType
  <2> QED
    BY <1>6, <2>2, <2>4, <2>7 DEF KOK, ChannelOf
<1> QED
  BY <1>2, <1>3, <1>4, <1>5, <1>6 DEF StartInLoop, Connect

\* Setting m_connect, a socket's fate and the end of a retry timer keep it in order.
LEMMA Edits ==
  ASSUME NEW c, KOK(c)
  PROVE  /\ \A b \in BOOLEAN :
              LET r == [c EXCEPT !.connect = b]
              IN  /\ KOK(r) /\ r.connect = b /\ r.state = c.state /\ r.fd = c.fd
                  /\ r.sock = c.sock /\ r.timers = c.timers /\ r.ch = c.ch
         /\ \A g \in Fds \cup {NoFd}, v \in {"closed", "connecting", "established", "failed"} :
              LET r == [c EXCEPT !.sock[g] = v]
              IN  /\ KOK(r) /\ r.connect = c.connect /\ r.state = c.state /\ r.fd = c.fd
                  /\ r.sock = [c.sock EXCEPT ![g] = v] /\ r.timers = c.timers /\ r.ch = c.ch
         /\ c.timers > 0 =>
              LET r == [c EXCEPT !.timers = @ - 1]
              IN  /\ KOK(r) /\ r.connect = c.connect /\ r.state = c.state /\ r.fd = c.fd
                  /\ r.sock = c.sock /\ r.timers = 0 /\ c.timers = 1 /\ r.ch = c.ch
                  /\ c.state # "kConnecting"
<1>1. c \in KType
  BY DEF KOK
<1>2. ASSUME NEW b \in BOOLEAN
      PROVE  LET r == [c EXCEPT !.connect = b]
             IN  /\ KOK(r) /\ r.connect = b /\ r.state = c.state /\ r.fd = c.fd
                 /\ r.sock = c.sock /\ r.timers = c.timers /\ r.ch = c.ch
  BY <1>1, <1>2 DEF KOK, KType
<1>3. ASSUME NEW g \in Fds \cup {NoFd}, NEW v \in {"closed", "connecting", "established", "failed"}
      PROVE  LET r == [c EXCEPT !.sock[g] = v]
             IN  /\ KOK(r) /\ r.connect = c.connect /\ r.state = c.state /\ r.fd = c.fd
                 /\ r.sock = [c.sock EXCEPT ![g] = v] /\ r.timers = c.timers /\ r.ch = c.ch
  <2> DEFINE s == [c.sock EXCEPT ![g] = v]
             r == [c EXCEPT !.sock = s]
  <2>1. [c EXCEPT !.sock[g] = v] = r
    BY <1>1 DEF KType
  <2>2. s \in [Fds -> {"closed", "connecting", "established", "failed"}]
    BY <1>1 DEF KType
  <2> HIDE DEF s
  <2>3. /\ r \in KType /\ r.connect = c.connect /\ r.state = c.state /\ r.fd = c.fd
        /\ r.sock = s /\ r.timers = c.timers /\ r.ch = c.ch
    BY <1>1, <2>2 DEF KType
  <2> HIDE DEF r
  <2>4. KOK(r)
    BY <2>3 DEF KOK
  <2> QED
    BY <2>1, <2>3, <2>4 DEF s
<1>4. ASSUME c.timers > 0
      PROVE  LET r == [c EXCEPT !.timers = @ - 1]
             IN  /\ KOK(r) /\ r.connect = c.connect /\ r.state = c.state /\ r.fd = c.fd
                 /\ r.sock = c.sock /\ r.timers = 0 /\ c.timers = 1 /\ r.ch = c.ch
                 /\ c.state # "kConnecting"
  <2>1. c.timers = 1 /\ c.state # "kConnecting"
    BY <1>4 DEF KOK
  <2> DEFINE r == [c EXCEPT !.timers = 0]
  <2>2. [c EXCEPT !.timers = @ - 1] = r
    BY <2>1
  <2>3. /\ r \in KType /\ r.connect = c.connect /\ r.state = c.state /\ r.fd = c.fd
        /\ r.sock = c.sock /\ r.timers = 0 /\ r.ch = c.ch
    BY <1>1 DEF KType
  <2> HIDE DEF r
  <2>4. KOK(r)
    BY <2>3 DEF KOK
  <2> QED
    BY <2>1, <2>2, <2>3, <2>4
<1> QED
  BY <1>2, <1>3, <1>4

\* startInLoop, of a connector c that is in order or busy.
LEMMA StartsEffect ==
  ASSUME NEW c, c \in KType, overlapped = FALSE, Starts(c), c.timers = k.timers,
         ~c.connect => KOK(c),
         ~Busy => KOK(c) /\ c.state # "kConnecting"
  PROVE  /\ k' \in KType
         /\ overlapped' \in BOOLEAN /\ (overlapped' <=> c.connect /\ Busy)
         /\ ~overlapped' =>
              /\ KOK(k') /\ k'.connect = c.connect
              /\ k' = c \/ (c.connect /\ ~Busy)
              /\ k'.state = "kConnecting" => c.connect \/ k' = c
              /\ \A f \in Fds : k'.sock[f] # "closed" =>
                   c.sock[f] # "closed" \/ (f = k'.fd /\ k'.state = "kConnecting")
<1>1. CASE c.connect /\ Busy
  BY <1>1 DEF Starts
<1>2. CASE ~c.connect
  <2>1. k' = c /\ overlapped' = overlapped
    BY <1>2 DEF Starts, StartInLoop
  <2> QED
    BY <1>2, <2>1
<1>3. CASE c.connect /\ ~Busy
  <2>1. k' \in StartInLoop(c) /\ overlapped' = overlapped
    BY <1>3 DEF Starts
  <2>2. c.timers = 0
    BY <1>3 DEF Busy, KOK
  <2>3. /\ KOK(k') /\ k'.connect = c.connect
        /\ k'.state = "kConnecting" => c.connect
        /\ \A f \in Fds : k'.sock[f] # "closed" =>
             c.sock[f] # "closed" \/ (f = k'.fd /\ k'.state = "kConnecting")
    BY <1>3, <2>1, <2>2, StartBegins, ZenonT(30)
  <2> QED
    BY <1>3, <2>1, <2>3 DEF KOK
<1> QED
  BY <1>1, <1>2, <1>3

\* restart, up to startInLoop.
LEMMA RestartedIs ==
  ASSUME k \in KType
  PROVE  /\ Restarted(k) \in KType /\ Restarted(k).timers = k.timers
         /\ Restarted(k).connect = TRUE /\ Restarted(k).sock = k.sock
         /\ Restarted(k).state = "kDisconnected"
         /\ KOK(k) /\ ~Busy => KOK(Restarted(k))
<1>1. /\ Restarted(k) \in KType /\ Restarted(k).timers = k.timers
      /\ Restarted(k).connect = TRUE /\ Restarted(k).sock = k.sock
      /\ Restarted(k).state = "kDisconnected" /\ Restarted(k).ch = k.ch
  BY DEF Restarted, KType
<1>2. KOK(k) /\ ~Busy => k.ch = NewChannel
  BY ChannelsAre DEF KOK, Busy, ChannelOf
<1> QED
  BY <1>1, <1>2 DEF KOK, ChannelOf

-----------------------------------------------------------------------------
(* What each step does to the connector.                                   *)

\* Handlers and calls that leave the connector alone.
Still ==
  \/ Poll \/ HandleWriteStale \/ CallbackReturns \/ HandleClose \/ HandleCloseAgain
  \/ TestRetry \/ LoopDisconnect \/ UseAfterDestroy
  \/ \E f \in {"startInLoop", "stopInLoop"} : BeginCall(f) \/ PushFunctor(f)

LEMMA StillUnchanged == Still => UNCHANGED <<k, overlapped>>
  BY DEF Still, Poll, HandleWriteStale, CallbackReturns, HandleClose, HandleCloseAgain,
         TestRetry, LoopDisconnect, LoopCalls, UseAfterDestroy, BeginCall, PushFunctor,
         ThreadUnchanged

\* With m_connect set or cleared.
Set(b) == [k EXCEPT !.connect = b]

\* The timer that fires is no longer set.
Fired == [k EXCEPT !.timers = @ - 1]

\* The outcomes of a step, by what the connector becomes.
Outcomes ==
  \/ Still
  \/ AttemptSucceeds \/ AttemptFails
  \/ HandleError \/ HandleWriteFailed \/ HandleWrite \/ TimerFires
  \/ Restart \/ RunStart \/ RunStop \/ RunDestroy \/ RunReset
  \/ LoopConnect \/ LoopStop
  \/ \E f \in {"startInLoop", "stopInLoop"} : StoreConnect(f)
  \/ Destroy

LEMMA NextIs ==
  Next => /\ Outcomes
          /\ ~Going => gone /\ ~undefined /\ (RunDestroy \/ RunReset \/ UseAfterDestroy)
  BY DEF Next, Outcomes, Still, Handler, RunFunctor, Call

\* A retry timer fires only when nothing else goes on.
LEMMA TimerStarts ==
  ASSUME PhaseInv, AttemptInv, overlapped = FALSE, TimerFires
  PROVE  /\ KOK(Fired) /\ Fired.state # "kConnecting" /\ Fired.timers = 0
         /\ Fired.connect = k.connect /\ Fired.sock = k.sock
         /\ rev = "none" /\ m_connectionPtr = NoFd
         /\ k' \in StartInLoop(Fired) /\ overlapped' = FALSE
<1>1. KOK(k) /\ k.timers > 0
  BY DEF AttemptInv, TimerFires
<1>2. /\ KOK(Fired) /\ Fired.state # "kConnecting" /\ Fired.timers = 0
      /\ Fired.connect = k.connect /\ Fired.sock = k.sock
      /\ k.timers = 1 /\ k.state # "kConnecting"
  BY <1>1, Edits DEF Fired
<1>3. rev = "none" /\ m_connectionPtr = NoFd
  BY <1>1 DEF AttemptInv
<1>4. ~k.ch.registered
  BY <1>1, <1>2, RegisteredIs DEF KOK
<1>5. k' \in StartInLoop(Fired) /\ overlapped' = overlapped
  BY <1>2, <1>3, <1>4 DEF TimerFires, Fired
<1> QED
  BY <1>2, <1>3, <1>5

\* RunStart, LoopConnect and Restart call startInLoop with a connector of their own.
LEMMA StartsWith ==
  ASSUME TypeOK, AttemptInv, overlapped = FALSE,
         NEW c, \/ c = k \/ c = Set(TRUE) \/ c = Restarted(k), Starts(c)
  PROVE  /\ k' \in KType
         /\ overlapped' \in BOOLEAN /\ (overlapped' <=> c.connect /\ Busy)
         /\ c.sock = k.sock
         /\ ~overlapped' =>
              /\ KOK(k') /\ k'.connect = c.connect
              /\ k' = c \/ (c.connect /\ ~Busy)
              /\ k'.state = "kConnecting" => c.connect \/ k' = c
              /\ \A f \in Fds : k'.sock[f] # "closed" =>
                   c.sock[f] # "closed" \/ (f = k'.fd /\ k'.state = "kConnecting")
<1>1. KOK(k) /\ k \in KType
  BY DEF AttemptInv, KOK
<1>2. ~Busy => k.state # "kConnecting"
  BY <1>1, RegisteredIs DEF KOK, Busy
<1>3. /\ c \in KType /\ c.timers = k.timers /\ c.sock = k.sock
      /\ ~c.connect => KOK(c)
      /\ ~Busy => KOK(c) /\ c.state # "kConnecting"
  <2>1. CASE c = k
    BY <1>1, <1>2, <2>1
  <2>2. CASE c = Set(TRUE)
    <3>1. KOK(c) /\ c.state = k.state /\ c.sock = k.sock /\ c.timers = k.timers
      BY <1>1, <2>2, Edits DEF Set
    <3> QED
      BY <1>2, <3>1 DEF KOK
  <2>3. CASE c = Restarted(k)
    BY <1>1, <2>3, RestartedIs
  <2> QED
    BY <2>1, <2>2, <2>3
<1> QED
  BY <1>3, StartsEffect

LEMMA KStep ==
  ASSUME TypeOK, PhaseInv, AttemptInv, [Next]_vars
  PROVE  /\ k' \in KType /\ overlapped' \in BOOLEAN
         /\ ~overlapped' => overlapped = FALSE /\ KOK(k) /\ KOK(k')
<1>1. k \in KType /\ overlapped \in BOOLEAN
  BY DEF TypeOK, KType
<1>2. ~overlapped => overlapped = FALSE /\ KOK(k)
  BY <1>1 DEF AttemptInv
<1>3. CASE UNCHANGED vars
  BY <1>1, <1>2, <1>3 DEF vars
<1>4. CASE RunDestroy
  <2>1. overlapped' = overlapped
        /\ (k' = k \/ k' = [k EXCEPT !.sock[Head(queue).fd] = "closed"])
    BY <1>4 DEF RunDestroy
  <2>2. queue # <<>> /\ queue \in Seq(Functors)
    BY <1>4 DEF RunDestroy, Runs, TypeOK
  <2>3. Head(queue).fd \in Fds \cup {NoFd}
    <3>1. Head(queue) \in Functors
      BY <2>2
    <3> QED
      BY <3>1 DEF Functors
  <2>4. [k EXCEPT !.sock[Head(queue).fd] = "closed"] \in KType
    BY <1>1 DEF KType
  <2>5. KOK(k) => KOK([k EXCEPT !.sock[Head(queue).fd] = "closed"])
    BY <2>3, Edits
  <2> QED
    BY <1>1, <1>2, <2>1, <2>4, <2>5
<1>5. CASE Still \/ RunReset
  BY <1>1, <1>2, <1>5, StillUnchanged, ResetEffect
<1>6. CASE Next /\ Going
  <2>1. overlapped = FALSE /\ KOK(k)
    BY <1>1, <1>2, <1>6 DEF Going
  <2>2. CASE AttemptSucceeds \/ AttemptFails
    <3>1. overlapped' = overlapped
          /\ \E v \in {"established", "failed"} : k' = [k EXCEPT !.sock[k.fd] = v]
      BY <2>2 DEF AttemptSucceeds, AttemptFails, SocketTurns
    <3>2. k.fd \in Fds \cup {NoFd}
      BY <1>1 DEF KType
    <3>3. \A v \in {"established", "failed"} : KOK([k EXCEPT !.sock[k.fd] = v])
      BY <2>1, <3>2, Edits
    <3> QED
      BY <2>1, <3>1, <3>3 DEF KOK
  <2>3. CASE HandleError \/ RunStop
    BY <2>1, <2>3, StopEnds DEF HandleError, RunStop, KOK
  <2>4. CASE HandleWriteFailed
    BY <2>1, <2>4, RetryEnds DEF HandleWriteFailed, OnWriteFailed, KOK
  <2>5. CASE HandleWrite
    BY <2>1, <2>5, WriteConnects DEF HandleWrite, KOK
  <2>6. CASE TimerFires
    BY <2>1, <2>6, TimerStarts, StartBegins DEF KOK
  <2>7. CASE Restart \/ RunStart \/ LoopConnect
    BY <2>1, <2>7, StartsWith DEF Restart, RunStart, LoopConnect, Set
  <2>8. CASE LoopStop
    <3>1. KOK(Set(FALSE))
      BY <2>1, Edits DEF Set
    <3> QED
      BY <2>1, <2>8, <3>1, StopEnds DEF LoopStop, Set, KOK
  <2>9. ASSUME NEW f \in {"startInLoop", "stopInLoop"}, StoreConnect(f)
        PROVE  KOK(k') /\ overlapped' = overlapped
    <3>1. (f = "startInLoop") \in BOOLEAN
      OBVIOUS
    <3>2. \A b \in BOOLEAN : KOK([k EXCEPT !.connect = b])
      BY <2>1, Edits
    <3> QED
      BY <2>9, <3>1, <3>2 DEF StoreConnect, ThreadUnchanged
  <2>10. CASE Destroy
    <3> DEFINE c == IF m_connectionPtr = NoFd THEN Stopped ELSE k
    <3>1. KOK(c)
      <4>1. KOK(Set(FALSE))
        BY <2>1, Edits DEF Set
      <4> QED
        BY <2>1, <4>1, StopEnds DEF Stopped, Set
    <3>2. k' = ChannelClosed(c) /\ overlapped' = overlapped
      BY <2>10 DEF Destroy
    <3> HIDE DEF c
    <3>3. c.fd \in Fds \cup {NoFd}
      BY <3>1 DEF KOK, KType
    <3>4. KOK(ChannelClosed(c))
      BY <3>1, <3>3, Edits DEF ChannelClosed
    <3> QED
      BY <2>1, <3>2, <3>4 DEF KOK
  <2> QED
    BY <1>1, <1>4, <1>5, <1>6, <2>1, <2>2, <2>3, <2>4, <2>5, <2>6, <2>7, <2>8, <2>9, <2>10, NextIs
      DEF Outcomes, KOK
<1> QED
  BY <1>3, <1>4, <1>5, <1>6, NextIs DEF Still

-----------------------------------------------------------------------------
(* Types, phases and the queue.                                            *)

\* The queue is left alone, called, or pushed to.
LEMMA QueueForm ==
  ASSUME TypeOK, [Next]_vars
  PROVE  /\ queue' \in Seq(Functors)
         /\ \/ queue' = queue
            \/ (RunStart \/ RunStop \/ RunDestroy) /\ queue # <<>> /\ queue' = Tail(queue)
            \/ \E f \in Functors : /\ queue' = Append(queue, f)
                                   /\ f.call \in Raw =>
                                        Destroy \/ PushFunctor("startInLoop")
                                                \/ PushFunctor("stopInLoop")
<1>1. queue \in Seq(Functors) /\ m_connectionPtr \in Fds \cup {NoFd} /\ twice \in Fds \cup {NoFd}
  BY DEF TypeOK
<1> DEFINE Pushed == \E f \in Functors : /\ queue' = Append(queue, f)
                                         /\ f.call \in Raw =>
                                              Destroy \/ PushFunctor("startInLoop")
                                                      \/ PushFunctor("stopInLoop")
<1>2. CASE RunStart \/ RunStop \/ RunDestroy
  BY <1>1, <1>2 DEF RunStart, RunStop, RunDestroy, Runs
<1>3. CASE HandleClose \/ HandleCloseAgain
  <2> DEFINE c == IF HandleClose THEN m_connectionPtr ELSE twice
             f == Functor("onConnectionDestroy", c)
  <2>1. f \in Functors /\ f.call \notin Raw
    BY <1>1 DEF Functor, Functors, Raw
  <2>2. queue' = Append(queue, f)
    BY <1>3 DEF HandleClose, HandleCloseAgain, BeginRemove
  <2> HIDE DEF f
  <2>3. Pushed
    BY <2>1, <2>2
  <2> QED
    BY <1>1, <2>1, <2>2, <2>3
<1>4. CASE PushFunctor("startInLoop") \/ PushFunctor("stopInLoop")
  <2>1. \A g \in {"startInLoop", "stopInLoop"} : Functor(g, NoFd) \in Functors
    BY DEF Functor, Functors, Raw
  <2>2. PICK g \in {"startInLoop", "stopInLoop"} : queue' = Append(queue, Functor(g, NoFd))
    BY <1>4 DEF PushFunctor
  <2>3. Pushed
    BY <1>4, <2>1, <2>2
  <2> QED
    BY <1>1, <2>1, <2>2, <2>3
<1>5. CASE Destroy
  <2> DEFINE f == Functor("forceCloseInLoop", m_connectionPtr)
  <2>1. f \in Functors
    BY <1>1 DEF Functor, Functors, Raw
  <2>2. queue' = queue \/ queue' = Append(queue, f)
    BY <1>5 DEF Destroy
  <2> HIDE DEF f
  <2> QED
    BY <1>1, <1>5, <2>1, <2>2
<1>6. CASE \/ UNCHANGED vars
           \/ Poll \/ HandleWriteStale \/ CallbackReturns \/ TestRetry \/ LoopDisconnect
           \/ UseAfterDestroy \/ AttemptSucceeds \/ AttemptFails \/ HandleError
           \/ HandleWriteFailed \/ HandleWrite \/ TimerFires \/ Restart \/ LoopConnect
           \/ LoopStop \/ RunReset
           \/ \E f \in {"startInLoop", "stopInLoop"} : BeginCall(f) \/ StoreConnect(f)
  BY <1>1, <1>6
    DEF vars, RunReset, Poll, HandleWriteStale, CallbackReturns, TestRetry, LoopDisconnect, LoopCalls,
        UseAfterDestroy, AttemptSucceeds, AttemptFails, SocketTurns, HandleError,
        HandleWriteFailed, HandleWrite, TimerFires, Restart, LoopConnect, LoopStop, BeginCall,
        StoreConnect
<1> QED
  BY <1>2, <1>3, <1>4, <1>5, <1>6, NextIs DEF Outcomes, Still

LEMMA CallsAfter ==
  ASSUME NEW x \in Seq(Functors)
  PROVE  /\ \A f \in Functors : CallsIn(Append(x, f)) = CallsIn(x) \cup {f.call}
         /\ x # <<>> => CallsIn(x) = {Head(x).call} \cup CallsIn(Tail(x))
<1>1. ASSUME NEW f \in Functors
      PROVE  CallsIn(Append(x, f)) = CallsIn(x) \cup {f.call}
  <2> DEFINE y == Append(x, f)
  <2>1. /\ DOMAIN y = 1 .. Len(x) + 1 /\ y[Len(x) + 1] = f /\ Len(x) \in Nat
        /\ \A i \in DOMAIN x : i \in DOMAIN y /\ y[i] = x[i]
        /\ \A i \in DOMAIN y : i \in DOMAIN x \/ i = Len(x) + 1
    OBVIOUS
  <2>2. Len(x) + 1 \in DOMAIN y
    BY <2>1
  <2> HIDE DEF y
  <2>3. CallsIn(y) \subseteq CallsIn(x) \cup {f.call}
    BY <2>1 DEF CallsIn
  <2>4. CallsIn(x) \subseteq CallsIn(y) /\ f.call \in CallsIn(y)
    BY <2>1, <2>2 DEF CallsIn
  <2> QED
    BY <2>3, <2>4 DEF y
<1>2. ASSUME x # <<>>
      PROVE  CallsIn(x) = {Head(x).call} \cup CallsIn(Tail(x))
  <2> DEFINE y == Tail(x)
  <2>1. /\ Head(x) = x[1] /\ 1 \in DOMAIN x
        /\ \A i \in DOMAIN y : i + 1 \in DOMAIN x /\ y[i] = x[i + 1]
        /\ \A i \in DOMAIN x : i = 1 \/ (i - 1 \in DOMAIN y /\ y[i - 1] = x[i])
    BY <1>2
  <2> HIDE DEF y
  <2>2. CallsIn(x) \subseteq {Head(x).call} \cup CallsIn(y)
    BY <2>1 DEF CallsIn
  <2>3. {Head(x).call} \cup CallsIn(y) \subseteq CallsIn(x)
    BY <2>1 DEF CallsIn
  <2> QED
    BY <2>2, <2>3 DEF y
<1> QED
  BY <1>1, <1>2

LEMMA TypeStep ==
  ASSUME TypeOK, PhaseInv, AttemptInv, [Next]_vars
  PROVE  TypeOK'
<1>1. k' \in KType /\ overlapped' \in BOOLEAN /\ queue' \in Seq(Functors)
  BY KStep, QueueForm
<1>2. k.fd \in Fds \cup {NoFd} /\ {m_connectionPtr, twice} \subseteq Fds \cup {NoFd}
  BY DEF TypeOK
<1>3. {m_connectionPtr', twice'} \subseteq Fds \cup {NoFd}
      /\ pc' \in {"idle", "polled", "callback", "closing", "restarting", "again"}
      /\ rev' \in {"none", "out", "err"}
  <2>1. CASE \/ HandleWrite \/ HandleClose \/ HandleCloseAgain \/ Destroy
    BY <1>2, <2>1 DEF TypeOK, HandleWrite, HandleClose, HandleCloseAgain, BeginRemove, Destroy
  <2>2. CASE Still /\ ~HandleClose /\ ~HandleCloseAgain
    BY <2>2
      DEF Still, TypeOK, Poll, HandleWriteStale, CallbackReturns, TestRetry, RemoveReturns,
          LoopDisconnect, LoopCalls, UseAfterDestroy, BeginCall, PushFunctor, ThreadUnchanged,
          connVars
  <2>3. CASE AttemptSucceeds \/ AttemptFails \/ HandleError \/ HandleWriteFailed \/ TimerFires
             \/ Restart \/ UNCHANGED vars
    BY <2>3
      DEF TypeOK, AttemptSucceeds, AttemptFails, SocketTurns, HandleError, HandleWriteFailed,
          TimerFires, Restart, RemoveReturns, connVars, vars
  <2>4. CASE RunStart \/ RunStop \/ RunDestroy \/ RunReset \/ LoopConnect \/ LoopStop
             \/ \E f \in {"startInLoop", "stopInLoop"} : StoreConnect(f)
    BY <2>4
      DEF TypeOK, RunStart, RunStop, RunDestroy, RunReset, LoopConnect, LoopStop, LoopCalls, StoreConnect,
          ThreadUnchanged, connVars
  <2> QED
    BY <2>1, <2>2, <2>3, <2>4, NextIs DEF Outcomes
<1>4. /\ tpc' \in {NoCall} \cup {"store", "push"} \X {"startInLoop", "stopInLoop"}
      /\ calls' \in 0 .. MaxCalls
  <2>1. CASE \E f \in {"startInLoop", "stopInLoop"} : BeginCall(f) \/ StoreConnect(f)
                                                       \/ PushFunctor(f)
    BY <2>1, TcpClientAssumption DEF TypeOK, BeginCall, StoreConnect, PushFunctor
  <2>2. CASE LoopConnect \/ LoopStop \/ LoopDisconnect
    BY <2>2, TcpClientAssumption DEF TypeOK, LoopConnect, LoopStop, LoopDisconnect, LoopCalls
  <2>3. CASE \/ Poll \/ HandleWriteStale \/ CallbackReturns \/ HandleClose \/ HandleCloseAgain
             \/ TestRetry \/ UseAfterDestroy \/ AttemptSucceeds \/ AttemptFails
             \/ HandleError \/ HandleWriteFailed \/ HandleWrite \/ TimerFires
             \/ Restart \/ RunStart \/ RunStop \/ RunDestroy \/ RunReset \/ Destroy
             \/ UNCHANGED vars
    BY <2>3
      DEF TypeOK, RunReset, Poll, HandleWriteStale, CallbackReturns, HandleClose, HandleCloseAgain,
          TestRetry, UseAfterDestroy, AttemptSucceeds, AttemptFails, SocketTurns,
          HandleError, HandleWriteFailed, HandleWrite, TimerFires, Restart, RunStart, RunStop,
          RunDestroy, Destroy, userVars, vars
  <2> QED
    BY <2>1, <2>2, <2>3, NextIs DEF Outcomes, Still
<1>5. {m_connect', m_retry', wanted', stopRaced', misused', closedTwice', gone', left',
       undefined'} \subseteq BOOLEAN
  <2>1. {m_connect, m_retry, wanted, stopRaced, misused, closedTwice, gone, left, undefined}
          \subseteq BOOLEAN
    BY DEF TypeOK
  <2>2. CASE Still
    BY <2>1, <2>2
      DEF Still, Poll, HandleWriteStale, CallbackReturns, HandleClose, HandleCloseAgain,
          TestRetry, LoopDisconnect, LoopCalls, UseAfterDestroy, BeginCall, PushFunctor,
          ThreadUnchanged, userVars, connVars, goneVars
  <2>3. CASE AttemptSucceeds \/ AttemptFails \/ HandleError \/ HandleWriteFailed \/ TimerFires
             \/ HandleWrite \/ UNCHANGED vars
    BY <2>1, <2>3
      DEF AttemptSucceeds, AttemptFails, SocketTurns, HandleError, HandleWriteFailed, HandleWrite,
          TimerFires, userVars, connVars, goneVars, vars
  <2>4. CASE Restart \/ RunStart \/ RunStop \/ RunDestroy \/ RunReset
    BY <2>1, <2>4
      DEF Restart, RunStart, RunStop, RunDestroy, RunReset, userVars, connVars, goneVars
  <2>5. CASE LoopConnect \/ LoopStop \/ Destroy
             \/ \E f \in {"startInLoop", "stopInLoop"} : StoreConnect(f)
    BY <2>1, <2>5
      DEF LoopConnect, LoopStop, LoopCalls, StoreConnect, ThreadUnchanged, Destroy, StillUsed,
          goneVars
  <2> QED
    BY <2>2, <2>3, <2>4, <2>5, NextIs DEF Outcomes
<1> QED
  BY <1>1, <1>3, <1>4, <1>5 DEF TypeOK, KType

LEMMA PhaseStep ==
  ASSUME TypeOK, PhaseInv, AttemptInv, [Next]_vars
  PROVE  PhaseInv'
<1>1. CASE Still
  BY <1>1
    DEF PhaseInv, TypeOK, Still, Poll, HandleWriteStale, CallbackReturns, HandleClose,
        HandleCloseAgain, BeginRemove, TestRetry, RemoveReturns, LoopDisconnect, LoopCalls,
        UseAfterDestroy, BeginCall, PushFunctor, ThreadUnchanged, userVars, connVars
<1>2. CASE AttemptSucceeds \/ AttemptFails \/ HandleError \/ HandleWriteFailed \/ TimerFires
           \/ HandleWrite \/ UNCHANGED vars
  BY <1>2
    DEF PhaseInv, AttemptSucceeds, AttemptFails, SocketTurns, HandleError, HandleWriteFailed,
        HandleWrite, TimerFires, userVars, connVars, vars
<1>3. CASE Restart \/ RunStart \/ RunStop \/ RunDestroy \/ RunReset
  BY <1>3
    DEF PhaseInv, Restart, RemoveReturns, RunStart, RunStop, RunDestroy, RunReset, userVars, connVars
<1>4. CASE LoopConnect \/ LoopStop \/ Destroy
           \/ \E f \in {"startInLoop", "stopInLoop"} : StoreConnect(f)
  BY <1>4
    DEF PhaseInv, LoopConnect, LoopStop, LoopCalls, StoreConnect, ThreadUnchanged, Destroy
<1> QED
  BY <1>1, <1>2, <1>3, <1>4, NextIs DEF Outcomes

-----------------------------------------------------------------------------
(* One attempt at a time.                                                  *)

\* A client that is not busy has no attempt under way.
LEMMA BusyIs ==
  ASSUME KOK(k)
  PROVE  Busy <=> \/ k.state = "kConnecting" \/ k.timers > 0 \/ rev # "none"
                  \/ m_connectionPtr # NoFd
  BY RegisteredIs DEF KOK, Busy

LEMMA AttemptStep ==
  ASSUME TypeOK, PhaseInv, AttemptInv, OneAttempt, [Next]_vars
  PROVE  AttemptInv' /\ OneAttempt'
<1> DEFINE AtRest == m_retry' /\ pc' \in {"closing", "restarting"} =>
                       misused' \/ closedTwice' \/ ~Busy'
           Single == /\ rev' # "none" \/ m_connectionPtr' # NoFd => k'.timers = 0
                     /\ m_connectionPtr' # NoFd =>
                          m_connectionPtr' = k'.fd /\ k'.state # "kConnecting" /\ rev' = "none"
<1>1. KOK(k)' <=> KOK(k')
  BY DEF KOK, KType, ChannelOf
<1>2. ~overlapped' => overlapped = FALSE /\ KOK(k) /\ KOK(k')
  BY KStep
<1>3. KOK(k') => (Busy' <=> \/ k'.state = "kConnecting" \/ k'.timers > 0 \/ rev' # "none"
                            \/ m_connectionPtr' # NoFd)
  <2>1. KOK(k') => (k'.ch.registered <=> k'.state = "kConnecting")
    BY RegisteredIs DEF KOK
  <2> QED
    BY <2>1 DEF Busy
<1>4. Next /\ Going => overlapped = FALSE /\ KOK(k) /\ PhaseInv'
  BY PhaseStep DEF Going, AttemptInv, TypeOK
<1> HIDE DEF Single, AtRest
<1>5. SUFFICES /\ ~overlapped' => Single /\ AtRest
               /\ OneAttempt'
  BY <1>1, <1>2 DEF AttemptInv, Single, AtRest
<1>6. CASE \/ UNCHANGED vars \/ RunDestroy \/ RunReset \/ AttemptSucceeds \/ AttemptFails
  <2>1. /\ UNCHANGED <<overlapped, pc, rev, m_connectionPtr, m_retry, misused, closedTwice>>
    BY <1>6, ResetEffect DEF vars, RunDestroy, AttemptSucceeds, AttemptFails, SocketTurns, userVars, connVars
  <2>2. KOK(k) => k'.timers = k.timers /\ k'.fd = k.fd /\ k'.state = k.state
    BY <1>6, ResetEffect
      DEF vars, RunDestroy, AttemptSucceeds, AttemptFails, SocketTurns, KOK, KType
  <2>3. ~overlapped' => Single /\ AtRest
    BY <1>2, <1>3, <2>1, <2>2, BusyIs DEF AttemptInv, Single, AtRest
  <2> QED
    BY <2>1, <2>3 DEF OneAttempt
<1>7. CASE Still /\ ~HandleClose /\ ~HandleCloseAgain
  <2>1. /\ UNCHANGED <<k, overlapped, m_connectionPtr, misused, closedTwice, m_retry>>
        /\ rev' = rev \/ rev' = "none" \/ Poll
        /\ pc' = pc \/ pc' \notin {"closing", "restarting"} \/ TestRetry
    BY <1>7
      DEF Still, Poll, HandleWriteStale, CallbackReturns, TestRetry,
          LoopDisconnect, LoopCalls, UseAfterDestroy, BeginCall, PushFunctor, ThreadUnchanged,
          userVars, connVars
  <2>2. CASE Poll
    <3>1. KOK(k) => k.state = "kConnecting"
      BY <2>2, RegisteredIs DEF Poll, KOK
    <3>2. ~overlapped' => Single
      BY <1>2, <2>1, <3>1 DEF KOK, AttemptInv, Single
    <3>3. AtRest
      BY <2>2 DEF Poll, AtRest
    <3> QED
      BY <2>1, <3>2, <3>3 DEF OneAttempt
  <2>3. CASE TestRetry
    BY <1>2, <1>3, <2>1, <2>3, BusyIs
      DEF TestRetry, AttemptInv, OneAttempt, Single, AtRest
  <2>4. CASE ~Poll /\ ~TestRetry
    BY <1>2, <1>3, <2>1, <2>4, BusyIs DEF AttemptInv, OneAttempt, Single, AtRest
  <2> QED
    BY <2>2, <2>3, <2>4
<1>8. CASE Next /\ Going /\ (HandleClose \/ HandleCloseAgain)
  <2>1. /\ UNCHANGED <<k, overlapped, rev, misused, m_retry>> /\ m_connectionPtr' = NoFd
        /\ rev' = "none"
    BY <1>8 DEF HandleClose, HandleCloseAgain, BeginRemove, PhaseInv, userVars, connVars
  <2>2. CASE HandleClose
    <3>1. k.timers = 0 /\ k.state # "kConnecting"
      BY <1>4, <1>8, <2>2 DEF HandleClose, AttemptInv
    <3>2. closedTwice' = closedTwice
      BY <2>2 DEF HandleClose
    <3> QED
      BY <1>2, <1>3, <2>1, <3>1, <3>2 DEF OneAttempt, Single, AtRest
  <2>3. CASE HandleCloseAgain
    BY <1>2, <2>1, <2>3 DEF HandleCloseAgain, OneAttempt, AttemptInv, Single, AtRest
  <2> QED
    BY <1>8, <2>2, <2>3
<1>9. CASE Next /\ Going /\ (HandleError \/ HandleWriteFailed \/ HandleWrite)
  <2>1. /\ UNCHANGED <<overlapped, misused, closedTwice, m_retry>> /\ rev' = "none"
        /\ pc' \in {"idle", "callback"}
    BY <1>9 DEF HandleError, HandleWriteFailed, HandleWrite, userVars, connVars
  <2>2. m_connectionPtr = NoFd
    BY <1>4, <1>9 DEF HandleError, HandleWriteFailed, HandleWrite, AttemptInv
  <2>3. CASE HandleError \/ HandleWriteFailed
    <3>1. m_connectionPtr' = NoFd
      BY <2>2, <2>3 DEF HandleError, HandleWriteFailed, connVars
    <3> QED
      BY <2>1, <3>1 DEF OneAttempt, Single, AtRest
  <2>4. CASE HandleWrite
    <3>1. k'.state = "kConnected" /\ k'.timers = 0 /\ k'.fd = k.fd
      BY <1>4, <1>9, <2>4, WriteConnects DEF HandleWrite
    <3>2. m_connectionPtr' = m_connectionPtr \/ m_connectionPtr' = k.fd
      BY <2>4 DEF HandleWrite
    <3> QED
      BY <2>1, <2>2, <3>1, <3>2 DEF OneAttempt, Single, AtRest
  <2> QED
    BY <1>9, <2>3, <2>4
<1>10. CASE Next /\ Going /\ TimerFires
  <2>1. /\ UNCHANGED <<pc, rev, m_connectionPtr, misused, closedTwice, m_retry>>
        /\ pc \in {"idle", "polled"} /\ overlapped' = FALSE
        /\ rev = "none" /\ m_connectionPtr = NoFd
    BY <1>4, <1>10, TimerStarts DEF TimerFires, userVars, connVars
  <2> QED
    BY <2>1 DEF OneAttempt, Single, AtRest
<1>11. CASE Next /\ Going /\ (RunStart \/ Restart \/ LoopConnect)
  <2>1. PICK c : /\ c = k \/ c = Set(TRUE) \/ c = Restarted(k)
                 /\ Starts(c)
    BY <1>11 DEF RunStart, Restart, LoopConnect, Set
  <2>2. /\ overlapped' \in BOOLEAN /\ (overlapped' <=> c.connect /\ Busy)
        /\ ~overlapped' =>
              /\ KOK(k') /\ k'.connect = c.connect
              /\ k' = c \/ (c.connect /\ ~Busy)
    BY <1>4, <1>11, <2>1, StartsWith
  <2>3. /\ UNCHANGED <<rev, m_connectionPtr, closedTwice, m_retry>>
        /\ misused => misused'
    <3>1. CASE RunStart
      BY <3>1 DEF RunStart, connVars
    <3>2. CASE Restart
      BY <3>2 DEF Restart, userVars
    <3>3. CASE LoopConnect
      <4>1. misused' = (misused \/ Busy \/ (pc = "closing" /\ m_retry))
        BY <3>3 DEF LoopConnect
      <4>2. UNCHANGED <<rev, m_connectionPtr, closedTwice, m_retry>>
        BY <3>3 DEF LoopConnect, LoopCalls
      <4> QED
        BY <4>1, <4>2
    <3> QED
      BY <1>11, <3>1, <3>2, <3>3
  <2>4. overlapped' => misused' \/ closedTwice'
    <3>1. CASE RunStart
      <4>1. Starts(k) /\ misused' = (misused \/ (k.connect /\ Busy))
        BY <3>1 DEF RunStart
      <4>2. overlapped' <=> k.connect /\ Busy
        BY <1>4, <1>11, <4>1, StartsWith
      <4> QED
        BY <4>1, <4>2
    <3>2. CASE LoopConnect
      BY <2>2, <3>2 DEF LoopConnect
    <3>3. CASE Restart
      BY <1>4, <1>11, <2>2, <2>3, <3>3 DEF Restart, PhaseInv, AttemptInv, userVars
    <3> QED
      BY <1>11, <3>1, <3>2, <3>3
  <2>5. ASSUME ~overlapped' PROVE Single
    <3>1. CASE ~Busy
      BY <1>4, <1>11, <2>3, <3>1, BusyIs DEF Single
    <3>2. CASE Busy
      <4>1. k' = c /\ ~c.connect
        BY <2>2, <2>5, <3>2
      <4>2. c = k
        <5>1. Set(TRUE).connect = TRUE /\ Restarted(k).connect = TRUE
          BY <1>4, <1>11, Edits, RestartedIs DEF Set, KOK
        <5> QED
          BY <2>1, <4>1, <5>1
      <4> QED
        BY <1>4, <1>11, <2>3, <4>1, <4>2 DEF AttemptInv, Single
    <3> QED
      BY <3>1, <3>2
  <2>6. ~overlapped' => AtRest
    <3>1. CASE RunStart \/ Restart
      BY <3>1 DEF RunStart, Runs, Restart, RemoveReturns, AtRest
    <3>2. CASE LoopConnect
      <4>1. misused' = (misused \/ Busy \/ (pc = "closing" /\ m_retry))
        BY <3>2 DEF LoopConnect
      <4>2. pc' = pc /\ pc \in {"idle", "polled", "callback", "closing"} /\ m_retry' = m_retry
        BY <3>2 DEF LoopConnect, LoopCalls
      <4> QED
        BY <4>1, <4>2 DEF AtRest
    <3> QED
      BY <1>11, <3>1, <3>2
  <2> QED
    BY <2>4, <2>5, <2>6 DEF OneAttempt
<1>12. CASE Next /\ Going /\ RunStop
  <2>1. /\ UNCHANGED <<overlapped, pc, rev, m_connectionPtr, misused, closedTwice, m_retry>>
        /\ pc = "idle" /\ k' = StopInLoop(k)
    BY <1>12 DEF RunStop, Runs, userVars, connVars
  <2>2. k'.fd = k.fd /\ k'.state # "kConnecting" /\ (k.state # "kConnecting" => k' = k)
    BY <1>4, <1>12, <2>1, StopEnds
  <2>3. rev = "none"
    BY <2>1 DEF PhaseInv
  <2> QED
    BY <1>4, <1>12, <2>1, <2>2, <2>3 DEF OneAttempt, AttemptInv, Single, AtRest
<1>13. CASE Next /\ Going /\ LoopStop
  <2> DEFINE c == Set(FALSE)
  <2>1. /\ UNCHANGED <<overlapped, pc, rev, m_connectionPtr, misused, closedTwice, m_retry>>
        /\ k' = StopInLoop(c)
    BY <1>13 DEF LoopStop, LoopCalls, Set
  <2>2. KOK(c) /\ c.state = k.state /\ c.fd = k.fd /\ ~c.connect /\ c.timers = k.timers
    BY <1>4, <1>13, Edits DEF Set
  <2> HIDE DEF c
  <2>3. /\ KOK(k') /\ k'.fd = k.fd /\ k'.state # "kConnecting" /\ k'.timers <= k.timers
    BY <2>1, <2>2, StopEnds
  <2>4. k.timers = 0 => k'.timers = 0
    BY <2>3 DEF KOK
  <2>5. k.timers \in {0, 1}
    BY <2>2 DEF KOK
  <2> QED
    BY <1>2, <1>3, <1>4, <1>13, <2>1, <2>3, <2>4, <2>5, BusyIs
      DEF OneAttempt, AttemptInv, Single, AtRest
<1>14. ASSUME Next, Going, NEW f \in {"startInLoop", "stopInLoop"}, StoreConnect(f)
       PROVE  (~overlapped' => Single /\ AtRest) /\ OneAttempt'
  <2>1. /\ UNCHANGED <<overlapped, pc, rev, m_connectionPtr, misused, closedTwice, m_retry>>
        /\ k' = [k EXCEPT !.connect = (f = "startInLoop")]
    BY <1>14 DEF StoreConnect, ThreadUnchanged
  <2>2. (f = "startInLoop") \in BOOLEAN
    OBVIOUS
  <2>3. k'.state = k.state /\ k'.fd = k.fd /\ k'.timers = k.timers
    BY <1>4, <1>14, <2>1 DEF KOK, KType
  <2> QED
    BY <1>2, <1>3, <1>4, <1>14, <2>1, <2>3, BusyIs DEF OneAttempt, AttemptInv, Single, AtRest
<1>15. CASE Next /\ Going /\ Destroy
  <2>1. /\ UNCHANGED <<overlapped, pc, rev, misused, closedTwice, m_retry>>
        /\ m_connectionPtr' = NoFd /\ pc \in {"idle", "polled"}
        /\ k' = ChannelClosed(IF m_connectionPtr = NoFd THEN Stopped ELSE k)
    BY <1>15 DEF Destroy
  <2>2. k.timers = 0 => k'.timers = 0
    <3>1. KOK(Set(FALSE)) /\ ~Set(FALSE).connect /\ Set(FALSE).timers = k.timers
      BY <1>4, <1>15, Edits DEF Set
    <3>2. KOK(Stopped) /\ Stopped.timers <= k.timers
      BY <3>1, StopEnds DEF Stopped, Set
    <3>3. k.timers = 0 => Stopped.timers = 0
      BY <3>2 DEF KOK
    <3>4. ASSUME NEW c, KOK(c), c.timers = 0 PROVE ChannelClosed(c).timers = 0
      BY <3>4, Edits DEF ChannelClosed, KOK, KType
    <3> QED
      BY <1>4, <1>15, <2>1, <3>2, <3>3, <3>4
  <2> QED
    BY <1>4, <1>15, <2>1, <2>2 DEF OneAttempt, AttemptInv, Single, AtRest
<1>16. CASE Next /\ ~Going
  BY <1>6, <1>7, <1>16, NextIs
    DEF Still, UseAfterDestroy, HandleClose, HandleCloseAgain, BeginRemove
<1>17. CASE Next /\ Going /\ Still
  BY <1>7, <1>8, <1>17
<1>18. CASE Next /\ Going /\ ~Still
  BY <1>6, <1>9, <1>10, <1>11, <1>12, <1>13, <1>14, <1>15, <1>18, NextIs DEF Outcomes
<1> QED
  BY <1>6, <1>16, <1>17, <1>18

-----------------------------------------------------------------------------
(* No socket is lost.                                                      *)

DestroyedIn(x, f) == \E i \in DOMAIN x : x[i] = Functor("onConnectionDestroy", f)

Owned(f) ==
  \/ f = k.fd /\ k.state = "kConnecting"
  \/ f = m_connectionPtr
  \/ DestroyedIn(queue, f)

LEMMA OwnersAre ==
  ASSUME KOK(k)
  PROVE  EverySocketOwned <=>
           (~overlapped => \A f \in Fds : k.sock[f] # "closed" => Owned(f))
<1>1. k.ch.registered <=> k.state = "kConnecting"
  BY RegisteredIs DEF KOK
<1> QED
  BY <1>1, Zenon DEF EverySocketOwned, Owned, DestroyedIn

LEMMA DestroysAfter ==
  ASSUME NEW x \in Seq(Functors), NEW f
  PROVE  /\ \A g \in Functors :
              DestroyedIn(x, f) \/ g = Functor("onConnectionDestroy", f)
              => DestroyedIn(Append(x, g), f)
         /\ x # <<>> /\ DestroyedIn(x, f) =>
              Head(x) = Functor("onConnectionDestroy", f) \/ DestroyedIn(Tail(x), f)
<1> DEFINE F == Functor("onConnectionDestroy", f)
<1> HIDE DEF F
<1>1. ASSUME NEW g \in Functors, DestroyedIn(x, f) \/ g = F
      PROVE  DestroyedIn(Append(x, g), f)
  <2> DEFINE y == Append(x, g)
  <2>1. /\ Len(x) + 1 \in DOMAIN y /\ y[Len(x) + 1] = g
        /\ \A i \in DOMAIN x : i \in DOMAIN y /\ y[i] = x[i]
    OBVIOUS
  <2> HIDE DEF y
  <2>2. DestroyedIn(y, f)
    BY <1>1, <2>1 DEF DestroyedIn, F
  <2> QED
    BY <2>2 DEF y
<1>2. ASSUME x # <<>>, DestroyedIn(x, f)
      PROVE  Head(x) = F \/ DestroyedIn(Tail(x), f)
  <2> DEFINE y == Tail(x)
  <2>1. /\ Head(x) = x[1]
        /\ \A i \in DOMAIN x : i = 1 \/ (i - 1 \in DOMAIN y /\ y[i - 1] = x[i])
    BY <1>2
  <2> HIDE DEF y
  <2>2. Head(x) = F \/ DestroyedIn(y, f)
    BY <1>2, <2>1 DEF DestroyedIn, F
  <2> QED
    BY <2>2 DEF y
<1> QED
  BY <1>1, <1>2 DEF F

\* What is to be destroyed is, and not before.
LEMMA DestroyStays ==
  ASSUME TypeOK, [Next]_vars, ~RunDestroy, NEW f, DestroyedIn(queue, f)
  PROVE  DestroyedIn(queue', f)
<1>1. queue \in Seq(Functors)
  BY DEF TypeOK
<1>2. CASE queue' = queue
  BY <1>2
<1>3. CASE (RunStart \/ RunStop) /\ queue # <<>> /\ queue' = Tail(queue)
  <2>1. Head(queue) # Functor("onConnectionDestroy", f)
    BY <1>3 DEF RunStart, RunStop, Runs, Functor
  <2> QED
    BY <1>1, <1>3, <2>1, DestroysAfter
<1>4. ASSUME NEW g \in Functors, queue' = Append(queue, g)
      PROVE  DestroyedIn(queue', f)
  BY <1>1, <1>4, DestroysAfter
<1> QED
  BY <1>2, <1>3, <1>4, QueueForm

LEMMA SocketsStep ==
  ASSUME TypeOK, PhaseInv, AttemptInv, EverySocketOwned, [Next]_vars
  PROVE  EverySocketOwned'
<1>1. (KOK(k') => (EverySocketOwned' <=>
         (~overlapped' => \A f \in Fds : k'.sock[f] # "closed" => Owned(f)')))
  <2>1. KOK(k') => (k'.ch.registered <=> k'.state = "kConnecting")
    BY RegisteredIs DEF KOK
  <2> QED
    BY <2>1, Zenon DEF EverySocketOwned, Owned, DestroyedIn
<1>2. SUFFICES ASSUME ~overlapped', NEW f \in Fds, k'.sock[f] # "closed" PROVE Owned(f)'
  BY <1>1, KStep DEF EverySocketOwned
<1>3. /\ overlapped = FALSE /\ KOK(k) /\ k \in KType /\ f # NoFd
      /\ k.sock[f] # "closed" => Owned(f)
      /\ queue \in Seq(Functors) /\ m_connectionPtr \in Fds \cup {NoFd}
  BY <1>2, KStep, OwnersAre, ConnectorAssumption DEF KOK, NoFd, TypeOK
<1>4. ~RunDestroy /\ DestroyedIn(queue, f) => DestroyedIn(queue', f)
  BY DestroyStays
<1>5. Owned(f)' <=> \/ f = k'.fd /\ k'.state = "kConnecting"
                    \/ f = m_connectionPtr'
                    \/ DestroyedIn(queue', f)
  BY DEF Owned, DestroyedIn
<1>6. CASE RunDestroy
  <2>1. /\ m_connectionPtr' = m_connectionPtr /\ queue # <<>> /\ queue' = Tail(queue)
        /\ Head(queue).call = "onConnectionDestroy"
        /\ k' = IF \E i \in 2 .. Len(queue) : queue[i] = Head(queue) THEN k
                ELSE [k EXCEPT !.sock[Head(queue).fd] = "closed"]
    BY <1>6 DEF RunDestroy, Runs, connVars
  <2>2. k'.state = k.state /\ k'.fd = k.fd /\ k.sock[f] # "closed"
    BY <1>2, <1>3, <2>1 DEF KType
  <2>3. CASE Head(queue) = Functor("onConnectionDestroy", f)
    <3>1. Head(queue).fd = f
      BY <2>3 DEF Functor
    <3>2. [k EXCEPT !.sock[f] = "closed"].sock[f] = "closed"
      BY <1>3 DEF KType
    <3>3. \E i \in 2 .. Len(queue) : queue[i] = Head(queue)
      BY <1>2, <2>1, <3>1, <3>2
    <3>4. PICK i \in 2 .. Len(queue) : queue[i] = Functor("onConnectionDestroy", f)
      BY <2>3, <3>3
    <3>5. i - 1 \in DOMAIN Tail(queue) /\ Tail(queue)[i - 1] = queue[i]
      BY <1>3, <2>1
    <3> QED
      BY <1>5, <2>1, <3>4, <3>5 DEF DestroyedIn
  <2>4. CASE Head(queue) # Functor("onConnectionDestroy", f)
    BY <1>3, <1>5, <2>1, <2>2, <2>4, DestroysAfter DEF Owned
  <2> QED
    BY <2>3, <2>4
<1>7. CASE \/ UNCHANGED vars \/ AttemptSucceeds \/ AttemptFails
           \/ RunReset /\ ~RunDestroy
           \/ Still /\ ~HandleClose /\ ~HandleCloseAgain
           \/ \E g \in {"startInLoop", "stopInLoop"} : StoreConnect(g)
  <2>1. /\ m_connectionPtr' = m_connectionPtr /\ k'.state = k.state /\ k'.fd = k.fd
        /\ k'.sock = k.sock \/ \E v \in {"established", "failed"} :
                                 k.ch.registered /\ k'.sock = [k.sock EXCEPT ![k.fd] = v]
    <3>1. CASE UNCHANGED vars
      BY <3>1 DEF vars
    <3>2. CASE AttemptSucceeds \/ AttemptFails
      <4>1. PICK v \in {"established", "failed"} : k' = [k EXCEPT !.sock[k.fd] = v]
        BY <3>2 DEF AttemptSucceeds, AttemptFails, SocketTurns
      <4>2. k.ch.registered /\ m_connectionPtr' = m_connectionPtr
        BY <3>2 DEF AttemptSucceeds, AttemptFails, SocketTurns, connVars
      <4> QED
        BY <1>3, <4>1, <4>2 DEF KType
    <3>3. CASE Still /\ ~HandleClose /\ ~HandleCloseAgain
      BY <3>3, StillUnchanged
        DEF Still, Poll, HandleWriteStale, CallbackReturns, TestRetry, LoopDisconnect, LoopCalls,
            UseAfterDestroy, BeginCall, PushFunctor, ThreadUnchanged, connVars
    <3>4. ASSUME NEW b, k' = [k EXCEPT !.connect = b]
          PROVE  k'.state = k.state /\ k'.fd = k.fd /\ k'.sock = k.sock
      BY <1>3, <3>4 DEF KType
    <3>5. CASE \E g \in {"startInLoop", "stopInLoop"} : StoreConnect(g)
      BY <3>4, <3>5 DEF StoreConnect, ThreadUnchanged
    <3>6. CASE RunReset
      BY <3>6, ResetEffect
    <3> QED
      BY <1>7, <3>1, <3>2, <3>3, <3>5, <3>6
  <2>2. ~RunDestroy \/ UNCHANGED vars
    BY <1>7
      DEF RunDestroy, Runs, Still, Poll, HandleWriteStale, CallbackReturns, TestRetry,
          LoopDisconnect, LoopCalls, UseAfterDestroy, BeginCall, PushFunctor, ThreadUnchanged,
          AttemptSucceeds, AttemptFails, SocketTurns, StoreConnect
  <2>3. k.sock[f] # "closed" \/ (k.ch.registered /\ f = k.fd)
    BY <1>2, <1>3, <2>1 DEF KType
  <2>4. k.ch.registered => k.state = "kConnecting"
    BY <1>3, RegisteredIs DEF KOK
  <2> QED
    BY <1>3, <1>4, <1>5, <1>6, <2>1, <2>3, <2>4 DEF Owned
<1>8. CASE HandleClose \/ HandleCloseAgain
  <2>1. /\ k' = k /\ ~RunDestroy
        /\ HandleClose => m_connectionPtr = NoFd \/ DestroyedIn(queue', m_connectionPtr)
        /\ HandleCloseAgain => m_connectionPtr = NoFd
    <3>1. k' = k /\ ~RunDestroy
      BY <1>8 DEF HandleClose, HandleCloseAgain, BeginRemove, RunDestroy, Runs
    <3>2. ASSUME HandleClose
          PROVE  DestroyedIn(queue', m_connectionPtr)
      <4>1. queue' = Append(queue, Functor("onConnectionDestroy", m_connectionPtr))
            /\ Functor("onConnectionDestroy", m_connectionPtr) \in Functors
        BY <1>3, <3>2 DEF HandleClose, BeginRemove, Functor, Functors
      <4> QED
        BY <1>3, <4>1, DestroysAfter
    <3> QED
      BY <3>1, <3>2 DEF HandleCloseAgain, PhaseInv
  <2> QED
    BY <1>2, <1>3, <1>4, <1>5, <1>8, <2>1 DEF Owned
<1>9. CASE HandleError \/ RunStop
  <2>1. k' = StopInLoop(k) /\ m_connectionPtr' = m_connectionPtr /\ ~RunDestroy
    BY <1>3, <1>9, StopEnds DEF HandleError, RunStop, RunDestroy, Runs, connVars
  <2>2. k.sock[f] # "closed" /\ (k.state = "kConnecting" => f # k.fd)
    BY <1>2, <1>3, <2>1, StopEnds
  <2> QED
    BY <1>3, <1>4, <1>5, <2>1, <2>2 DEF Owned
<1>10. CASE LoopStop
  <2>1. k' = StopInLoop(Set(FALSE)) /\ m_connectionPtr' = m_connectionPtr /\ queue' = queue
    BY <1>10 DEF LoopStop, LoopCalls, Set
  <2>2. /\ KOK(Set(FALSE)) /\ Set(FALSE).sock = k.sock /\ Set(FALSE).fd = k.fd
        /\ Set(FALSE).state = k.state
    BY <1>3, Edits DEF Set
  <2>3. k.sock[f] # "closed" /\ (k.state = "kConnecting" => f # k.fd)
    BY <1>2, <2>1, <2>2, StopEnds
  <2> QED
    BY <1>3, <1>5, <2>1, <2>3 DEF Owned
<1>11. CASE HandleWriteFailed
  <2>1. k' = Retry(RemoveChannel(k)) /\ m_connectionPtr' = m_connectionPtr /\ queue' = queue
        /\ k.state = "kConnecting"
    BY <1>11 DEF HandleWriteFailed, OnWriteFailed, connVars
  <2>2. k'.sock = [k.sock EXCEPT ![k.fd] = "closed"]
    BY <1>3, <2>1, RetryEnds
  <2>3. k.sock[f] # "closed" /\ f # k.fd
    BY <1>2, <1>3, <2>2 DEF KType
  <2> QED
    BY <1>3, <1>5, <2>1, <2>3 DEF Owned
<1>12. CASE HandleWrite
  <2>1. k' = OnWriteConnected(k) /\ queue' = queue /\ k.state = "kConnecting"
        /\ m_connectionPtr' = IF k.connect THEN k.fd ELSE m_connectionPtr
    BY <1>12 DEF HandleWrite
  <2>2. k.sock[f] # "closed" /\ (f = k.fd => k.connect)
    BY <1>2, <1>3, <2>1, WriteConnects
  <2>3. m_connectionPtr = NoFd
    BY <1>3, <2>1 DEF AttemptInv
  <2> QED
    BY <1>3, <1>5, <2>1, <2>2, <2>3 DEF Owned
<1>13. CASE TimerFires
  <2>1. /\ KOK(Fired) /\ Fired.state # "kConnecting" /\ Fired.timers = 0
        /\ Fired.sock = k.sock /\ k' \in StartInLoop(Fired)
    BY <1>3, <1>13, TimerStarts
  <2>2. k.sock[f] # "closed" \/ (f = k'.fd /\ k'.state = "kConnecting")
    BY <1>2, <2>1, StartBegins
  <2>3. UNCHANGED <<m_connectionPtr, queue>> /\ k.state # "kConnecting"
    BY <1>3, <1>13, Edits DEF TimerFires, connVars
  <2> QED
    BY <1>3, <1>5, <2>2, <2>3 DEF Owned
<1>14. CASE RunStart \/ Restart \/ LoopConnect
  <2>1. PICK c : (c = k \/ c = Set(TRUE) \/ c = Restarted(k)) /\ Starts(c)
    BY <1>14 DEF RunStart, Restart, LoopConnect, Set
  <2>2. /\ c.sock = k.sock /\ (overlapped' <=> c.connect /\ Busy)
        /\ k' = c \/ (c.connect /\ ~Busy)
        /\ \A g \in Fds : k'.sock[g] # "closed" =>
             c.sock[g] # "closed" \/ (g = k'.fd /\ k'.state = "kConnecting")
    BY <1>2, <1>3, <2>1, StartsWith
  <2>3. Set(TRUE).connect = TRUE /\ Restarted(k).connect = TRUE
    BY <1>3, Edits, RestartedIs DEF Set
  <2>4. ~Busy \/ k' = k
    BY <1>2, <2>1, <2>2, <2>3
  <2>5. m_connectionPtr' = m_connectionPtr /\ ~RunDestroy
    BY <1>14 DEF RunStart, Runs, Restart, LoopConnect, LoopCalls, connVars, RunDestroy
  <2>6. ~Busy => k.state # "kConnecting"
    BY <1>3, BusyIs
  <2> QED
    BY <1>2, <1>3, <1>4, <1>5, <2>2, <2>4, <2>5, <2>6 DEF Owned
<1>15. CASE Destroy
  <2> DEFINE c == IF m_connectionPtr = NoFd THEN Stopped ELSE k
             g == Functor("forceCloseInLoop", m_connectionPtr)
  <2>1. /\ m_connectionPtr' = NoFd /\ k' = ChannelClosed(c)
        /\ queue' = queue \/ queue' = Append(queue, g)
    BY <1>15 DEF Destroy
  <2>2. DestroyedIn(queue, f) => DestroyedIn(queue', f)
    <3>1. g \in Functors
      BY <1>3 DEF Functor, Functors, Raw
    <3> HIDE DEF g
    <3> QED
      BY <1>3, <2>1, <3>1, DestroysAfter
  <2>3. /\ KOK(c) /\ c.fd = k.fd
        /\ c.sock[f] # "closed" => k.sock[f] # "closed"
        /\ m_connectionPtr = NoFd /\ k.state = "kConnecting" /\ c.sock[f] # "closed" => f # k.fd
    <3>1. /\ KOK(Set(FALSE)) /\ Set(FALSE).sock = k.sock /\ Set(FALSE).fd = k.fd
          /\ Set(FALSE).state = k.state
      BY <1>3, Edits DEF Set
    <3>2. /\ KOK(Stopped) /\ Stopped.fd = k.fd
          /\ Stopped.sock[f] # "closed" =>
               k.sock[f] # "closed" /\ (k.state = "kConnecting" => f # k.fd)
      BY <3>1, StopEnds DEF Stopped, Set
    <3> QED
      BY <1>3, <3>2
  <2> HIDE DEF c
  <2>4. c.sock[f] # "closed" /\ f # c.fd
    <3>1. CASE c.fd = NoFd
      BY <1>2, <1>3, <2>1, <3>1 DEF ChannelClosed
    <3>2. CASE c.fd # NoFd
      <4>1. c.fd \in Fds \cup {NoFd} /\ c.sock \in [Fds -> {"closed", "connecting", "established", "failed"}]
        BY <2>3 DEF KOK, KType
      <4>2. k'.sock = [c.sock EXCEPT ![c.fd] = "closed"]
        BY <2>1, <2>3, <3>2, <4>1, Edits DEF ChannelClosed
      <4> QED
        BY <1>2, <4>1, <4>2
    <3> QED
      BY <3>1, <3>2
  <2>5. DestroyedIn(queue, f)
    BY <1>3, <2>3, <2>4 DEF Owned, AttemptInv
  <2> QED
    BY <1>5, <2>2, <2>5
<1> QED
  BY <1>6, <1>7, <1>8, <1>9, <1>10, <1>11, <1>12, <1>13, <1>14, <1>15, NextIs
    DEF Outcomes, Still

-----------------------------------------------------------------------------
(* A stop is final.                                                        *)

StopOnItsWay == tpc = <<"push", "stopInLoop">> \/ "stopInLoop" \in CallsIn(queue)

\* It is until the loop has run it.
LEMMA StopArrives ==
  ASSUME TypeOK, [Next]_vars, ~RunStop, StopOnItsWay
  PROVE  StopOnItsWay'
<1>1. StopOnItsWay' <=> tpc' = <<"push", "stopInLoop">> \/ "stopInLoop" \in CallsIn(queue')
  BY DEF StopOnItsWay, CallsIn
<1>2. queue \in Seq(Functors)
  BY DEF TypeOK
<1>3. CASE "stopInLoop" \in CallsIn(queue)
  <2>1. CASE queue' = queue
    BY <1>1, <1>3, <2>1
  <2>2. CASE (RunStart \/ RunDestroy) /\ queue # <<>> /\ queue' = Tail(queue)
    <3>1. Head(queue).call # "stopInLoop"
      BY <2>2 DEF RunStart, RunDestroy, Runs
    <3> QED
      BY <1>1, <1>2, <1>3, <2>2, <3>1, CallsAfter
  <2>3. ASSUME NEW f \in Functors, queue' = Append(queue, f)
        PROVE  StopOnItsWay'
    BY <1>1, <1>2, <1>3, <2>3, CallsAfter
  <2> QED
    BY <2>1, <2>2, <2>3, QueueForm
<1>4. CASE tpc = <<"push", "stopInLoop">>
  <2>1. ASSUME NEW f \in {"startInLoop", "stopInLoop"}, PushFunctor(f)
        PROVE  StopOnItsWay'
    <3>1. f = "stopInLoop"
      BY <1>4, <2>1 DEF PushFunctor
    <3>2. queue' = Append(queue, Functor("stopInLoop", NoFd))
      BY <2>1, <3>1 DEF PushFunctor
    <3>3. Functor("stopInLoop", NoFd) \in Functors /\ Functor("stopInLoop", NoFd).call = "stopInLoop"
      BY DEF Functor, Functors, Raw
    <3> QED
      BY <1>1, <1>2, <3>2, <3>3, CallsAfter
  <2>2. ASSUME NEW f \in {"startInLoop", "stopInLoop"}, BeginCall(f) \/ StoreConnect(f)
        PROVE  FALSE
    BY <1>4, <2>2 DEF BeginCall, StoreConnect, NoCall
  <2>3. CASE UNCHANGED vars \/ ~(\E f \in {"startInLoop", "stopInLoop"} :
                                   BeginCall(f) \/ StoreConnect(f) \/ PushFunctor(f))
    <3>1. tpc' = tpc
      <4>1. CASE \/ Poll \/ HandleWriteStale \/ CallbackReturns \/ HandleClose \/ HandleCloseAgain
                 \/ TestRetry \/ LoopDisconnect \/ UseAfterDestroy \/ AttemptSucceeds \/ AttemptFails
                 \/ HandleError \/ HandleWriteFailed \/ HandleWrite \/ TimerFires \/ UNCHANGED vars
        BY <4>1
          DEF Poll, HandleWriteStale, CallbackReturns, HandleClose, HandleCloseAgain, TestRetry,
              LoopDisconnect, LoopCalls, UseAfterDestroy, AttemptSucceeds, AttemptFails,
              SocketTurns, HandleError, HandleWriteFailed, HandleWrite, TimerFires, userVars, vars
      <4>2. CASE \/ Restart \/ RunStart \/ RunStop \/ RunDestroy \/ RunReset
                 \/ LoopConnect \/ LoopStop \/ Destroy
        BY <4>2
          DEF Restart, RunStart, RunStop, RunDestroy, RunReset, LoopConnect, LoopStop, LoopCalls, Destroy,
              userVars
      <4> QED
        BY <2>3, <4>1, <4>2, NextIs DEF Outcomes, Still
    <3> QED
      BY <1>1, <1>4, <3>1
  <2> QED
    BY <2>1, <2>2, <2>3
<1> QED
  BY <1>3, <1>4 DEF StopOnItsWay

LEMMA StopStep ==
  ASSUME TypeOK, PhaseInv, AttemptInv, StopInv, [Next]_vars
  PROVE  StopInv'
<1> DEFINE Unstarted == ~wanted' /\ ~stopRaced' /\ ~overlapped'
<1>1. SUFFICES ASSUME Unstarted
               PROVE  ~k'.connect /\ (k'.state = "kConnecting" => StopOnItsWay')
  BY DEF StopInv, StopOnItsWay, CallsIn
<1>2. /\ overlapped = FALSE /\ KOK(k) /\ k \in KType
      /\ wanted \in BOOLEAN /\ stopRaced \in BOOLEAN
  BY <1>1, KStep DEF KOK, TypeOK
<1>3. ~wanted /\ ~stopRaced =>
        ~k.connect /\ (k.state = "kConnecting" => StopOnItsWay)
  BY <1>2 DEF StopInv, StopOnItsWay
<1>4. StopOnItsWay /\ ~RunStop => StopOnItsWay'
  BY StopArrives
<1>5. CASE \/ UNCHANGED vars \/ RunDestroy \/ RunReset \/ AttemptSucceeds \/ AttemptFails
           \/ Still
  <2>1. UNCHANGED <<wanted, stopRaced>>
    <3>1. CASE UNCHANGED vars \/ RunDestroy \/ RunReset \/ AttemptSucceeds \/ AttemptFails
      BY <3>1, ResetEffect DEF vars, RunDestroy, AttemptSucceeds, AttemptFails, SocketTurns, userVars, connVars
    <3>2. CASE Still
      BY <3>2
        DEF Still, Poll, HandleWriteStale, CallbackReturns, HandleClose, HandleCloseAgain,
            TestRetry, LoopDisconnect, LoopCalls, UseAfterDestroy, BeginCall, PushFunctor,
            ThreadUnchanged, userVars, connVars
    <3> QED
      BY <1>5, <3>1, <3>2
  <2>2. k'.connect = k.connect /\ k'.state = k.state
    BY <1>2, <1>5, StillUnchanged, ResetEffect
      DEF vars, RunDestroy, AttemptSucceeds, AttemptFails, SocketTurns, KType
  <2>3. ~RunStop \/ UNCHANGED vars \/ RunReset
    BY <1>5
      DEF RunStop, Runs, RunDestroy, AttemptSucceeds, AttemptFails, SocketTurns, Still, Poll,
          HandleWriteStale, CallbackReturns, HandleClose, HandleCloseAgain, BeginRemove, TestRetry,
          LoopDisconnect, LoopCalls, UseAfterDestroy, BeginCall, PushFunctor, ThreadUnchanged
  <2>4. UNCHANGED vars \/ RunReset => (StopOnItsWay <=> StopOnItsWay')
    BY DEF vars, RunReset, userVars, StopOnItsWay, CallsIn
  <2> QED
    BY <1>1, <1>3, <1>4, <2>1, <2>2, <2>3, <2>4
<1>6. CASE HandleError \/ RunStop
  BY <1>1, <1>2, <1>3, <1>6, StopEnds DEF HandleError, RunStop, userVars, connVars
<1>7. CASE HandleWriteFailed
  BY <1>1, <1>2, <1>3, <1>7, RetryEnds DEF HandleWriteFailed, OnWriteFailed, userVars, connVars
<1>8. CASE HandleWrite
  BY <1>1, <1>2, <1>3, <1>8, WriteConnects DEF HandleWrite, userVars, connVars
<1>9. CASE TimerFires
  <2>1. /\ KOK(Fired) /\ Fired.state # "kConnecting" /\ Fired.timers = 0
        /\ Fired.connect = k.connect /\ k' \in StartInLoop(Fired)
    BY <1>2, <1>9, TimerStarts
  <2>2. UNCHANGED <<wanted, stopRaced>>
    BY <1>9 DEF TimerFires, userVars, connVars
  <2> QED
    BY <1>1, <1>3, <2>1, <2>2, StartBegins
<1>10. CASE RunStart
  <2>1. UNCHANGED <<wanted, stopRaced>> /\ Starts(k) /\ ~RunStop
    BY <1>10 DEF RunStart, RunStop, Runs, connVars
  <2>2. k' = k
    BY <1>1, <1>2, <1>3, <2>1, StartsWith
  <2> QED
    BY <1>1, <1>3, <1>4, <2>1, <2>2
<1>11. CASE Restart
  BY <1>1, <1>11 DEF Restart, userVars
<1>12. CASE LoopConnect
  BY <1>1, <1>12 DEF LoopConnect
<1>13. CASE LoopStop
  <2>1. k' = StopInLoop(Set(FALSE))
    BY <1>13 DEF LoopStop, Set
  <2>2. KOK(Set(FALSE)) /\ Set(FALSE).connect = FALSE
    BY <1>2, Edits DEF Set
  <2> QED
    BY <2>1, <2>2, StopEnds
<1>14. ASSUME NEW f \in {"startInLoop", "stopInLoop"}, StoreConnect(f)
       PROVE  ~k'.connect /\ (k'.state = "kConnecting" => StopOnItsWay')
  <2>1. f = "stopInLoop"
    BY <1>1, <1>14 DEF StoreConnect
  <2>2. tpc' = <<"push", "stopInLoop">> /\ k' = [k EXCEPT !.connect = (f = "startInLoop")]
    BY <1>14, <2>1 DEF StoreConnect
  <2>3. k'.connect = FALSE
    BY <1>2, <2>1, <2>2 DEF KType
  <2> QED
    BY <2>2, <2>3 DEF StopOnItsWay
<1>15. CASE Destroy
  <2> DEFINE c == IF m_connectionPtr = NoFd THEN Stopped ELSE k
  <2>1. k' = ChannelClosed(c) /\ UNCHANGED <<wanted, stopRaced>>
    BY <1>15 DEF Destroy
  <2>2. KOK(c) /\ c.state # "kConnecting" /\ (~k.connect => ~c.connect)
    <3>1. KOK(Set(FALSE)) /\ Set(FALSE).connect = FALSE
      BY <1>2, Edits DEF Set
    <3>2. KOK(Stopped) /\ Stopped.state # "kConnecting" /\ Stopped.connect = FALSE
      BY <3>1, StopEnds DEF Stopped, Set
    <3> QED
      BY <1>2, <3>2 DEF AttemptInv
  <2> HIDE DEF c
  <2>3. k'.state = c.state /\ k'.connect = c.connect
    BY <2>1, <2>2 DEF ChannelClosed, KOK, KType
  <2> QED
    BY <1>1, <1>3, <2>1, <2>2, <2>3
<1> QED
  BY <1>5, <1>6, <1>7, <1>8, <1>9, <1>10, <1>11, <1>12, <1>13, <1>14, <1>15, NextIs DEF Outcomes

-----------------------------------------------------------------------------
(* ~TcpClient.                                                             *)

LEMMA GoneStep ==
  ASSUME TypeOK, PhaseInv, AttemptInv, GoneInv, [Next]_vars
  PROVE  GoneInv'
<1> DEFINE Unknown == k'.timers = 0 /\ rev' = "none" /\ CallsIn(queue') \cap Raw = {}
           Removed == k'.ch = NewChannel /\ m_connectionPtr' = NoFd
<1>1. SUFFICES /\ undefined' => gone' /\ left'
               /\ gone' => Removed
               /\ gone' /\ ~left' => Unknown
  BY DEF GoneInv, CallsIn
<1>2. /\ {gone, left, undefined} \subseteq BOOLEAN /\ k \in KType /\ queue \in Seq(Functors)
      /\ overlapped \in BOOLEAN
  BY DEF TypeOK, KType
<1>3. CASE UNCHANGED vars
  BY <1>3 DEF GoneInv, vars, CallsIn
<1>4. CASE Next /\ ~Going
  <2>1. gone /\ (RunDestroy \/ RunReset \/ UseAfterDestroy)
    BY <1>4, NextIs
  <2>2. CASE RunDestroy
    <3>1. /\ k'.timers = k.timers /\ k'.ch = k.ch
          /\ UNCHANGED <<rev, gone, left, undefined, m_connectionPtr>>
      BY <1>2, <2>2 DEF RunDestroy, userVars, connVars, goneVars, KType
    <3>2. CallsIn(queue') \subseteq CallsIn(queue)
      BY <1>2, <2>2, CallsAfter DEF RunDestroy, Runs
    <3> QED
      BY <3>1, <3>2 DEF GoneInv
  <2>3. CASE UseAfterDestroy
    <3>1. left
      <4>1. SUFFICES ASSUME ~left PROVE FALSE
        OBVIOUS
      <4>2. k.timers = 0 /\ rev = "none" /\ CallsIn(queue) \cap Raw = {}
        BY <2>1, <4>1 DEF GoneInv
      <4>3. ASSUME NEW f \in Raw, Runs(f) PROVE FALSE
        BY <1>2, <4>2, <4>3, CallsAfter DEF Runs
      <4> QED
        BY <2>3, <4>2, <4>3 DEF UseAfterDestroy
    <3> QED
      BY <1>2, <2>1, <2>3, <3>1 DEF UseAfterDestroy, connVars, GoneInv
  <2>4. CASE RunReset
    BY <2>4, ResetEffect DEF GoneInv
  <2> QED
    BY <2>1, <2>2, <2>3, <2>4
<1>5. CASE Next /\ Going /\ Destroy
  <2>1. undefined' = FALSE
    BY <1>2, <1>5 DEF Destroy, Going, GoneInv
  <2>9. Removed
    <3> DEFINE c == IF m_connectionPtr = NoFd THEN Stopped ELSE k
    <3>1. k' = ChannelClosed(c) /\ m_connectionPtr' = NoFd
      BY <1>5 DEF Destroy
    <3>2. KOK(Set(FALSE)) /\ KOK(k) /\ overlapped = FALSE
      BY <1>2, <1>5, Edits DEF Set, Going, AttemptInv
    <3>3. KOK(Stopped) /\ Stopped.state # "kConnecting"
      BY <3>2, StopEnds DEF Stopped, Set
    <3>4. KOK(c) /\ c.state # "kConnecting"
      BY <1>2, <3>2, <3>3 DEF AttemptInv
    <3> HIDE DEF c
    <3>5. k'.ch = c.ch
      BY <3>1, <3>4 DEF ChannelClosed, KOK, KType
    <3> QED
      BY <3>1, <3>4, <3>5 DEF KOK, ChannelOf
  <2>2. SUFFICES ASSUME ~left' PROVE Unknown
    BY <2>1, <2>9 DEF Destroy
  <2>3. ~StillUsed
    BY <1>5, <2>2 DEF Destroy
  <2>4. k.timers = 0 /\ rev' = "none" /\ m_connectionPtr = NoFd
        /\ \A i \in DOMAIN queue : queue[i].call \notin Raw
    BY <1>2, <1>5, <2>3 DEF StillUsed, Destroy, KType
  <2>5. queue' = queue /\ k' = ChannelClosed(Stopped)
    BY <1>5, <2>4 DEF Destroy
  <2>6. KOK(Set(FALSE)) /\ Set(FALSE).connect = FALSE /\ Set(FALSE).timers = 0
    BY <1>2, <1>5, <2>4, Edits DEF Set, Going, AttemptInv
  <2>7. KOK(Stopped) /\ Stopped.timers = 0
    <3>1. KOK(Stopped) /\ Stopped.timers <= 0
      BY <2>6, StopEnds DEF Stopped, Set
    <3> QED
      BY <3>1 DEF KOK
  <2>8. k'.timers = 0
    BY <2>5, <2>7 DEF ChannelClosed, KOK, KType
  <2> QED
    BY <2>4, <2>5, <2>8 DEF CallsIn
<1>6. CASE Next /\ Going /\ ~Destroy
  <2>1. gone = FALSE /\ undefined = FALSE
    BY <1>2, <1>6 DEF Going, GoneInv
  <2>2. UNCHANGED <<gone, undefined>>
    <3>1. CASE Handler
      BY <3>1
        DEF Handler, HandleError, HandleWriteStale, HandleWriteFailed, HandleWrite,
            CallbackReturns, HandleCloseAgain, TestRetry, Restart, userVars, goneVars
    <3>2. CASE AttemptSucceeds \/ AttemptFails \/ Poll \/ HandleClose \/ TimerFires
      BY <3>2
        DEF AttemptSucceeds, AttemptFails, SocketTurns, Poll, HandleClose, TimerFires,
            userVars, goneVars
    <3>3. CASE RunFunctor
      BY <3>3 DEF RunFunctor, RunStart, RunStop, RunDestroy, RunReset, userVars, goneVars
    <3>4. CASE Call
      BY <3>4
        DEF Call, LoopConnect, LoopStop, LoopDisconnect, LoopCalls, BeginCall, StoreConnect,
            PushFunctor, ThreadUnchanged, goneVars
    <3> QED
      BY <1>6, <3>1, <3>2, <3>3, <3>4 DEF Next, Going
  <2> QED
    BY <2>1, <2>2
<1> QED
  BY <1>3, <1>4, <1>5, <1>6

-----------------------------------------------------------------------------
LEMMA ClientInit == Init => ClientInv
<1> SUFFICES ASSUME Init PROVE ClientInv
  OBVIOUS
<1>1. k = NewConnector /\ NewConnector \in KType /\ KOK(NewConnector)
  BY ChannelsAre DEF Init, NewConnector, KOK, KType, ChannelOf
<1>2. queue = <<>> /\ rev = "none" /\ pc = "idle" /\ tpc = NoCall /\ m_connectionPtr = NoFd
  BY DEF Init
<1>3. CallsIn(queue) = {}
  BY <1>2 DEF CallsIn
<1>4. TypeOK
  <2>1. queue \in Seq(Functors)
    BY <1>2
  <2>2. k \in [connect : BOOLEAN, state : {"kDisconnected", "kConnecting", "kConnected"},
              fd : Fds \cup {NoFd}, ch : ChannelType,
              sock : [Fds -> {"closed", "connecting", "established", "failed"}],
              timers : Nat, reset : BOOLEAN, gaveUp : BOOLEAN]
    BY <1>1 DEF KType
  <2>3. tpc \in {NoCall} \cup {"store", "push"} \X {"startInLoop", "stopInLoop"}
        /\ calls \in 0 .. MaxCalls
    BY <1>2, TcpClientAssumption DEF Init
  <2> QED
    BY <1>2, <2>1, <2>2, <2>3 DEF Init, TypeOK
<1>5. PhaseInv
  BY <1>2 DEF PhaseInv
<1>6. AttemptInv
  BY <1>1, <1>2 DEF AttemptInv, NewConnector
<1>7. OneAttempt /\ EverySocketOwned
  BY <1>1, ChannelsAre DEF Init, OneAttempt, EverySocketOwned, NewConnector
<1>8. StopInv
  BY <1>1 DEF StopInv, NewConnector
<1>9. GoneInv
  BY DEF Init, GoneInv
<1> QED
  BY <1>4, <1>5, <1>6, <1>7, <1>8, <1>9 DEF ClientInv

LEMMA ClientStep == ClientInv /\ [Next]_vars => ClientInv'
  BY TypeStep, PhaseStep, AttemptStep, SocketsStep, StopStep, GoneStep DEF ClientInv

\* The inductive invariant of the client.
THEOREM ClientInvariant == Spec => []ClientInv
  BY ClientInit, ClientStep, PTL DEF Spec

\* TcpClient's state keeps its types, whatever the calls, the network and the timers do.
THEOREM ClientTypes == Spec => []TypeOK
<1>1. ClientInv => TypeOK
  BY DEF ClientInv
<1> QED
  BY <1>1, ClientInvariant, PTL

\* Retries, restarts and starts never make two attempts at a time: an attempt overlaps
\* what is left of an earlier one only after a clientConnect while the client was busy
\* or a connection that was closed twice.
THEOREM OneAttemptAtATime == Spec => []OneAttempt
<1>1. ClientInv => OneAttempt
  BY DEF ClientInv
<1> QED
  BY <1>1, ClientInvariant, PTL

\* Whatever fails, is stopped or is retried, an open socket belongs to the attempt, the
\* connection, or a connection that is about to be destroyed.
THEOREM NoSocketLost == Spec => []EverySocketOwned
<1>1. ClientInv => EverySocketOwned
  BY DEF ClientInv
<1> QED
  BY <1>1, ClientInvariant, PTL

\* A clientStop that has been carried out, and that restart() has not undone, ends the
\* attempts, whichever retry timers, events and functors are still to come.
THEOREM StopsAreFinal == Spec => []StopIsFinal
<1>1. ClientInv => StopIsFinal
  <2> SUFFICES ASSUME ClientInv, ~wanted, tpc = NoCall, ~stopRaced, ~overlapped,
                      \A i \in DOMAIN queue : queue[i].call # "stopInLoop"
               PROVE  ~k.connect /\ k.state # "kConnecting"
    BY DEF StopIsFinal
  <2>1. "stopInLoop" \notin CallsIn(queue)
    BY DEF CallsIn
  <2>2. tpc # <<"push", "stopInLoop">>
    BY DEF NoCall
  <2> QED
    BY <2>1, <2>2 DEF ClientInv, StopInv
<1> QED
  BY <1>1, ClientInvariant, PTL

\* ~TcpClient takes an attempt under way back from the poller, whenever it comes; and if
\* neither a connection, a retry timer, a report nor a functor of an earlier call was left,
\* the loop finds nothing of the client afterwards but a resetChannel that does nothing.
THEOREM OnlyResetSurvives == Spec => []OnlyResetIsLeft
<1>1. ClientInv => OnlyResetIsLeft
  <2> SUFFICES ASSUME ClientInv, gone PROVE OnlyResetIsLeft
    BY DEF OnlyResetIsLeft
  <2>1. ~k.ch.registered /\ ~k.ch.mapped
    BY DEF ClientInv, GoneInv, NewChannel
  <2>2. ~left => ~StillUsed /\ ~undefined
    BY DEF ClientInv, GoneInv, StillUsed, CallsIn
  <2> QED
    BY <2>1, <2>2 DEF OnlyResetIsLeft
<1> QED
  BY <1>1, ClientInvariant, PTL
=============================================================================
