-------------------------- MODULE ConnectionProofs --------------------------
(***************************************************************************)
(* Proofs about Channel and Connection.  No order of the operations of     *)
(* Channel makes an epoll_ctl fail, and hence no order of events, calls,   *)
(* errors and removals of a connection does.  The output stays in order,   *)
(* the end of a connection is heard of once, and what is bound to this has *)
(* run when the last reference goes: consequences of ConnInv.              *)
(***************************************************************************)
EXTENDS Connection, SequenceTheorems, TLAPS

\* A channel that is well typed and agrees with the kernel.
Good(c) == c \in ChannelType /\ InSync(c)

\* EpollPoller::updateChannel keeps poller and kernel in agreement: it may be called
\* after any change of m_events, the invariant but for the interest registered.
LEMMA UpdateInSync ==
  ASSUME NEW c, Good(c), NEW E \in SUBSET Events
  PROVE  Good(Update([c EXCEPT !.events = E])) 
<1> DEFINE d == [c EXCEPT !.events = E]
<1>1. /\ d \in ChannelType /\ d.events = E /\ d.status = c.status
      /\ d.mapped = c.mapped /\ d.registered = c.registered
      /\ d.interest = c.interest /\ d.failed = c.failed
  BY DEF Good, ChannelType
<1>2. CASE c.status \in {"kNew", "kDeleted"}
  BY <1>1, <1>2 DEF Good, InSync, Update, CtlAdd, ChannelType, Statuses
<1>3. CASE c.status = "kAdded" /\ E = {}
  BY <1>1, <1>3 DEF Good, InSync, Update, CtlDel, ChannelType, Statuses
<1>4. CASE c.status = "kAdded" /\ E # {}
  BY <1>1, <1>4 DEF Good, InSync, Update, CtlMod, ChannelType, Statuses
<1> QED
  BY <1>2, <1>3, <1>4 DEF Good, ChannelType, Statuses

\* Every operation of Channel.h keeps them in agreement, in every order.
LEMMA OperationsInSync ==
  ASSUME NEW c, Good(c)
  PROVE  /\ Good(EnableReading(c)) /\ Good(DisableReading(c))
         /\ Good(EnableWriting(c)) /\ Good(DisableWriting(c))
         /\ Good(DisableAll(c)) /\ Good(Remove(c))
<1>1. c.events \in SUBSET Events
  BY DEF Good, ChannelType
<1>2. /\ c.events \cup {"in"} \in SUBSET Events /\ c.events \ {"in"} \in SUBSET Events
      /\ c.events \cup {"out"} \in SUBSET Events /\ c.events \ {"out"} \in SUBSET Events
      /\ {} \in SUBSET Events
  BY <1>1 DEF Events
<1>3. Good(EnableReading(c)) /\ Good(DisableReading(c))
  BY <1>2, UpdateInSync DEF EnableReading, DisableReading
<1>4. Good(EnableWriting(c)) /\ Good(DisableWriting(c))
  BY <1>2, UpdateInSync DEF EnableWriting, DisableWriting
<1>5. Good(DisableAll(c))
  BY <1>2, UpdateInSync DEF DisableAll
<1>6. Good(Remove(c))
  <2>1. CASE c.status = "kAdded"
    BY <2>1 DEF Good, InSync, Remove, CtlDel, ChannelType, Statuses
  <2>2. CASE c.status # "kAdded"
    BY <2>2 DEF Good, InSync, Remove, ChannelType, Statuses
  <2> QED
    BY <2>1, <2>2
<1> QED
  BY <1>3, <1>4, <1>5, <1>6

\* What sendInLoop does to the channel is nothing, or to enable writing.
LEMMA SendInSync ==
  ASSUME Good(ch), NEW m, NEW q, SendInLoop(m, q)
  PROVE  Good(ch')
<1>1. ch' = ch \/ ch' = EnableWriting(ch)
  BY DEF SendInLoop, BufferRemaining
<1> QED
  BY <1>1, OperationsInSync

\* No step of a connection brings poller and kernel apart.
LEMMA ChannelStep ==
  ASSUME Good(ch), [Next]_vars
  PROVE  Good(ch')
<1>1. CASE Peer
  BY <1>1 DEF Peer, PeerSends, PeerReads, PeerCloses, PeerResets, PeerUnchanged
<1>2. CASE Poll \/ UserReads \/ ConnectionCallbackReturns
  BY <1>2 DEF Poll, UserReads, ConnectionCallbackReturns
<1>3. CASE Dispatch
  <2>1. CASE HandleError \/ OnReadClose
    BY <2>1, OperationsInSync DEF HandleError, OnReadClose, Close
  <2>2. CASE OnWrite \/ OnWriteFails
    BY <2>2, OperationsInSync DEF OnWrite, OnWriteFails
  <2>3. CASE HandleEvent \/ HandleHup \/ OnReadMessage \/ MessageReturns
             \/ OnWriteDown \/ DispatchReturns
    BY <2>3 DEF HandleEvent, HandleHup, OnReadMessage, MessageReturns, OnWriteDown,
                DispatchReturns
  <2> QED
    BY <1>3, <2>1, <2>2, <2>3 DEF Dispatch
<1>4. CASE RunFunctor
  <2>1. CASE RunEstablish
    BY <2>1, OperationsInSync DEF RunEstablish
  <2>2. CASE RunSend
    BY <2>2, SendInSync DEF RunSend
  <2>3. CASE RunForceClose
    BY <2>3, OperationsInSync DEF RunForceClose, Close
  <2>4. CASE RunDestroy
    BY <2>4, OperationsInSync DEF RunDestroy, OnConnectionDestroy
  <2>5. CASE RunShutdown \/ RunUserCallback
    BY <2>5 DEF RunShutdown, RunUserCallback
  <2> QED
    BY <1>4, <2>1, <2>2, <2>3, <2>4, <2>5 DEF RunFunctor
<1>5. CASE OwnerRemoves \/ OwnerDisposes \/ OwnerDisposesInLoop
  BY <1>5, OperationsInSync
    DEF OwnerRemoves, OwnerDisposes, OwnerDisposesInLoop, OnConnectionDestroy
<1>6. CASE \E m \in Messages : LoopSend(m)
  BY <1>6, SendInSync DEF LoopSend
<1>7. CASE LoopShutdown \/ LoopForceClose
  BY <1>7 DEF LoopShutdown, LoopForceClose
<1>8. CASE \E t \in Threads : ThreadStep(t)
  BY <1>8 DEF ThreadStep, BeginSend, BeginShutdown, BeginForceClose, StoreState,
              PushFunctor, ThreadUnchanged
<1>9. CASE UNCHANGED vars
  BY <1>9 DEF vars
<1> QED
  BY <1>1, <1>2, <1>3, <1>4, <1>5, <1>6, <1>7, <1>8, <1>9 DEF Next

\* epoll_ctl never fails on a connection's channel, and m_status never disagrees
\* with the kernel, for any number of threads, messages and calls.
THEOREM ConnectionChannelInSync == Spec => []ChannelInSync
<1>1. Init => Good(ch)
  <2>1. NewChannel \in ChannelType
    BY DEF ChannelType, NewChannel, Statuses
  <2>2. InSync(NewChannel)
    BY DEF InSync, NewChannel
  <2> QED
    BY <2>1, <2>2 DEF Init, Good
<1>2. Good(ch) /\ [Next]_vars => Good(ch)'
  <2>1. Good(ch)' <=> Good(ch')
    BY DEF Good, InSync, ChannelType
  <2> QED
    BY <2>1, ChannelStep
<1>3. Good(ch) => ChannelInSync
  BY DEF Good, ChannelInSync
<1> QED
  BY <1>1, <1>2, <1>3, PTL DEF Spec

-----------------------------------------------------------------------------
(* What is invariant.                                                      *)

CallsIn(x) == {x[i].call : i \in DOMAIN x}

Queued(f) == f \in CallsIn(queue)

\* The life of a connection begins with onConnectionEstablish, before which nothing
\* happens to it; between two rounds no events are left.
StartInv ==
  /\ m_state # "kConnecting" => ~Queued("onConnectionEstablish")
  /\ m_state = "kConnecting" =>
       /\ queue # <<>> /\ Head(queue).call = "onConnectionEstablish"
       /\ "onConnectionEstablish" \notin CallsIn(Tail(queue))
       /\ pc = "idle" /\ outputBuffer = <<>> /\ ch = NewChannel
       /\ \A t \in Threads : tpc[t] = Idle
  /\ pc \in {"idle", "connection"} => rev = {}
  /\ owner = "holds" => ~Queued("onConnectionDestroy")

\* Whether a thread other than the loop's may shut the connection down or close it.
OthersClose == ThreadsClose /\ Threads # {}

\* A thread that only sends never stores the state.
SendersInv ==
  ~OthersClose => \A t \in Threads : tpc[t] = Idle \/ tpc[t].stored

\* While another thread cannot have brought a closed connection back.
Steady == ~OthersClose \/ (closes = 0 /\ owner = "holds")

\* While output is buffered, writing is enabled, so that no direct write overtakes it;
\* and what epoll_wait said of the room in the socket is true when onWrite comes.
OutputBody ==
  /\ CanWrite => accepted = wire \o outputBuffer
  /\ outputBuffer # <<>> \/ "out" \in rev => IsWriting(ch) \/ m_state = "kDisconnected"
  /\ "out" \in rev /\ CanWrite => sock.room > 0
  /\ m_state = "kDisconnected" => ~OthersClose /\ ch.events = {}

OutputInv == Steady => OutputBody

\* Errors come from resets; without them a close takes the events away that would
\* close again.
CloseInv ==
  ~OthersClose =>
    /\ closes > 0 => m_state = "kDisconnected"
    /\ ~sock.reset => /\ ~sock.error /\ "err" \notin rev
                      /\ closes <= 1
                      /\ pc = "message" \/ "in" \in rev => closes = 0

\* Nothing is left of a connection for the loop.
Gone ==
  /\ pc = "idle"
  /\ ~ch.registered /\ ~ch.mapped
  /\ CallsIn(queue) \cap Raw = {}

RawFirst(x) ==
  \A i, j \in DOMAIN x : x[i].call \in Raw /\ x[j].call = "onConnectionDestroy" => i < j

\* The owner lets go of closed connections only, what is bound to this is queued before
\* onConnectionDestroy, and when that has run nothing is left.
RemovalInv ==
  Threads = {} /\ ~Disposal =>
    /\ owner # "disposed"
    /\ removals > 0 \/ owner = "removed" => m_state = "kDisconnected"
    /\ RawFirst(queue)
    /\ owner = "removed" /\ ~Queued("onConnectionDestroy") => Gone

ConnInv ==
  TypeOK /\ InSync(ch) /\ StartInv /\ SendersInv /\ OutputInv /\ CloseInv /\ RemovalInv

-----------------------------------------------------------------------------
(* The channel and sendInLoop.                                             *)

LEMMA ChannelEvents ==
  ASSUME NEW c, Good(c)
  PROVE  /\ EnableReading(c).events = c.events \cup {"in"}
         /\ EnableWriting(c).events = c.events \cup {"out"}
         /\ DisableWriting(c).events = c.events \ {"out"}
         /\ DisableAll(c).events = {}
         /\ Remove(c).events = c.events
         /\ ~Remove(c).registered /\ ~Remove(c).mapped
<1>1. ASSUME NEW E \in SUBSET Events
      PROVE  Update([c EXCEPT !.events = E]).events = E
  BY <1>1 DEF Good, ChannelType, Update, CtlAdd, CtlDel, CtlMod
<1>2. /\ c.events \cup {"in"} \in SUBSET Events
      /\ c.events \cup {"out"} \in SUBSET Events /\ c.events \ {"out"} \in SUBSET Events
      /\ {} \in SUBSET Events
  BY DEF Events, Good, ChannelType
<1>3. Remove(c).events = c.events /\ ~Remove(c).registered /\ ~Remove(c).mapped
  BY DEF Good, InSync, ChannelType, Remove, CtlDel
<1> QED
  BY <1>1, <1>2, <1>3 DEF EnableReading, EnableWriting, DisableWriting, DisableAll

ByteSeqs == Seq(Messages \X (1 .. MessageLen))

\* Cutting a sequence in two.
LEMMA CutInTwo ==
  ASSUME NEW S, NEW s \in Seq(S), NEW n \in 0 .. Len(s)
  PROVE  /\ SubSeq(s, 1, n) \in Seq(S) /\ SubSeq(s, n + 1, Len(s)) \in Seq(S)
         /\ s = SubSeq(s, 1, n) \o SubSeq(s, n + 1, Len(s))
         /\ n = 0 => SubSeq(s, 1, n) = <<>> /\ SubSeq(s, n + 1, Len(s)) = s
<1>1. SubSeq(s, 1, n) \in Seq(S) /\ SubSeq(s, n + 1, Len(s)) \in Seq(S)
  OBVIOUS
<1>2. s = SubSeq(s, 1, n) \o SubSeq(s, n + 1, Len(s))
  <2> DEFINE a == SubSeq(s, 1, n)
             b == SubSeq(s, n + 1, Len(s))
  <2>1. /\ Len(a) = n /\ Len(b) = Len(s) - n
        /\ \A i \in 1 .. n : a[i] = s[i]
        /\ \A i \in 1 .. Len(s) - n : b[i] = s[n + i]
        /\ n \in Nat /\ Len(s) \in Nat
    OBVIOUS
  <2>2. a \in Seq(S) /\ b \in Seq(S)
    BY <1>1
  <2> HIDE DEF a, b
  <2>3. a \o b \in Seq(S) /\ Len(a \o b) = Len(s)
    BY <2>1, <2>2
  <2>4. ASSUME NEW i \in 1 .. Len(s) PROVE (a \o b)[i] = s[i]
    <3>1. (a \o b)[i] = IF i <= n THEN a[i] ELSE b[i - n]
      BY <2>1, <2>2, ConcatProperties
    <3>2. i <= n \/ (i - n \in 1 .. Len(s) - n /\ n + (i - n) = i)
      BY <2>1
    <3> QED
      BY <2>1, <3>1, <3>2
  <2> QED
    BY <2>3, <2>4, SeqEqual DEF a, b
<1>3. n = 0 => SubSeq(s, 1, n) = <<>> /\ SubSeq(s, n + 1, Len(s)) = s
  OBVIOUS
<1> QED
  BY <1>1, <1>2, <1>3

LEMMA BytesAre ==
  ASSUME NEW m \in Messages
  PROVE  Bytes(m) \in ByteSeqs /\ Len(Bytes(m)) = MessageLen
  BY ConnectionAssumption DEF Bytes, ByteSeqs

SockType == [unread : Nat, fin : BOOLEAN, reset : BOOLEAN,
             error : BOOLEAN, room : 0 .. Room, shut : BOOLEAN]

\* What comes in and the ends of both directions stay.
SameStream ==
  /\ sock'.unread = sock.unread /\ sock'.fin = sock.fin
  /\ sock'.reset = sock.reset /\ sock'.shut = sock.shut

UserCallbacks == {"writeCompleteCallback", "highWaterMarkCallback"}

\* What sendInLoop does to a connection.
LEMMA SendEffect ==
  ASSUME TypeOK, InSync(ch), NEW m \in Messages, NEW x \in Seq(Functors), SendInLoop(m, x)
  PROVE  /\ queue' = x \/ \E f \in UserCallbacks : queue' = Append(x, Functor(f))
         /\ {outputBuffer', accepted', wire'} \subseteq ByteSeqs
         /\ sock' \in SockType /\ SameStream
         /\ sock'.error => sock.error
         /\ sock'.room <= sock.room /\ (IsWriting(ch) => sock'.room = sock.room)
         /\ m_state = "kDisconnected" =>
              queue' = x /\ UNCHANGED <<ch, sock, outputBuffer, accepted, wire>>
         /\ \/ ch' = ch /\ outputBuffer' = outputBuffer
            \/ IsWriting(ch') /\ ch'.events = ch.events \cup {"out"}
         /\ /\ outputBuffer = <<>> \/ IsWriting(ch)
            /\ CanWrite /\ accepted = wire \o outputBuffer
            => accepted' = wire' \o outputBuffer'
<1> DEFINE B == Bytes(m)
           n == IF WritesDirectly /\ CanWrite THEN Taken(MessageLen) ELSE 0
           fault == WritesDirectly /\ ~CanWrite
           sub == SubSeq(B, 1, n)
           rest == SubSeq(B, n + 1, MessageLen)
<1>1. n \in 0 .. MessageLen /\ n <= sock.room /\ n \in Nat /\ sock.room \in Nat
      /\ (IsWriting(ch) => n = 0) /\ fault \in BOOLEAN
  BY ConnectionAssumption DEF TypeOK, Taken, WritesDirectly
<1>2. B \in ByteSeqs /\ Len(B) = MessageLen
  BY BytesAre
<1> HIDE DEF B
<1>3. /\ sub \in ByteSeqs /\ rest \in ByteSeqs /\ B = sub \o rest
      /\ n = 0 => sub = <<>> /\ rest = B
  <2> HIDE DEF n
  <2>1. n \in 0 .. Len(B)
    BY <1>1, <1>2
  <2>2. /\ SubSeq(B, 1, n) \in ByteSeqs /\ SubSeq(B, n + 1, Len(B)) \in ByteSeqs
        /\ B = SubSeq(B, 1, n) \o SubSeq(B, n + 1, Len(B))
        /\ n = 0 => SubSeq(B, 1, n) = <<>> /\ SubSeq(B, n + 1, Len(B)) = B
    BY <1>2, <2>1, CutInTwo, Zenon DEF ByteSeqs
  <2> QED
    BY <1>2, <2>2
<1>4. outputBuffer \in ByteSeqs /\ accepted \in ByteSeqs /\ wire \in ByteSeqs
  BY DEF TypeOK, ByteSeqs
<1>5. CASE m_state = "kDisconnected"
  <2>1. queue' = x /\ UNCHANGED <<ch, sock, outputBuffer, accepted, wire>>
    BY <1>5 DEF SendInLoop
  <2>2. sock' \in SockType /\ SameStream /\ sock.room \in Nat
    BY <2>1 DEF TypeOK, SockType, SameStream
  <2> QED
    BY <1>4, <2>1, <2>2
<1>6. CASE m_state # "kDisconnected"
  <2>1. /\ accepted' = accepted \o B
        /\ wire' = wire \o sub
        /\ sock' = [sock EXCEPT !.room = @ - n, !.error = @ /\ ~fault]
        /\ IF fault \/ rest = <<>>
             THEN /\ queue' = IF fault THEN x
                              ELSE Append(x, Functor("writeCompleteCallback"))
                  /\ UNCHANGED <<ch, outputBuffer>>
             ELSE BufferRemaining(rest, x)
    BY <1>6, Zenon DEF SendInLoop, B
  <2> HIDE DEF sub, rest, n, fault
  <2>2. queue' = x \/ \E f \in UserCallbacks : queue' = Append(x, Functor(f))
    BY <2>1 DEF BufferRemaining, UserCallbacks
  <2>3. /\ outputBuffer' = outputBuffer \/ outputBuffer' = outputBuffer \o rest
        /\ ~fault => outputBuffer' = outputBuffer \o rest
    BY <2>1, <1>4, SMTT(30) DEF BufferRemaining, ByteSeqs
  <2>4. {outputBuffer', accepted', wire'} \subseteq ByteSeqs
    <3>1. \A a, b \in ByteSeqs : a \o b \in ByteSeqs
      BY DEF ByteSeqs
    <3> QED
      BY <1>2, <1>3, <1>4, <2>1, <2>3, <3>1
  <2>5. /\ sock' \in SockType /\ SameStream
        /\ sock'.error => sock.error
        /\ sock'.room <= sock.room /\ (IsWriting(ch) => sock'.room = sock.room)
    <3>1. sock' = [sock EXCEPT !.room = sock.room - n, !.error = sock.error /\ ~fault]
      BY <2>1
    <3>2. sock.room - n \in 0 .. Room /\ (sock.error /\ ~fault) \in BOOLEAN
      BY <1>1, ConnectionAssumption DEF TypeOK
    <3> DEFINE r == sock.room - n
               e == sock.error /\ ~fault
    <3>3. /\ r \in 0 .. Room /\ r <= sock.room /\ (IsWriting(ch) => r = sock.room)
          /\ e \in BOOLEAN /\ (e => sock.error) /\ sock' = [sock EXCEPT !.room = r, !.error = e]
      BY <1>1, <3>1, <3>2
    <3> HIDE DEF r, e
    <3>4. sock \in SockType
      BY DEF TypeOK, SockType
    <3>5. sock' \in SockType /\ sock'.room = r /\ sock'.error = e /\ SameStream
      BY <3>3, <3>4 DEF SockType, SameStream
    <3> QED
      BY <3>3, <3>5
  <2>6. \/ ch' = ch /\ outputBuffer' = outputBuffer
        \/ IsWriting(ch') /\ ch'.events = ch.events \cup {"out"}
    <3>1. EnableWriting(ch).events = ch.events \cup {"out"}
      BY ChannelEvents DEF Good, TypeOK
    <3>2. CASE fault \/ rest = <<>>
      BY <2>1, <3>2
    <3>3. CASE ~(fault \/ rest = <<>>)
      <4>1. ch' = IF IsWriting(ch) THEN ch ELSE EnableWriting(ch)
        BY <2>1, <3>3 DEF BufferRemaining
      <4> QED
        BY <4>1, <3>1 DEF IsWriting
    <3> QED
      BY <3>2, <3>3
  <2>7. ASSUME outputBuffer = <<>> \/ IsWriting(ch), CanWrite,
               accepted = wire \o outputBuffer
        PROVE  accepted' = wire' \o outputBuffer'
    <3>1. ~fault
      BY <2>7 DEF fault
    <3>2. accepted' = (wire \o outputBuffer) \o (sub \o rest)
          /\ wire' \o outputBuffer' = (wire \o sub) \o (outputBuffer \o rest)
      BY <2>1, <2>3, <2>7, <3>1, <1>3
    <3>3. CASE outputBuffer = <<>>
      <4>1. wire \o <<>> = wire /\ <<>> \o rest = rest
        BY <1>3, <1>4 DEF ByteSeqs
      <4>2. wire \o (sub \o rest) = (wire \o sub) \o rest
        <5>1. \A a, b, c \in ByteSeqs : (a \o b) \o c = a \o (b \o c)
          BY ConcatAssociative, SMTT(30) DEF ByteSeqs
        <5> QED
          BY <1>3, <1>4, <5>1
      <4> QED
        BY <3>2, <3>3, <4>1, <4>2
    <3>4. CASE IsWriting(ch)
      <4>1. sub = <<>>
        BY <1>1, <1>3, <3>4
      <4> QED
        BY <1>3, <1>4, <3>2, <4>1, SMTT(30) DEF ByteSeqs
    <3> QED
      BY <2>7, <3>3, <3>4
  <2> QED
    BY <1>6, <2>2, <2>4, <2>5, <2>6, <2>7
<1> QED
  BY <1>5, <1>6

-----------------------------------------------------------------------------
(* Every step keeps the types.                                             *)

\* What is bound without a message is a functor.
LEMMA PlainFunctors ==
  \A f \in Holding \cup {"shutdownInLoop", "forceCloseInLoop"} :
    Functor(f) \in Functors /\ Functor(f).call = f
  BY DEF Functor, Functors, Holding, Raw

\* The queue after a push and after the call of its head.
LEMMA QueueSteps ==
  ASSUME NEW x \in Seq(Functors)
  PROVE  /\ \A f \in Functors :
              /\ Append(x, f) \in Seq(Functors) /\ Append(x, f) # <<>>
              /\ DOMAIN Append(x, f) = 1 .. Len(x) + 1
              /\ Append(x, f)[Len(x) + 1] = f
              /\ \A i \in DOMAIN x : i \in 1 .. Len(x) /\ Append(x, f)[i] = x[i]
              /\ \A i \in DOMAIN Append(x, f) : i \in DOMAIN x \/ i = Len(x) + 1
              /\ x # <<>> => Head(Append(x, f)) = Head(x)
         /\ x # <<>> => /\ Tail(x) \in Seq(Functors) /\ Head(x) \in Functors
                        /\ Head(x) = x[1] /\ 1 \in DOMAIN x
                        /\ \A i \in DOMAIN Tail(x) : /\ i \in Nat /\ i >= 1 /\ i + 1 \in DOMAIN x
                                                     /\ Tail(x)[i] = x[i + 1]
                        /\ \A i \in DOMAIN x : i = 1 \/ (i - 1 \in DOMAIN Tail(x) /\ i \in Nat)
<1>1. ASSUME NEW f \in Functors
      PROVE  /\ Append(x, f) \in Seq(Functors) /\ Append(x, f) # <<>>
             /\ DOMAIN Append(x, f) = 1 .. Len(x) + 1
             /\ Append(x, f)[Len(x) + 1] = f
             /\ \A i \in DOMAIN x : i \in 1 .. Len(x) /\ Append(x, f)[i] = x[i]
             /\ \A i \in DOMAIN Append(x, f) : i \in DOMAIN x \/ i = Len(x) + 1
             /\ x # <<>> => Head(Append(x, f)) = Head(x)
  <2>1. DOMAIN x = 1 .. Len(x) /\ Len(x) \in Nat
    OBVIOUS
  <2> QED
    BY <2>1
<1>2. ASSUME x # <<>>
      PROVE  /\ Tail(x) \in Seq(Functors) /\ Head(x) \in Functors
             /\ Head(x) = x[1] /\ 1 \in DOMAIN x
             /\ \A i \in DOMAIN Tail(x) : /\ i \in Nat /\ i >= 1 /\ i + 1 \in DOMAIN x
                                          /\ Tail(x)[i] = x[i + 1]
             /\ \A i \in DOMAIN x : i = 1 \/ (i - 1 \in DOMAIN Tail(x) /\ i \in Nat)
  BY <1>2
<1> QED
  BY <1>1, <1>2

\* sendInLoop keeps the types.
LEMMA SendTypes ==
  ASSUME TypeOK, InSync(ch), NEW m \in Messages, NEW x \in Seq(Functors), SendInLoop(m, x)
  PROVE  /\ queue' \in Seq(Functors) /\ sock' \in SockType /\ sock'.unread = sock.unread
         /\ {outputBuffer', accepted', wire'} \subseteq ByteSeqs
<1>1. \A f \in UserCallbacks : Append(x, Functor(f)) \in Seq(Functors)
  BY PlainFunctors, QueueSteps DEF UserCallbacks, Holding
<1> QED
  BY <1>1, SendEffect DEF SameStream

LEMMA TypeStep ==
  ASSUME TypeOK, InSync(ch), [Next]_vars
  PROVE  TypeOK'
<1>1. ch' \in ChannelType
  BY ChannelStep DEF Good, TypeOK
<1>2. /\ queue \in Seq(Functors) /\ sock \in SockType /\ sock.unread \in Nat
      /\ {outputBuffer, accepted, wire} \subseteq ByteSeqs
  BY DEF TypeOK, SockType, ByteSeqs
<1>3. CASE Peer
  <2>1. sock' \in SockType
    <3>1. CASE PeerReads
      <4>1. sock.room + 1 \in 0 .. Room
        BY <1>2, <3>1, ConnectionAssumption DEF PeerReads, SockType
      <4> QED
        BY <1>2, <3>1, <4>1 DEF PeerReads, SockType
    <3>2. CASE PeerSends
      BY <1>2, <3>2 DEF PeerSends, SockType
    <3>3. CASE PeerCloses
      BY <1>2, <3>3 DEF PeerCloses, SockType
    <3>4. CASE PeerResets
      BY <1>2, <3>4 DEF PeerResets, SockType
    <3> QED
      BY <1>3, <3>1, <3>2, <3>3, <3>4 DEF Peer
  <2>2. sock'.unread = sock.unread \/ (/\ sock'.unread = sock.unread + 1
                                       /\ sock.unread + inputBytes < MaxInput)
    BY <1>2, <1>3 DEF Peer, PeerSends, PeerReads, PeerCloses, PeerResets, SockType
  <2>3. sock'.unread + inputBytes <= MaxInput
    BY <1>2, <2>2, ConnectionAssumption DEF TypeOK
  <2>4. PeerUnchanged
    BY <1>3 DEF Peer, PeerSends, PeerReads, PeerCloses, PeerResets
  <2> QED
    BY <1>1, <2>1, <2>3, <2>4 DEF TypeOK, PeerUnchanged, SockType, userVars, ownerVars, sendVars
<1>4. CASE Poll \/ UserReads \/ ConnectionCallbackReturns
  <2>1. CASE Poll
    <3>1. Reported \subseteq Events \cup {"err", "hup"}
      BY DEF Reported, Available, Events
    <3> QED
      BY <1>1, <2>1, <3>1 DEF TypeOK, Poll, userVars, ownerVars, sendVars
  <2>2. CASE UserReads
    BY <1>1, <2>2, ConnectionAssumption DEF TypeOK, UserReads, userVars, ownerVars, sendVars
  <2>3. CASE ConnectionCallbackReturns
    BY <1>1, <2>3 DEF TypeOK, ConnectionCallbackReturns, userVars, ownerVars, sendVars
  <2> QED
    BY <1>4, <2>1, <2>2, <2>3
<1>5. CASE Dispatch
  <2>1. CASE HandleEvent \/ HandleHup \/ MessageReturns \/ OnWriteDown \/ DispatchReturns
    BY <1>1, <2>1
      DEF TypeOK, HandleEvent, HandleHup, MessageReturns, OnWriteDown, DispatchReturns,
          userVars, ownerVars, sendVars
  <2>2. CASE HandleError \/ OnReadClose
    <3>1. sock' \in SockType /\ sock'.unread = sock.unread
      BY <1>2, <2>2 DEF HandleError, OnReadClose, SockType
    <3>2. rev' \subseteq rev /\ removals' \in Nat /\ closes' \in Nat /\ m_state' \in States
      BY <2>2 DEF TypeOK, HandleError, OnReadClose, Close, CallOwner, States
    <3>3. /\ UNCHANGED <<pc, queue, inputBytes, owner>>
          /\ UNCHANGED <<userVars, sendVars>>
      BY <2>2 DEF HandleError, OnReadClose, Close, CallOwner
    <3> QED
      BY <1>1, <3>1, <3>2, <3>3 DEF TypeOK, SockType, userVars, sendVars
  <2>3. CASE OnReadMessage
    <3>1. sock' \in SockType /\ sock'.unread = 0 /\ inputBytes' = inputBytes + sock.unread
      BY <1>2, <2>3 DEF OnReadMessage, SockType
    <3>2. inputBytes' \in Nat /\ sock'.unread + inputBytes' <= MaxInput
      BY <1>2, <3>1, ConnectionAssumption DEF TypeOK
    <3> QED
      BY <1>1, <2>3, <3>1, <3>2
        DEF TypeOK, OnReadMessage, SockType, userVars, ownerVars, sendVars
  <2>4. CASE OnWrite
    <3> DEFINE n == Taken(Len(outputBuffer))
    <3>1. n \in 0 .. Len(outputBuffer) /\ n <= sock.room
      BY <1>2 DEF Taken, ByteSeqs, SockType
    <3> HIDE DEF n
    <3>2. /\ SubSeq(outputBuffer, 1, n) \in ByteSeqs
          /\ SubSeq(outputBuffer, n + 1, Len(outputBuffer)) \in ByteSeqs
      BY <1>2, <3>1, CutInTwo DEF ByteSeqs
    <3>3. /\ wire' = wire \o SubSeq(outputBuffer, 1, n)
          /\ sock' = [sock EXCEPT !.room = @ - n]
          /\ outputBuffer' = SubSeq(outputBuffer, n + 1, Len(outputBuffer))
          /\ queue' = queue \/ queue' = Append(queue, Functor("writeCompleteCallback"))
          /\ accepted' = accepted
      BY <2>4, Zenon DEF OnWrite, n
    <3>4. {outputBuffer', accepted', wire'} \subseteq ByteSeqs
      BY <1>2, <3>2, <3>3, SMTT(30) DEF ByteSeqs
    <3>5. queue' \in Seq(Functors)
      <4>1. Functor("writeCompleteCallback") \in Functors
        BY PlainFunctors DEF Holding
      <4>2. Append(queue, Functor("writeCompleteCallback")) \in Seq(Functors)
        BY <1>2, <4>1
      <4> QED
        BY <1>2, <3>3, <4>2
    <3>6. sock' \in SockType /\ sock'.unread = sock.unread
      <4>1. sock.room - n \in 0 .. Room
        BY <1>2, <3>1, ConnectionAssumption DEF SockType
      <4> QED
        BY <1>2, <3>3, <4>1 DEF SockType
    <3> QED
      BY <1>1, <2>4, <3>4, <3>5, <3>6
        DEF TypeOK, OnWrite, SockType, ByteSeqs, userVars, ownerVars
  <2>5. CASE OnWriteFails
    <3>1. queue' \in Seq(Functors)
      BY <1>2, <2>5, PlainFunctors, QueueSteps DEF OnWriteFails, Holding
    <3>2. (sock.error /\ CanWrite) \in BOOLEAN
      BY DEF CanWrite
    <3>3. sock' \in SockType /\ sock'.unread = sock.unread
      BY <1>2, <2>5, <3>2 DEF OnWriteFails, SockType
    <3> QED
      BY <1>1, <2>5, <3>1, <3>3
        DEF TypeOK, OnWriteFails, SockType, ByteSeqs, userVars, ownerVars
  <2> QED
    BY <1>5, <2>1, <2>2, <2>3, <2>4, <2>5 DEF Dispatch
<1>6. CASE RunFunctor
  <2>1. queue # <<>> /\ Tail(queue) \in Seq(Functors) /\ Head(queue) \in Functors
    BY <1>2, <1>6, QueueSteps
      DEF RunFunctor, RunEstablish, RunSend, RunShutdown, RunForceClose, RunDestroy,
          RunUserCallback, Runs
  <2>2. CASE RunSend
    <3>1. Head(queue).message \in Messages
      BY <2>1, <2>2 DEF RunSend, Runs, Functors
    <3>2. /\ queue' \in Seq(Functors) /\ sock' \in SockType /\ sock'.unread = sock.unread
          /\ {outputBuffer', accepted', wire'} \subseteq ByteSeqs
      BY <2>1, <2>2, <3>1, SendTypes DEF RunSend
    <3> QED
      BY <1>1, <2>2, <3>2 DEF TypeOK, RunSend, SockType, ByteSeqs, userVars, ownerVars
  <2>3. CASE RunEstablish \/ RunUserCallback \/ RunDestroy
    BY <1>1, <2>1, <2>3
      DEF TypeOK, RunEstablish, RunUserCallback, RunDestroy, OnConnectionDestroy, userVars,
          ownerVars, sendVars,
          States
  <2>4. CASE RunShutdown
    <3>1. sock' \in SockType /\ sock'.unread = sock.unread
      BY <1>2, <2>4 DEF RunShutdown, ShutdownInLoop, SockType, IsWriting
    <3> QED
      BY <1>1, <2>1, <2>4, <3>1 DEF TypeOK, RunShutdown, SockType, userVars, ownerVars, sendVars
  <2>5. CASE RunForceClose
    BY <1>1, <2>1, <2>5, SMTT(30)
      DEF TypeOK, RunForceClose, Close, CallOwner, userVars, ownerVars, sendVars, States
  <2> QED
    BY <1>6, <2>2, <2>3, <2>4, <2>5 DEF RunFunctor
<1>7. CASE OwnerRemoves \/ OwnerDisposes
  <2>1. queue' \in Seq(Functors)
    <3>1. Functor("onConnectionDestroy") \in Functors
      BY PlainFunctors DEF Holding
    <3> QED
      BY <1>2, <1>7, <3>1 DEF OwnerRemoves, OwnerDisposes
  <2> QED
    BY <1>1, <1>7, <2>1, SMTT(30) DEF TypeOK, OwnerRemoves, OwnerDisposes, userVars, sendVars
<1>12. CASE OwnerDisposesInLoop
  BY <1>1, <1>12
    DEF TypeOK, OwnerDisposesInLoop, OnConnectionDestroy, userVars, sendVars, States
<1>8. ASSUME NEW m \in Messages, LoopSend(m) PROVE TypeOK'
  <2>1. /\ queue' \in Seq(Functors) /\ sock' \in SockType /\ sock'.unread = sock.unread
        /\ {outputBuffer', accepted', wire'} \subseteq ByteSeqs
    BY <1>2, <1>8, SendTypes DEF LoopSend
  <2> QED
    BY <1>1, <1>8, <2>1 DEF TypeOK, LoopSend, SockType, ByteSeqs, ownerVars
<1>9. CASE LoopShutdown \/ LoopForceClose
  <2>1. queue' \in Seq(Functors)
    BY <1>2, <1>9, PlainFunctors, QueueSteps DEF LoopShutdown, LoopForceClose
  <2>2. sock' \in SockType /\ sock'.unread = sock.unread
    BY <1>2, <1>9 DEF LoopShutdown, LoopForceClose, ShutdownInLoop, SockType, IsWriting
  <2> QED
    BY <1>1, <1>9, <2>1, <2>2, ConnectionAssumption, SMTT(30)
      DEF TypeOK, LoopShutdown, LoopForceClose, SockType, ownerVars, sendVars, States
<1>10. ASSUME NEW t \in Threads, ThreadStep(t) PROVE TypeOK'
  <2>1. ASSUME NEW m \in Messages, BeginSend(t, m) PROVE TypeOK'
    <3>1. [call |-> "sendInLoop", message |-> m, stored |-> TRUE] \in Calls
      BY DEF Calls, Raw
    <3> QED
      BY <1>1, <2>1, <3>1
        DEF TypeOK, BeginSend, ThreadUnchanged, ownerVars, sendVars
  <2>2. CASE BeginShutdown(t) \/ BeginForceClose(t)
    <3>1. /\ [call |-> "shutdownInLoop", message |-> "none", stored |-> FALSE] \in Calls
          /\ [call |-> "forceCloseInLoop", message |-> "none", stored |-> FALSE] \in Calls
      BY DEF Calls, Raw
    <3>2. calls' \in 0 .. MaxCalls
      BY <2>2, ConnectionAssumption DEF TypeOK, BeginShutdown, BeginForceClose
    <3>3. tpc' \in [Threads -> {Idle} \cup Calls]
      BY <2>2, <3>1 DEF TypeOK, BeginShutdown, BeginForceClose
    <3>4. UNCHANGED <<queue, m_state, sent>> /\ ThreadUnchanged
      BY <2>2 DEF BeginShutdown, BeginForceClose
    <3> QED
      BY <1>1, <3>2, <3>3, <3>4 DEF TypeOK, ThreadUnchanged, ownerVars, sendVars
  <2>3. CASE StoreState(t)
    <3>1. tpc[t] \in Calls
      BY <2>3 DEF TypeOK, StoreState
    <3>2. [tpc[t] EXCEPT !.stored = TRUE] \in Calls
      BY <3>1 DEF Calls
    <3>3. tpc' = [tpc EXCEPT ![t] = [tpc[t] EXCEPT !.stored = TRUE]]
      BY <2>3 DEF StoreState
    <3> QED
      BY <1>1, <2>3, <3>2, <3>3
        DEF TypeOK, StoreState, ThreadUnchanged, ownerVars, sendVars, States
  <2>4. CASE PushFunctor(t)
    <3>1. tpc[t] \in Calls
      BY <2>4 DEF TypeOK, PushFunctor
    <3>2. [call |-> tpc[t].call, message |-> tpc[t].message] \in Functors
      BY <3>1 DEF Calls, Functors
    <3>3. queue' \in Seq(Functors)
      BY <1>2, <2>4, <3>2, QueueSteps DEF PushFunctor
    <3> QED
      BY <1>1, <2>4, <3>3 DEF TypeOK, PushFunctor, ThreadUnchanged, ownerVars, sendVars
  <2> QED
    BY <1>10, <2>1, <2>2, <2>3, <2>4 DEF ThreadStep
<1>11. CASE UNCHANGED vars
  BY <1>11 DEF TypeOK, vars
<1> QED
  BY <1>3, <1>4, <1>5, <1>6, <1>7, <1>8, <1>9, <1>10, <1>11, <1>12 DEF Next

-----------------------------------------------------------------------------
(* What happens to the queue.                                              *)

LEMMA CallsAfter ==
  ASSUME NEW x \in Seq(Functors)
  PROVE  /\ \A f \in Functors : CallsIn(Append(x, f)) = CallsIn(x) \cup {f.call}
         /\ x # <<>> => CallsIn(Tail(x)) \subseteq CallsIn(x)
<1>1. ASSUME NEW f \in Functors
      PROVE  CallsIn(Append(x, f)) = CallsIn(x) \cup {f.call}
  <2> DEFINE y == Append(x, f)
  <2>1. /\ DOMAIN y = 1 .. Len(x) + 1 /\ y[Len(x) + 1] = f /\ Len(x) \in Nat
        /\ \A i \in DOMAIN x : i \in DOMAIN y /\ y[i] = x[i]
        /\ \A i \in DOMAIN y : i \in DOMAIN x \/ i = Len(x) + 1
    OBVIOUS
  <2>2. Len(x) + 1 \in DOMAIN y
    BY <2>1
  <2> HIDE DEF y
  <2>3. CallsIn(y) \subseteq CallsIn(x) \cup {f.call}
    BY <2>1 DEF CallsIn
  <2>4. CallsIn(x) \subseteq CallsIn(y) /\ f.call \in CallsIn(y)
    BY <2>1, <2>2 DEF CallsIn
  <2> QED
    BY <2>3, <2>4 DEF y
<1>2. ASSUME x # <<>>
      PROVE  CallsIn(Tail(x)) \subseteq CallsIn(x)
  <2>1. \A i \in DOMAIN Tail(x) : i + 1 \in DOMAIN x /\ Tail(x)[i] = x[i + 1]
    BY <1>2
  <2> QED
    BY <2>1 DEF CallsIn
<1> QED
  BY <1>1, <1>2

LEMMA SendCalls ==
  ASSUME TypeOK, InSync(ch), NEW m \in Messages, NEW x \in Seq(Functors), SendInLoop(m, x)
  PROVE  CallsIn(queue') \subseteq CallsIn(x) \cup UserCallbacks
<1>1. ASSUME NEW f \in UserCallbacks
      PROVE  CallsIn(Append(x, Functor(f))) \subseteq CallsIn(x) \cup UserCallbacks
  <2>1. Functor(f) \in Functors /\ Functor(f).call = f
    BY PlainFunctors DEF UserCallbacks, Holding
  <2> QED
    BY <2>1, CallsAfter
<1> QED
  BY <1>1, SendEffect

\* What may join the queue in a step.
LEMMA QueueChange ==
  ASSUME TypeOK, InSync(ch), [Next]_vars
  PROVE  \A g \in CallsIn(queue') :
           \/ g \in CallsIn(queue) \cup UserCallbacks
           \/ g = "onConnectionDestroy" /\ owner' # "holds"
           \/ g \in Raw /\ (Threads # {} \/ m_state' = "kDisconnecting")
<1>1. queue \in Seq(Functors)
  BY DEF TypeOK
<1>2. ASSUME queue' = queue PROVE CallsIn(queue') \subseteq CallsIn(queue)
  BY <1>2
<1>3. ASSUME NEW f \in Holding \cup {"forceCloseInLoop"}, queue' = Append(queue, Functor(f))
      PROVE  CallsIn(queue') = CallsIn(queue) \cup {f}
  <2>1. Functor(f) \in Functors /\ Functor(f).call = f
    BY PlainFunctors
  <2> QED
    BY <1>1, <1>3, <2>1, CallsAfter
<1>4. CASE Peer \/ Poll \/ UserReads \/ ConnectionCallbackReturns \/ UNCHANGED vars
  BY <1>2, <1>4
    DEF Peer, PeerSends, PeerReads, PeerCloses, PeerResets, PeerUnchanged, Poll, UserReads,
        ConnectionCallbackReturns, vars
<1>5. CASE Dispatch
  <2>1. queue' = queue \/ queue' = Append(queue, Functor("writeCompleteCallback"))
    BY <1>5
      DEF Dispatch, HandleEvent, HandleHup, HandleError, OnReadMessage, OnReadClose,
          MessageReturns, OnWrite, OnWriteFails, OnWriteDown, DispatchReturns
  <2> QED
    BY <1>2, <1>3, <2>1 DEF UserCallbacks, Holding
<1>6. CASE RunFunctor
  <2>1. queue # <<>> /\ Head(queue) \in Functors /\ Tail(queue) \in Seq(Functors)
        /\ CallsIn(Tail(queue)) \subseteq CallsIn(queue)
    BY <1>1, <1>6, QueueSteps, CallsAfter
      DEF RunFunctor, RunEstablish, RunSend, RunShutdown, RunForceClose, RunDestroy,
          RunUserCallback, Runs
  <2>2. CASE RunSend
    <3>1. Head(queue).message \in Messages
      BY <2>1, <2>2 DEF RunSend, Runs, Functors
    <3> QED
      BY <2>1, <2>2, <3>1, SendCalls DEF RunSend
  <2>3. CASE RunEstablish \/ RunShutdown \/ RunForceClose \/ RunDestroy \/ RunUserCallback
    BY <2>1, <2>3 DEF RunEstablish, RunShutdown, RunForceClose, RunDestroy, RunUserCallback
  <2> QED
    BY <1>6, <2>2, <2>3 DEF RunFunctor
<1>7. CASE OwnerRemoves \/ OwnerDisposes
  <2>1. queue' = Append(queue, Functor("onConnectionDestroy")) /\ owner' # "holds"
    BY <1>7 DEF OwnerRemoves, OwnerDisposes
  <2> QED
    BY <1>3, <2>1 DEF Holding
<1>11. CASE OwnerDisposesInLoop
  BY <1>2, <1>11 DEF OwnerDisposesInLoop
<1>8. ASSUME NEW m \in Messages, LoopSend(m)
      PROVE  CallsIn(queue') \subseteq CallsIn(queue) \cup UserCallbacks
  BY <1>1, <1>8, SendCalls DEF LoopSend
<1>9. CASE LoopShutdown \/ LoopForceClose
  BY <1>2, <1>3, <1>9 DEF LoopShutdown, LoopForceClose, Raw
<1>10. ASSUME NEW t \in Threads, ThreadStep(t)
       PROVE  CallsIn(queue') \subseteq CallsIn(queue) \cup Raw
  <2>1. CASE PushFunctor(t)
    <3> DEFINE f == [call |-> tpc[t].call, message |-> tpc[t].message]
    <3>1. f \in Functors /\ f.call \in Raw
      BY <2>1 DEF TypeOK, PushFunctor, Calls, Functors
    <3> HIDE DEF f
    <3>2. CallsIn(Append(queue, f)) = CallsIn(queue) \cup {f.call}
      BY <1>1, <3>1, CallsAfter
    <3>3. queue' = Append(queue, f)
      BY <2>1 DEF PushFunctor, f
    <3> QED
      BY <3>1, <3>2, <3>3
  <2>2. CASE ~PushFunctor(t)
    BY <1>2, <1>10, <2>2
      DEF ThreadStep, BeginSend, BeginShutdown, BeginForceClose, StoreState
  <2> QED
    BY <2>1, <2>2
<1> QED
  BY <1>4, <1>5, <1>6, <1>7, <1>8, <1>9, <1>10, <1>11 DEF Next

LEMMA StartStep ==
  ASSUME TypeOK, InSync(ch), StartInv, [Next]_vars
  PROVE  StartInv' /\ (m_state # "kConnecting" => m_state' # "kConnecting")
<1>1. queue \in Seq(Functors)
  BY DEF TypeOK
<1>2. /\ "onConnectionEstablish" \notin UserCallbacks \cup Raw
      /\ "onConnectionDestroy" \notin UserCallbacks \cup Raw
  BY DEF UserCallbacks, Raw
<1>3. owner' = "holds" => owner = "holds" /\ ~Queued("onConnectionDestroy")'
  <2>1. owner' = "holds" => owner = "holds"
    BY DEF Next, Peer, PeerSends, PeerReads, PeerCloses, PeerResets, PeerUnchanged, Poll,
           Dispatch, HandleEvent, HandleHup, HandleError, OnReadMessage, OnReadClose, Close,
           CallOwner, MessageReturns, OnWrite, OnWriteFails, OnWriteDown, DispatchReturns,
           UserReads, RunFunctor, RunEstablish, RunSend, RunShutdown, RunForceClose,
           RunDestroy, OnConnectionDestroy, RunUserCallback,
           ConnectionCallbackReturns, OwnerRemoves,
           OwnerDisposes, OwnerDisposesInLoop, LoopSend, LoopShutdown, LoopForceClose,
           ThreadStep, BeginSend,
           BeginShutdown, BeginForceClose, StoreState, PushFunctor, ThreadUnchanged,
           ownerVars, vars
  <2> QED
    BY <1>2, <2>1, QueueChange DEF StartInv, Queued
<1>4. pc' \in {"idle", "connection"} => rev' = {}
  <2>1. CASE Dispatch
    BY <2>1
      DEF Dispatch, HandleEvent, HandleHup, HandleError, OnReadMessage, OnReadClose,
          MessageReturns, OnWrite, OnWriteFails, OnWriteDown, DispatchReturns, ReadTurn, WriteTurn
  <2>2. CASE Poll
    BY <2>2 DEF Poll
  <2>3. CASE ~Dispatch /\ ~Poll
    <3>1. rev' = rev
      BY <2>3
        DEF Next, Peer, PeerSends, PeerReads, PeerCloses, PeerResets, PeerUnchanged,
            UserReads, RunFunctor, RunEstablish, RunSend, RunShutdown, RunForceClose,
            RunDestroy, OnConnectionDestroy, RunUserCallback,
            ConnectionCallbackReturns, OwnerRemoves,
            OwnerDisposes, OwnerDisposesInLoop, LoopSend, LoopShutdown, LoopForceClose,
            ThreadStep, BeginSend,
            BeginShutdown, BeginForceClose, StoreState, PushFunctor, ThreadUnchanged, vars
    <3>2. pc' = pc \/ pc \in {"idle", "connection"}
      BY <2>3
        DEF Next, Peer, PeerSends, PeerReads, PeerCloses, PeerResets, PeerUnchanged,
            UserReads, RunFunctor, RunEstablish, RunSend, RunShutdown, RunForceClose,
            RunDestroy, OnConnectionDestroy, RunUserCallback,
            ConnectionCallbackReturns, OwnerRemoves, Runs,
            OwnerDisposes, OwnerDisposesInLoop, LoopSend, LoopShutdown, LoopForceClose,
            ThreadStep, BeginSend,
            BeginShutdown, BeginForceClose, StoreState, PushFunctor, ThreadUnchanged, vars
    <3> QED
      BY <3>1, <3>2 DEF StartInv
  <2> QED
    BY <2>1, <2>2, <2>3
<1>5. CASE m_state # "kConnecting"
  <2>1. m_state' # "kConnecting"
    BY <1>5
      DEF Next, Peer, PeerSends, PeerReads, PeerCloses, PeerResets, PeerUnchanged, Poll,
          Dispatch, HandleEvent, HandleHup, HandleError, OnReadMessage, OnReadClose, Close,
          MessageReturns, OnWrite, OnWriteFails, OnWriteDown, DispatchReturns,
          UserReads, RunFunctor, RunEstablish, RunSend, RunShutdown, RunForceClose,
          RunDestroy, OnConnectionDestroy, RunUserCallback,
          ConnectionCallbackReturns, OwnerRemoves,
          OwnerDisposes, OwnerDisposesInLoop, LoopSend, LoopShutdown, LoopForceClose, ThreadStep,
          BeginSend,
          BeginShutdown, BeginForceClose, StoreState, PushFunctor, ThreadUnchanged, vars
  <2>2. ~Queued("onConnectionEstablish")'
    BY <1>2, <1>5, QueueChange DEF StartInv, Queued
  <2> QED
    BY <1>3, <1>4, <2>1, <2>2 DEF StartInv
<1>6. CASE m_state = "kConnecting"
  <2>1. /\ queue # <<>> /\ Head(queue).call = "onConnectionEstablish"
        /\ "onConnectionEstablish" \notin CallsIn(Tail(queue))
        /\ pc = "idle" /\ rev = {} /\ outputBuffer = <<>> /\ ch = NewChannel /\ ~ch.registered
        /\ \A t \in Threads : tpc[t] = Idle
    BY <1>6 DEF StartInv, NewChannel
  <2>2. CASE RunEstablish
    BY <1>3, <1>4, <2>1, <2>2 DEF StartInv, RunEstablish, Queued
  <2>3. CASE OwnerRemoves \/ OwnerDisposes
    <3> DEFINE f == Functor("onConnectionDestroy")
    <3>1. f \in Functors /\ f.call = "onConnectionDestroy" /\ queue' = Append(queue, f)
      BY <2>3, PlainFunctors DEF Holding, OwnerRemoves, OwnerDisposes
    <3> HIDE DEF f
    <3>2. /\ queue' # <<>> /\ Head(queue') = Head(queue) /\ Tail(queue') = Append(Tail(queue), f)
          /\ Tail(queue) \in Seq(Functors)
      BY <1>1, <2>1, <3>1
    <3>3. CallsIn(Tail(queue')) = CallsIn(Tail(queue)) \cup {f.call}
      BY <3>1, <3>2, CallsAfter
    <3>4. "onConnectionEstablish" \notin CallsIn(Tail(queue'))
      BY <2>1, <3>1, <3>3
    <3>5. UNCHANGED <<pc, rev, m_state, ch, outputBuffer, tpc>>
      BY <2>3 DEF OwnerRemoves, OwnerDisposes, userVars, sendVars
    <3>6. CallsIn(Tail(queue))' = CallsIn(Tail(queue')) 
      BY DEF CallsIn
    <3> QED
      BY <1>3, <1>4, <1>6, <2>1, <3>2, <3>4, <3>5, <3>6 DEF StartInv
  <2>4. CASE Peer \/ UNCHANGED vars
    <3>1. UNCHANGED <<pc, rev, queue, m_state, ch, outputBuffer, owner, tpc>>
      BY <2>4 DEF Peer, PeerSends, PeerReads, PeerCloses, PeerResets, PeerUnchanged, userVars,
                  ownerVars, sendVars, vars
    <3> QED
      BY <3>1 DEF StartInv, Queued, CallsIn
  <2>5. \/ RunEstablish \/ OwnerRemoves \/ OwnerDisposes \/ Peer \/ UNCHANGED vars
    <3>1. ~Poll /\ ~Dispatch /\ ~UserReads /\ ~ConnectionCallbackReturns
      BY <2>1 DEF Poll, UserReads, ConnectionCallbackReturns, Dispatch, HandleEvent, HandleHup,
                  HandleError, OnReadMessage, OnReadClose, MessageReturns, OnWrite,
                  OnWriteFails, OnWriteDown, DispatchReturns, ReadTurn, WriteTurn
    <3>2. RunFunctor => RunEstablish
      BY <2>1 DEF RunFunctor, RunSend, RunShutdown, RunForceClose, RunDestroy, RunUserCallback,
                  Runs
    <3>3. (\A m \in Messages : ~LoopSend(m)) /\ ~LoopShutdown /\ ~LoopForceClose
      BY <1>6 DEF LoopSend, LoopShutdown, LoopForceClose
    <3>4. \A t \in Threads : ~ThreadStep(t)
      BY <1>6, <2>1 DEF ThreadStep, BeginSend, BeginShutdown, BeginForceClose, StoreState,
                        PushFunctor
    <3>5. ~OwnerDisposesInLoop
      BY <1>6 DEF OwnerDisposesInLoop
    <3> QED
      BY <3>1, <3>2, <3>3, <3>4, <3>5 DEF Next
  <2> QED
    BY <1>6, <2>2, <2>3, <2>4, <2>5
<1> QED
  BY <1>5, <1>6

-----------------------------------------------------------------------------
(* Threads that only send.                                                 *)

\* They leave the state alone.
LEMMA SendersOnly ==
  ASSUME SendersInv, NEW t \in Threads, ThreadStep(t)
  PROVE  m_state' = m_state \/ OthersClose
  BY DEF SendersInv, ThreadStep, BeginSend, BeginShutdown, BeginForceClose, StoreState,
         PushFunctor

LEMMA SendersStep ==
  ASSUME TypeOK, SendersInv, [Next]_vars
  PROVE  SendersInv'
<1> SUFFICES ASSUME ~OthersClose PROVE \A t \in Threads : (tpc[t] = Idle \/ tpc[t].stored)'
  BY DEF SendersInv
<1>1. CASE UNCHANGED tpc
  BY <1>1 DEF SendersInv
<1>2. ASSUME NEW t \in Threads, ThreadStep(t)
      PROVE  \A u \in Threads : (tpc[u] = Idle \/ tpc[u].stored)'
  <2>1. tpc' = tpc \/ \E c : tpc' = [tpc EXCEPT ![t] = c] /\ (c = Idle \/ c.stored)
    BY <1>2 DEF SendersInv, OthersClose, ThreadStep, BeginSend, BeginShutdown,
                BeginForceClose, StoreState, PushFunctor
  <2> QED
    BY <2>1 DEF SendersInv, TypeOK
<1>3. UNCHANGED tpc \/ \E t \in Threads : ThreadStep(t)
  BY DEF Next, Peer, PeerSends, PeerReads, PeerCloses, PeerResets, PeerUnchanged, Poll,
         Dispatch, HandleEvent, HandleHup, HandleError, OnReadMessage, OnReadClose,
         MessageReturns, OnWrite, OnWriteFails, OnWriteDown, DispatchReturns,
         UserReads, RunFunctor, RunEstablish, RunSend, RunShutdown, RunForceClose,
         RunDestroy, OnConnectionDestroy, RunUserCallback,
         ConnectionCallbackReturns, OwnerRemoves,
         OwnerDisposes, OwnerDisposesInLoop, LoopSend, LoopShutdown, LoopForceClose, userVars,
         vars
<1> QED
  BY <1>1, <1>2, <1>3

-----------------------------------------------------------------------------
(* The output stays in order.                                              *)

\* Closes are counted, and an owner that has let go never takes a connection back.
LEMMA SteadyBefore ==
  ASSUME TypeOK, [Next]_vars
  PROVE  /\ closes' = closes \/ closes' = closes + 1
         /\ owner' = "holds" => owner = "holds"
         /\ Steady' => Steady
<1>1. closes' = closes \/ closes' = closes + 1
  BY DEF Next, Peer, PeerSends, PeerReads, PeerCloses, PeerResets, PeerUnchanged, Poll,
         Dispatch, HandleEvent, HandleHup, HandleError, OnReadMessage, OnReadClose, Close,
         CallOwner, MessageReturns, OnWrite, OnWriteFails, OnWriteDown, DispatchReturns,
         UserReads, RunFunctor, RunEstablish, RunSend, RunShutdown, RunForceClose,
         RunDestroy, OnConnectionDestroy, RunUserCallback,
         ConnectionCallbackReturns, OwnerRemoves,
         OwnerDisposes, OwnerDisposesInLoop, LoopSend, LoopShutdown, LoopForceClose, ThreadStep,
         BeginSend,
         BeginShutdown, BeginForceClose, StoreState, PushFunctor, ThreadUnchanged,
         ownerVars, vars
<1>2. owner' = "holds" => owner = "holds"
  BY DEF Next, Peer, PeerSends, PeerReads, PeerCloses, PeerResets, PeerUnchanged, Poll,
         Dispatch, HandleEvent, HandleHup, HandleError, OnReadMessage, OnReadClose, Close,
         CallOwner, MessageReturns, OnWrite, OnWriteFails, OnWriteDown, DispatchReturns,
         UserReads, RunFunctor, RunEstablish, RunSend, RunShutdown, RunForceClose,
         RunDestroy, OnConnectionDestroy, RunUserCallback,
         ConnectionCallbackReturns, OwnerRemoves,
         OwnerDisposes, OwnerDisposesInLoop, LoopSend, LoopShutdown, LoopForceClose, ThreadStep,
         BeginSend,
         BeginShutdown, BeginForceClose, StoreState, PushFunctor, ThreadUnchanged,
         ownerVars, vars
<1>3. closes \in Nat
  BY DEF TypeOK
<1> QED
  BY <1>1, <1>2, <1>3 DEF Steady

\* Steps that leave the output alone, and do not take room from the socket.
LEMMA OutputFrame ==
  ASSUME TypeOK, OutputBody, UNCHANGED <<ch, outputBuffer, accepted, wire>>,
         m_state' = m_state \/ m_state' \in {"kDisconnecting", "kConnected"},
         m_state = "kDisconnected" => m_state' = m_state \/ OthersClose,
         rev' \subseteq rev, CanWrite' => CanWrite, sock'.room \in {sock.room, sock.room + 1}
  PROVE  OutputBody'
<1>1. sock.room \in Nat
  BY DEF TypeOK
<1>2. m_state' = "kDisconnected" <=> m_state = "kDisconnected"
  BY DEF OutputBody
<1>3. "out" \in rev' /\ CanWrite' => sock'.room > 0
  <2>1. ASSUME "out" \in rev', CanWrite' PROVE sock.room > 0
    BY <2>1 DEF OutputBody
  <2> QED
    BY <1>1, <2>1
<1> QED
  BY <1>2, <1>3 DEF OutputBody

LEMMA OutputSend ==
  ASSUME TypeOK, InSync(ch), OutputBody, NEW m \in Messages, NEW x \in Seq(Functors),
         SendInLoop(m, x), UNCHANGED <<rev, m_state>>
  PROVE  OutputBody'
<1>1. CASE m_state = "kDisconnected"
  <2>1. UNCHANGED <<ch, sock, outputBuffer, accepted, wire>>
    BY <1>1 DEF SendInLoop
  <2> QED
    BY <2>1 DEF OutputBody, CanWrite
<1>2. CASE m_state # "kDisconnected"
  <2>1. /\ SameStream
        /\ IsWriting(ch) => sock'.room = sock.room
        /\ \/ ch' = ch /\ outputBuffer' = outputBuffer
           \/ IsWriting(ch') /\ ch'.events = ch.events \cup {"out"}
        /\ /\ outputBuffer = <<>> \/ IsWriting(ch)
           /\ CanWrite /\ accepted = wire \o outputBuffer
           => accepted' = wire' \o outputBuffer'
    BY SendEffect
  <2>2. CanWrite' <=> CanWrite
    BY <2>1 DEF SameStream, CanWrite
  <2>3. CanWrite' => accepted' = wire' \o outputBuffer'
    BY <1>2, <2>1, <2>2 DEF OutputBody
  <2>4. outputBuffer' # <<>> \/ "out" \in rev' => IsWriting(ch')
    BY <1>2, <2>1 DEF OutputBody
  <2>5. "out" \in rev' /\ CanWrite' => sock'.room > 0
    BY <1>2, <2>1, <2>2 DEF OutputBody
  <2>6. IsWriting(ch)' <=> IsWriting(ch')
    BY DEF IsWriting
  <2> QED
    BY <1>2, <2>3, <2>4, <2>5, <2>6 DEF OutputBody
<1> QED
  BY <1>1, <1>2

LEMMA OutputStep ==
  ASSUME TypeOK, InSync(ch), StartInv, SendersInv, OutputInv, [Next]_vars
  PROVE  OutputInv'
<1> SUFFICES ASSUME Steady' PROVE OutputBody'
  BY DEF OutputInv, OutputBody
<1>1. OutputBody /\ sock.room \in Nat /\ Good(ch) /\ queue \in Seq(Functors)
      /\ sock \in SockType
  BY SteadyBefore DEF OutputInv, OutputBody, TypeOK, Good, SockType
<1>2. CASE Peer
  <2>1. UNCHANGED <<ch, outputBuffer, accepted, wire, m_state, rev>>
    BY <1>2 DEF Peer, PeerSends, PeerReads, PeerCloses, PeerResets, PeerUnchanged, sendVars
  <2>2. (CanWrite' => CanWrite) /\ sock'.room \in {sock.room, sock.room + 1}
    <3>1. CASE PeerSends
      BY <1>1, <3>1 DEF PeerSends, CanWrite, SockType
    <3>2. CASE PeerReads
      BY <1>1, <3>2 DEF PeerReads, CanWrite, SockType
    <3>3. CASE PeerCloses
      BY <1>1, <3>3 DEF PeerCloses, CanWrite, SockType
    <3>4. CASE PeerResets
      BY <1>1, <3>4 DEF PeerResets, CanWrite, SockType
    <3> QED
      BY <1>2, <3>1, <3>2, <3>3, <3>4 DEF Peer
  <2> QED
    BY <1>1, <2>1, <2>2, OutputFrame
<1>3. CASE Poll
  <2>1. ch.interest = ch.events
    BY <1>3 DEF Poll, InSync
  <2>2. "out" \in Reported => /\ IsWriting(ch)
                              /\ CanWrite => sock.room > 0
    BY <2>1 DEF Reported, Available, IsWriting, CanWrite
  <2> QED
    BY <1>1, <1>3, <2>2 DEF OutputBody, Poll, CanWrite, sendVars
<1>4. CASE HandleError \/ OnReadClose
  <2>1. /\ ch' = DisableAll(ch) /\ m_state' = "kDisconnected" /\ closes' = closes + 1
        /\ UNCHANGED <<outputBuffer, accepted, wire>> /\ rev' \subseteq rev
        /\ sock'.room = sock.room /\ (CanWrite' <=> CanWrite)
    BY <1>1, <1>4
      DEF HandleError, OnReadClose, Close, CallOwner, sendVars, CanWrite, SockType
  <2>2. ~OthersClose
    BY <2>1 DEF Steady, TypeOK
  <2>3. ch'.events = {}
    BY <1>1, <2>1, ChannelEvents
  <2> QED
    BY <1>1, <2>1, <2>2, <2>3 DEF OutputBody
<1>5. CASE RunForceClose
  <2>1. CASE m_state \in {"kConnected", "kDisconnecting"}
    <3>1. /\ ch' = DisableAll(ch) /\ m_state' = "kDisconnected" /\ closes' = closes + 1
          /\ UNCHANGED <<outputBuffer, accepted, wire, rev, sock>>
      BY <1>5, <2>1 DEF RunForceClose, Close, CallOwner, sendVars
    <3>2. ~OthersClose
      BY <3>1 DEF Steady, TypeOK
    <3>3. ch'.events = {}
      BY <1>1, <3>1, ChannelEvents
    <3> QED
      BY <1>1, <3>1, <3>2, <3>3 DEF OutputBody, CanWrite
  <2>2. CASE m_state \notin {"kConnected", "kDisconnecting"}
    <3>1. UNCHANGED <<ch, outputBuffer, accepted, wire, m_state, rev, sock>>
      BY <1>5, <2>2 DEF RunForceClose, sendVars
    <3> QED
      BY <1>1, <3>1 DEF OutputBody, CanWrite
  <2> QED
    BY <2>1, <2>2
<1>6. CASE OnWrite
  <2> DEFINE n == Taken(Len(outputBuffer))
             sub == SubSeq(outputBuffer, 1, n)
             rest == SubSeq(outputBuffer, n + 1, Len(outputBuffer))
  <2>1. /\ rev' = {} /\ IsWriting(ch) /\ CanWrite /\ accepted' = accepted /\ m_state' = m_state
        /\ wire' = wire \o sub /\ outputBuffer' = rest
        /\ rest # <<>> => ch' = ch
    BY <1>6 DEF OnWrite
  <2>2. outputBuffer \in ByteSeqs /\ wire \in ByteSeqs
    BY DEF TypeOK, ByteSeqs
  <2>3. n \in 0 .. Len(outputBuffer)
    BY <1>1, <2>2 DEF Taken, ByteSeqs
  <2> HIDE DEF n
  <2>4. /\ sub \in ByteSeqs /\ rest \in ByteSeqs /\ outputBuffer = sub \o rest
    BY <2>2, <2>3, CutInTwo DEF ByteSeqs
  <2> HIDE DEF sub, rest
  <2>5. accepted' = wire' \o outputBuffer'
    <3>1. \A a, b, c \in ByteSeqs : (a \o b) \o c = a \o (b \o c)
      BY ConcatAssociative DEF ByteSeqs
    <3>2. accepted = wire \o (sub \o rest)
      BY <1>1, <2>1, <2>4 DEF OutputBody
    <3> QED
      BY <2>1, <2>2, <2>4, <3>1, <3>2
  <2>6. m_state # "kDisconnected"
    BY <1>1, <2>1 DEF OutputBody, IsWriting
  <2> QED
    BY <2>1, <2>5, <2>6 DEF OutputBody
<1>7. CASE OnWriteFails
  <2>1. ~CanWrite /\ m_state # "kDisconnected"
    BY <1>1, <1>7 DEF OutputBody, OnWriteFails, WriteTurn, IsWriting
  <2>2. ~CanWrite'
    BY <1>1, <1>7, <2>1 DEF OnWriteFails, CanWrite, SockType
  <2> QED
    BY <1>7, <2>1, <2>2 DEF OutputBody, OnWriteFails
<1>8. CASE RunEstablish
  <2>1. m_state = "kConnecting"
    BY <1>1, <1>8, QueueSteps DEF StartInv, Queued, CallsIn, RunEstablish, Runs
  <2> QED
    BY <1>1, <1>8, <2>1 DEF StartInv, OutputBody, RunEstablish, CanWrite, sendVars
<1>9. CASE RunSend
  <2>1. Tail(queue) \in Seq(Functors) /\ Head(queue).message \in Messages
    BY <1>1, <1>9, QueueSteps DEF RunSend, Runs, Functors
  <2> QED
    BY <1>1, <1>9, <2>1, OutputSend DEF RunSend
<1>10. ASSUME NEW m \in Messages, LoopSend(m) PROVE OutputBody'
  BY <1>1, <1>10, OutputSend DEF LoopSend
<1>11. CASE RunDestroy
  <2>1. rev' = {} /\ UNCHANGED <<outputBuffer, accepted, wire, sock>>
    BY <1>11 DEF RunDestroy, Runs, StartInv, sendVars
  <2>2. ~OthersClose
    BY <1>1, <1>11, QueueSteps
      DEF RunDestroy, Runs, StartInv, Queued, CallsIn, Steady, ownerVars
  <2>3. CASE m_state = "kConnected"
    <3>1. ch' = Remove(DisableAll(ch)) /\ m_state' = "kDisconnected"
      BY <1>11, <2>3 DEF RunDestroy, OnConnectionDestroy
    <3>2. ch'.events = {}
      BY <1>1, <3>1, OperationsInSync, ChannelEvents, ZenonT(30)
    <3> QED
      BY <1>1, <2>1, <2>2, <3>1, <3>2 DEF OutputBody, CanWrite
  <2>4. CASE m_state # "kConnected"
    <3>1. ch' = Remove(ch) /\ m_state' = m_state
      BY <1>11, <2>4 DEF RunDestroy, OnConnectionDestroy
    <3>2. ch'.events = ch.events
      BY <1>1, <3>1, ChannelEvents
    <3> QED
      BY <1>1, <2>1, <2>2, <3>1, <3>2 DEF OutputBody, CanWrite, IsWriting
  <2> QED
    BY <2>3, <2>4
<1>12. CASE \/ HandleEvent \/ HandleHup \/ OnReadMessage \/ MessageReturns \/ OnWriteDown
            \/ DispatchReturns \/ UserReads \/ ConnectionCallbackReturns \/ RunUserCallback
            \/ OwnerRemoves \/ OwnerDisposes \/ RunShutdown
  <2>1. UNCHANGED <<ch, outputBuffer, accepted, wire, m_state>> /\ rev' \subseteq rev
    BY <1>12
      DEF HandleEvent, HandleHup, OnReadMessage, MessageReturns, OnWriteDown, DispatchReturns,
          UserReads, ConnectionCallbackReturns, RunUserCallback, OwnerRemoves, OwnerDisposes,
          RunShutdown, sendVars
  <2>2. (CanWrite' => CanWrite) /\ sock'.room = sock.room
    BY <1>1, <1>12
      DEF HandleEvent, HandleHup, OnReadMessage, MessageReturns, OnWriteDown, DispatchReturns,
          UserReads, ConnectionCallbackReturns, RunUserCallback, OwnerRemoves, OwnerDisposes,
          RunShutdown, ShutdownInLoop, CanWrite, SockType, IsWriting
  <2> QED
    BY <1>1, <2>1, <2>2, OutputFrame
<1>15. CASE OwnerDisposesInLoop
  <2>1. UNCHANGED <<rev, outputBuffer, accepted, wire, sock>>
    BY <1>15 DEF OwnerDisposesInLoop, sendVars
  <2>2. ~OthersClose
    BY <1>15 DEF OwnerDisposesInLoop, Steady
  <2>3. CASE m_state = "kConnected"
    <3>1. ch' = Remove(DisableAll(ch)) /\ m_state' = "kDisconnected"
      BY <1>15, <2>3 DEF OwnerDisposesInLoop, OnConnectionDestroy
    <3>2. ch'.events = {}
      BY <1>1, <3>1, OperationsInSync, ChannelEvents, ZenonT(30)
    <3> QED
      BY <1>1, <2>1, <2>2, <3>1, <3>2 DEF OutputBody, CanWrite
  <2>4. CASE m_state # "kConnected"
    <3>1. ch' = Remove(ch) /\ m_state' = m_state
      BY <1>15, <2>4 DEF OwnerDisposesInLoop, OnConnectionDestroy
    <3>2. ch'.events = ch.events
      BY <1>1, <3>1, ChannelEvents
    <3> QED
      BY <1>1, <2>1, <2>2, <3>1, <3>2 DEF OutputBody, CanWrite, IsWriting
  <2> QED
    BY <2>3, <2>4
<1>13. CASE LoopShutdown \/ LoopForceClose \/ UNCHANGED vars
  <2>1. /\ UNCHANGED <<ch, outputBuffer, accepted, wire, rev>>
        /\ m_state' = m_state \/ (m_state' = "kDisconnecting" /\ m_state # "kDisconnected")
    BY <1>13 DEF LoopShutdown, LoopForceClose, sendVars, vars
  <2>2. (CanWrite' => CanWrite) /\ sock'.room = sock.room
    BY <1>1, <1>13
      DEF LoopShutdown, LoopForceClose, ShutdownInLoop, CanWrite, SockType, IsWriting, vars
  <2> QED
    BY <1>1, <2>1, <2>2, OutputFrame
<1>14. ASSUME NEW t \in Threads, ThreadStep(t) PROVE OutputBody'
  <2>1. /\ UNCHANGED <<ch, outputBuffer, accepted, wire, rev, sock>>
        /\ m_state' = m_state \/ m_state' = "kDisconnecting"
    BY <1>14 DEF ThreadStep, BeginSend, BeginShutdown, BeginForceClose, StoreState,
                 PushFunctor, ThreadUnchanged, sendVars
  <2>2. m_state' = m_state \/ OthersClose
    BY <1>14, SendersOnly
  <2>3. CanWrite' => CanWrite
    BY <2>1 DEF CanWrite
  <2> QED
    BY <1>1, <2>1, <2>2, <2>3, OutputFrame
<1> QED
  BY <1>2, <1>3, <1>4, <1>5, <1>6, <1>7, <1>8, <1>9, <1>10, <1>11, <1>12, <1>13, <1>14,
     <1>15
    DEF Next, Dispatch, RunFunctor

-----------------------------------------------------------------------------
(* The end of a connection is heard of once.                               *)

\* When no other thread closes it a closed connection stays closed.
LEMMA ClosedStays ==
  ASSUME TypeOK, StartInv, SendersInv, [Next]_vars, ~OthersClose
  PROVE  /\ m_state = "kDisconnected" => m_state' = "kDisconnected"
         /\ closes' # closes \/ removals' > removals => m_state' = "kDisconnected"
<1>1. m_state = "kDisconnected" => ~RunEstablish
  BY QueueSteps DEF TypeOK, StartInv, Queued, CallsIn, RunEstablish, Runs
<1>2. m_state = "kDisconnected" => m_state' = "kDisconnected"
  BY <1>1, SendersOnly
    DEF Next, Peer, PeerSends, PeerReads, PeerCloses, PeerResets, PeerUnchanged, Poll,
        Dispatch, HandleEvent, HandleHup, HandleError, OnReadMessage, OnReadClose, Close,
        MessageReturns, OnWrite, OnWriteFails, OnWriteDown, DispatchReturns,
        UserReads, RunFunctor, RunSend, RunShutdown, RunForceClose,
        RunDestroy, OnConnectionDestroy, RunUserCallback,
        ConnectionCallbackReturns, OwnerRemoves,
        OwnerDisposes, OwnerDisposesInLoop, LoopSend, LoopShutdown, LoopForceClose, vars
<1>3. removals \in Nat
  BY DEF TypeOK
<1>4. (\E t \in Threads : ThreadStep(t)) => UNCHANGED <<closes, removals>>
  BY DEF ThreadStep, BeginSend, BeginShutdown, BeginForceClose, StoreState, PushFunctor,
         ThreadUnchanged, ownerVars
<1>5. Close \/ (closes' = closes /\ ~(removals' > removals))
  BY <1>3, <1>4
    DEF Next, Peer, PeerSends, PeerReads, PeerCloses, PeerResets, PeerUnchanged, Poll,
        Dispatch, HandleEvent, HandleHup, HandleError, OnReadMessage, OnReadClose,
        MessageReturns, OnWrite, OnWriteFails, OnWriteDown, DispatchReturns,
        UserReads, RunFunctor, RunEstablish, RunSend, RunShutdown, RunForceClose,
        RunDestroy, OnConnectionDestroy, RunUserCallback,
        ConnectionCallbackReturns, OwnerRemoves,
        OwnerDisposes, OwnerDisposesInLoop, LoopSend, LoopShutdown, LoopForceClose, ownerVars,
        vars
<1> QED
  BY <1>2, <1>5 DEF Close

\* Steps that bring no error, no event and no close.
LEMMA CloseFrame ==
  ASSUME CloseInv, ~OthersClose, UNCHANGED closes,
         m_state = "kDisconnected" => m_state' = "kDisconnected",
         rev' \subseteq rev, pc' = "message" => pc = "message" \/ "in" \in rev,
         sock'.reset = sock.reset \/ sock'.reset, sock'.error => sock.error \/ sock'.reset
  PROVE  CloseInv'
  BY DEF CloseInv

LEMMA CloseStep ==
  ASSUME TypeOK, InSync(ch), StartInv, SendersInv, OutputInv, CloseInv, [Next]_vars
  PROVE  CloseInv'
<1> SUFFICES ASSUME ~OthersClose PROVE CloseInv'
  BY DEF CloseInv
<1>1. /\ closes \in Nat /\ sock \in SockType /\ queue \in Seq(Functors)
      /\ m_state = "kDisconnected" => ch.events = {}
      /\ closes > 0 => m_state = "kDisconnected"
      /\ m_state = "kDisconnected" => m_state' = "kDisconnected"
  BY ClosedStays DEF TypeOK, SockType, OutputInv, OutputBody, Steady, CloseInv
<1>2. CASE Peer
  <2>1. /\ UNCHANGED <<closes, m_state, rev, pc>>
        /\ sock'.reset = sock.reset \/ sock'.reset
        /\ sock'.error => sock.error \/ sock'.reset
    <3>1. UNCHANGED <<closes, m_state, rev, pc>>
      BY <1>2 DEF Peer, PeerSends, PeerReads, PeerCloses, PeerResets, PeerUnchanged, ownerVars
    <3>2. CASE PeerSends
      BY <1>1, <3>1, <3>2 DEF PeerSends, SockType
    <3>3. CASE PeerReads
      BY <1>1, <3>1, <3>3 DEF PeerReads, SockType
    <3>4. CASE PeerCloses
      BY <1>1, <3>1, <3>4 DEF PeerCloses, SockType
    <3>5. CASE PeerResets
      BY <1>1, <3>1, <3>5 DEF PeerResets, SockType
    <3> QED
      BY <1>2, <3>2, <3>3, <3>4, <3>5 DEF Peer
  <2> QED
    BY <2>1, CloseFrame
<1>3. CASE Poll
  <2>1. ch.interest = ch.events
    BY <1>3 DEF Poll, InSync
  <2>2. "in" \in Reported => closes = 0
    BY <1>1, <2>1 DEF Reported
  <2>3. "err" \in Reported => sock.error
    BY DEF Reported, Available
  <2> QED
    BY <1>1, <1>3, <2>2, <2>3 DEF CloseInv, Poll, ownerVars
<1>4. CASE HandleError
  <2>1. sock.reset /\ sock' = sock /\ m_state' = "kDisconnected"
    BY <1>4 DEF HandleError, Close, CloseInv
  <2> QED
    BY <2>1 DEF CloseInv
<1>5. CASE OnReadClose
  <2>1. /\ closes' = closes + 1 /\ m_state' = "kDisconnected" /\ rev' = rev \ {"in"}
        /\ pc' = "dispatch" /\ "in" \in rev /\ ~sock'.error /\ sock'.reset = sock.reset
    BY <1>1, <1>5 DEF OnReadClose, ReadTurn, Close, CallOwner, SockType
  <2> QED
    BY <1>1, <2>1 DEF CloseInv
<1>6. CASE RunForceClose
  <2>1. rev = {} /\ rev' = {} /\ pc' = "idle" /\ sock' = sock
    BY <1>6 DEF RunForceClose, Runs, StartInv
  <2>2. CASE m_state \in {"kConnected", "kDisconnecting"}
    <3>1. closes' = closes + 1 /\ m_state' = "kDisconnected"
      BY <1>6, <2>2 DEF RunForceClose, Close, CallOwner
    <3>2. closes = 0
      BY <1>1, <2>2
    <3> QED
      BY <2>1, <3>1, <3>2 DEF CloseInv
  <2>3. CASE m_state \notin {"kConnected", "kDisconnecting"}
    BY <1>1, <1>6, <2>1, <2>3 DEF CloseInv, RunForceClose, ownerVars
  <2> QED
    BY <2>2, <2>3
<1>7. CASE RunSend \/ \E m \in Messages : LoopSend(m)
  <2>1. SameStream /\ (sock'.error => sock.error)
    <3>1. CASE RunSend
      <4>1. Tail(queue) \in Seq(Functors) /\ Head(queue).message \in Messages
        BY <1>1, <3>1, QueueSteps DEF RunSend, Runs, Functors
      <4> QED
        BY <1>1, <3>1, <4>1, SendEffect DEF RunSend
    <3>2. ASSUME NEW m \in Messages, LoopSend(m)
          PROVE  SameStream /\ (sock'.error => sock.error)
      BY <1>1, <3>2, SendEffect DEF LoopSend
    <3> QED
      BY <1>7, <3>1, <3>2
  <2>2. UNCHANGED <<closes, rev, pc>>
    BY <1>7 DEF RunSend, LoopSend, ownerVars
  <2> QED
    BY <1>1, <2>1, <2>2, CloseFrame DEF SameStream
<1>8. CASE \/ HandleEvent \/ HandleHup \/ OnReadMessage \/ MessageReturns \/ OnWrite
           \/ OnWriteFails \/ OnWriteDown \/ DispatchReturns \/ UserReads
           \/ ConnectionCallbackReturns \/ RunEstablish \/ RunShutdown \/ RunDestroy
           \/ RunUserCallback \/ OwnerRemoves \/ OwnerDisposes \/ OwnerDisposesInLoop
           \/ LoopShutdown \/ LoopForceClose \/ UNCHANGED vars
  <2>1. /\ closes' = closes /\ rev' \subseteq rev
        /\ pc' = "message" => pc = "message" \/ "in" \in rev
    BY <1>8
      DEF HandleEvent, HandleHup, OnReadMessage, MessageReturns, OnWrite, OnWriteFails,
          OnWriteDown, DispatchReturns, UserReads, ConnectionCallbackReturns, RunEstablish,
          RunShutdown, RunDestroy, RunUserCallback, OwnerRemoves, OwnerDisposes,
          OwnerDisposesInLoop, OnConnectionDestroy, LoopShutdown,
          LoopForceClose, ReadTurn, WriteTurn, ownerVars, vars
  <2>2. sock'.reset = sock.reset /\ (sock'.error => sock.error)
    BY <1>1, <1>8
      DEF HandleEvent, HandleHup, OnReadMessage, MessageReturns, OnWrite, OnWriteFails,
          OnWriteDown, DispatchReturns, UserReads, ConnectionCallbackReturns, RunEstablish,
          RunShutdown, RunDestroy, RunUserCallback, OwnerRemoves, OwnerDisposes,
          OwnerDisposesInLoop, OnConnectionDestroy, LoopShutdown,
          LoopForceClose, ShutdownInLoop, SockType, vars
  <2> QED
    BY <1>1, <2>1, <2>2, CloseFrame
<1>9. ASSUME NEW t \in Threads, ThreadStep(t) PROVE CloseInv'
  <2>1. UNCHANGED <<closes, rev, pc, sock>>
    BY <1>9 DEF ThreadStep, BeginSend, BeginShutdown, BeginForceClose, StoreState,
                PushFunctor, ThreadUnchanged, ownerVars
  <2> QED
    BY <1>1, <2>1, CloseFrame
<1> QED
  BY <1>2, <1>3, <1>4, <1>5, <1>6, <1>7, <1>8, <1>9 DEF Next, Dispatch, RunFunctor

-----------------------------------------------------------------------------
(* Nothing dangles.                                                        *)

\* The call of the oldest functor, and a push, in terms of the calls.
LEMMA CallsBefore ==
  ASSUME NEW x \in Seq(Functors), x # <<>>
  PROVE  /\ CallsIn(x) = {Head(x).call} \cup CallsIn(Tail(x))
         /\ RawFirst(x) => /\ RawFirst(Tail(x))
                           /\ Head(x).call = "onConnectionDestroy" =>
                                CallsIn(Tail(x)) \cap Raw = {}
<1>1. /\ Head(x) = x[1] /\ 1 \in DOMAIN x
      /\ \A i \in DOMAIN Tail(x) : i \in Nat /\ i >= 1 /\ i + 1 \in DOMAIN x /\ Tail(x)[i] = x[i + 1]
      /\ \A i \in DOMAIN x : i \in Nat /\ (i = 1 \/ (i - 1 \in DOMAIN Tail(x) /\ i - 1 + 1 = i))
  OBVIOUS
<1> DEFINE y == Tail(x)
<1> HIDE DEF y
<1>2. /\ \A i \in DOMAIN y : i \in Nat /\ i >= 1 /\ i + 1 \in DOMAIN x /\ y[i] = x[i + 1]
      /\ \A i \in DOMAIN x : i \in Nat /\ (i = 1 \/ \E j \in DOMAIN y : i = j + 1)
  BY <1>1 DEF y
<1>3. CallsIn(x) = {Head(x).call} \cup CallsIn(y)
  <2>1. ASSUME NEW i \in DOMAIN x PROVE x[i].call \in {Head(x).call} \cup CallsIn(y)
    BY <1>1, <1>2 DEF CallsIn
  <2>2. {Head(x).call} \cup CallsIn(y) \subseteq CallsIn(x)
    BY <1>1, <1>2 DEF CallsIn
  <2> QED
    BY <2>1, <2>2 DEF CallsIn
<1>4. ASSUME RawFirst(x) PROVE RawFirst(y)
  <2> SUFFICES ASSUME NEW i \in DOMAIN y, NEW j \in DOMAIN y,
                      y[i].call \in Raw, y[j].call = "onConnectionDestroy"
               PROVE  i < j
    BY DEF RawFirst
  <2>1. i + 1 < j + 1
    BY <1>2, <1>4 DEF RawFirst
  <2> QED
    BY <1>2, <2>1
<1>5. ASSUME RawFirst(x), Head(x).call = "onConnectionDestroy"
      PROVE  CallsIn(y) \cap Raw = {}
  <2>1. ASSUME NEW i \in DOMAIN y PROVE y[i].call \notin Raw
    <3>1. i + 1 \in DOMAIN x /\ y[i] = x[i + 1] /\ ~(i + 1 < 1)
      BY <1>2
    <3> QED
      BY <1>1, <1>5, <3>1 DEF RawFirst
  <2> QED
    BY <2>1 DEF CallsIn
<1> QED
  BY <1>3, <1>4, <1>5 DEF y

LEMMA RawFirstAppend ==
  ASSUME NEW x \in Seq(Functors), RawFirst(x), NEW f \in Functors,
         f.call \notin Raw \/ "onConnectionDestroy" \notin CallsIn(x) \cup {f.call}
  PROVE  RawFirst(Append(x, f))
<1> DEFINE y == Append(x, f)
<1>1. /\ Len(x) \in Nat /\ y[Len(x) + 1] = f
      /\ \A i \in DOMAIN x : i \in 1 .. Len(x) /\ y[i] = x[i]
      /\ \A i \in DOMAIN y : i \in DOMAIN x \/ i = Len(x) + 1
  OBVIOUS
<1> HIDE DEF y
<1> SUFFICES ASSUME NEW i \in DOMAIN y, NEW j \in DOMAIN y,
                    y[i].call \in Raw, y[j].call = "onConnectionDestroy"
             PROVE  i < j
  BY DEF RawFirst, y
<1>2. i # j
  BY DEF Raw
<1>3. CASE i \in DOMAIN x /\ j \in DOMAIN x
  BY <1>1, <1>3 DEF RawFirst
<1>4. CASE i = Len(x) + 1
  <2>1. f.call \in Raw /\ j \in DOMAIN x
    BY <1>1, <1>2, <1>4
  <2> QED
    BY <1>1, <2>1 DEF CallsIn
<1>5. CASE i \in DOMAIN x /\ j = Len(x) + 1
  BY <1>1, <1>5
<1> QED
  BY <1>1, <1>3, <1>4, <1>5

\* With the loop thread alone, a step calls the oldest functor or none, and then pushes
\* one or none.
LEMMA QueueForm ==
  ASSUME TypeOK, InSync(ch), [Next]_vars, Threads = {}
  PROVE  \E x \in Seq(Functors) :
           /\ \/ x = queue
              \/ queue # <<>> /\ x = Tail(queue)
                 /\ (Head(queue).call = "onConnectionDestroy" => RunDestroy)
           /\ \/ queue' = x
              \/ \E f \in Functors : /\ queue' = Append(x, f)
                                     /\ f.call \in Raw => LoopForceClose
                                     /\ f.call = "onConnectionDestroy" =>
                                          OwnerRemoves \/ OwnerDisposes
<1>1. queue \in Seq(Functors)
  BY DEF TypeOK
<1> DEFINE Pushed(x) == \E f \in Functors : /\ queue' = Append(x, f)
                                            /\ f.call \in Raw => LoopForceClose
                                            /\ f.call = "onConnectionDestroy" =>
                                                 OwnerRemoves \/ OwnerDisposes
           From(x) == queue' = x \/ Pushed(x)
<1>2. ASSUME NEW x \in Seq(Functors), NEW f \in UserCallbacks, queue' = Append(x, Functor(f))
      PROVE  From(x)
  <2>1. Functor(f) \in Functors /\ Functor(f).call = f /\ f \notin Raw
        /\ f # "onConnectionDestroy"
    BY PlainFunctors DEF UserCallbacks, Holding, Raw
  <2> QED
    BY <1>2, <2>1
<1>3. CASE RunFunctor
  <2>1. queue # <<>> /\ Head(queue) \in Functors /\ Tail(queue) \in Seq(Functors)
    BY <1>1, <1>3, QueueSteps
      DEF RunFunctor, RunEstablish, RunSend, RunShutdown, RunForceClose, RunDestroy,
          RunUserCallback, Runs
  <2>2. Head(queue).call = "onConnectionDestroy" => RunDestroy
    BY <1>3 DEF RunFunctor, RunEstablish, RunSend, RunShutdown, RunForceClose,
                RunUserCallback, Runs
  <2>3. From(Tail(queue))
    <3>1. CASE RunSend
      <4>1. Head(queue).message \in Messages
        BY <2>1, <3>1 DEF RunSend, Runs, Functors
      <4>2. \/ queue' = Tail(queue)
            \/ \E f \in UserCallbacks : queue' = Append(Tail(queue), Functor(f))
        BY <2>1, <3>1, <4>1, SendEffect DEF RunSend
      <4> QED
        BY <1>2, <2>1, <4>2
    <3>2. CASE ~RunSend
      BY <1>3, <3>2 DEF RunFunctor, RunEstablish, RunShutdown, RunForceClose, RunDestroy,
                        RunUserCallback
    <3> QED
      BY <3>1, <3>2
  <2> HIDE DEF From
  <2> QED
    BY <2>1, <2>2, <2>3 DEF From
<1>4. CASE ~RunFunctor
  <2>1. From(queue)
    <3>1. CASE \/ Peer \/ Poll \/ UserReads \/ ConnectionCallbackReturns
               \/ LoopShutdown \/ OwnerDisposesInLoop \/ UNCHANGED vars
      BY <3>1
        DEF OwnerDisposesInLoop, Peer, PeerSends, PeerReads, PeerCloses, PeerResets,
            PeerUnchanged, Poll, UserReads,
            ConnectionCallbackReturns, LoopShutdown, vars
    <3>2. CASE Dispatch
      <4>1. queue' = queue \/ queue' = Append(queue, Functor("writeCompleteCallback"))
        BY <3>2
          DEF Dispatch, HandleEvent, HandleHup, HandleError, OnReadMessage, OnReadClose,
              MessageReturns, OnWrite, OnWriteFails, OnWriteDown, DispatchReturns
      <4> QED
        BY <1>1, <1>2, <4>1 DEF UserCallbacks
    <3>3. CASE OwnerRemoves \/ OwnerDisposes
      <4>1. queue' = Append(queue, Functor("onConnectionDestroy"))
            /\ Functor("onConnectionDestroy") \in Functors
            /\ Functor("onConnectionDestroy").call \notin Raw
        BY <3>3, PlainFunctors DEF OwnerRemoves, OwnerDisposes, Holding, Raw
      <4> QED
        BY <3>3, <4>1
    <3>4. CASE LoopForceClose
      <4>1. queue' = Append(queue, Functor("forceCloseInLoop"))
            /\ Functor("forceCloseInLoop") \in Functors
            /\ Functor("forceCloseInLoop").call # "onConnectionDestroy"
        BY <3>4, PlainFunctors DEF LoopForceClose
      <4> QED
        BY <3>4, <4>1
    <3>5. ASSUME NEW m \in Messages, LoopSend(m) PROVE From(queue)
      <4>1. \/ queue' = queue
            \/ \E f \in UserCallbacks : queue' = Append(queue, Functor(f))
        BY <1>1, <3>5, SendEffect DEF LoopSend
      <4> QED
        BY <1>1, <1>2, <4>1
    <3> HIDE DEF From
    <3> QED
      BY <1>4, <3>1, <3>2, <3>3, <3>4, <3>5 DEF Next
  <2> HIDE DEF From
  <2> QED
    BY <1>1, <2>1 DEF From
<1> QED
  BY <1>3, <1>4

LEMMA RemovalStep ==
  ASSUME TypeOK, InSync(ch), StartInv, SendersInv, RemovalInv, [Next]_vars
  PROVE  RemovalInv'
<1> SUFFICES ASSUME Threads = {}, ~Disposal PROVE RemovalInv'
  BY DEF RemovalInv
<1>1. /\ owner # "disposed"
      /\ removals > 0 \/ owner = "removed" => m_state = "kDisconnected"
      /\ RawFirst(queue)
      /\ owner = "removed" /\ ~Queued("onConnectionDestroy") => Gone
      /\ queue \in Seq(Functors) /\ removals \in Nat /\ Good(ch)
      /\ owner \in {"holds", "removed", "disposed"}
  BY DEF RemovalInv, TypeOK, Good
<1>2. OwnerRemoves \/ owner' = owner
  BY DEF Next, Peer, PeerSends, PeerReads, PeerCloses, PeerResets, PeerUnchanged, Poll,
         Dispatch, HandleEvent, HandleHup, HandleError, OnReadMessage, OnReadClose, Close,
         CallOwner, MessageReturns, OnWrite, OnWriteFails, OnWriteDown, DispatchReturns,
         UserReads, RunFunctor, RunEstablish, RunSend, RunShutdown, RunForceClose,
         RunDestroy, OnConnectionDestroy, RunUserCallback,
         ConnectionCallbackReturns,
         OwnerDisposes, OwnerDisposesInLoop, LoopSend, LoopShutdown, LoopForceClose, ownerVars,
         vars
<1>3. owner' # "disposed"
  BY <1>1, <1>2 DEF OwnerRemoves
<1>4. ASSUME removals' > 0 \/ owner' = "removed" PROVE m_state' = "kDisconnected"
  <2>1. removals' \in Nat
    BY TypeStep DEF TypeOK
  <2>2. CASE OwnerRemoves
    BY <1>1, <2>2, ClosedStays DEF OwnerRemoves, OthersClose
  <2>3. CASE owner' = owner
    BY <1>1, <1>4, <2>1, <2>3, ClosedStays DEF OthersClose
  <2> QED
    BY <1>2, <2>2, <2>3
<1>5. PICK x \in Seq(Functors) :
        /\ \/ x = queue
           \/ queue # <<>> /\ x = Tail(queue)
              /\ (Head(queue).call = "onConnectionDestroy" => RunDestroy)
        /\ \/ queue' = x
           \/ \E f \in Functors : /\ queue' = Append(x, f)
                                  /\ f.call \in Raw => LoopForceClose
                                  /\ f.call = "onConnectionDestroy" =>
                                       OwnerRemoves \/ OwnerDisposes
  BY QueueForm
<1>6. RawFirst(x) /\ CallsIn(x) \subseteq CallsIn(queue)
  BY <1>1, <1>5, CallsBefore, CallsAfter
<1>7. CallsIn(x) \subseteq CallsIn(queue')
  <2>1. ASSUME NEW f \in Functors, queue' = Append(x, f)
        PROVE  CallsIn(queue') = CallsIn(x) \cup {f.call}
    BY <2>1, CallsAfter
  <2> QED
    BY <1>5, <2>1
<1>8. LoopForceClose => ~Queued("onConnectionDestroy")
  BY <1>1 DEF LoopForceClose, StartInv
<1>9. RawFirst(queue')
  <2>1. ASSUME NEW f \in Functors, queue' = Append(x, f), f.call \in Raw => LoopForceClose
        PROVE  RawFirst(queue')
    BY <1>6, <1>8, <2>1, RawFirstAppend DEF Queued, Raw
  <2> QED
    BY <1>5, <1>6, <2>1
<1>10. ASSUME owner' = "removed", "onConnectionDestroy" \notin CallsIn(queue')
       PROVE  /\ pc' = "idle" /\ ~ch'.registered /\ ~ch'.mapped
              /\ CallsIn(queue') \cap Raw = {}
  <2>1. ~OwnerRemoves /\ owner = "removed" /\ m_state = "kDisconnected"
    <3>1. ~OwnerRemoves
      <4>1. Functor("onConnectionDestroy") \in Functors
            /\ Functor("onConnectionDestroy").call = "onConnectionDestroy"
        BY PlainFunctors DEF Holding
      <4>2. OwnerRemoves => "onConnectionDestroy" \in CallsIn(queue')
        BY <1>1, <4>1, CallsAfter DEF OwnerRemoves
      <4> QED
        BY <1>10, <4>2
    <3> QED
      BY <1>1, <1>2, <1>10, <3>1
  <2>2. CallsIn(x) \cap Raw = {} => CallsIn(queue') \cap Raw = {}
    <3>1. ASSUME NEW f \in Functors, queue' = Append(x, f), f.call \in Raw => LoopForceClose
          PROVE  CallsIn(queue') = CallsIn(x) \cup {f.call} /\ f.call \notin Raw
      BY <2>1, <3>1, CallsAfter DEF LoopForceClose
    <3> QED
      BY <1>5, <3>1
  <2>3. CASE RunDestroy
    <3>1. /\ queue # <<>> /\ Head(queue).call = "onConnectionDestroy"
          /\ queue' = Tail(queue) /\ pc' = "idle"
          /\ ch' = Remove(DisableAll(ch)) \/ ch' = Remove(ch)
      BY <2>3 DEF RunDestroy, OnConnectionDestroy, Runs
    <3>2. ~ch'.registered /\ ~ch'.mapped
      <4>1. Good(DisableAll(ch))
        BY <1>1, OperationsInSync
      <4> QED
        BY <1>1, <3>1, <4>1, ChannelEvents
    <3>3. CallsIn(queue') \cap Raw = {}
      BY <1>1, <3>1, CallsBefore
    <3> QED
      BY <3>1, <3>2, <3>3
  <2>4. CASE ~RunDestroy
    <3>1. ~Queued("onConnectionDestroy")
      BY <1>1, <1>5, <1>7, <1>10, <2>4, CallsBefore DEF Queued
    <3>2. pc = "idle" /\ ~ch.registered /\ ~ch.mapped /\ CallsIn(queue) \cap Raw = {}
      BY <1>1, <2>1, <3>1 DEF Gone
    <3>3. CallsIn(queue') \cap Raw = {}
      BY <1>6, <2>2, <3>2
    <3>4. UNCHANGED <<pc, ch>>
      <4>1. ~Poll /\ ~Dispatch /\ ~UserReads /\ ~ConnectionCallbackReturns
        BY <3>2 DEF Poll, UserReads, ConnectionCallbackReturns, Dispatch, HandleEvent, HandleHup,
                    HandleError, OnReadMessage, OnReadClose, MessageReturns, OnWrite,
                    OnWriteFails, OnWriteDown, DispatchReturns, ReadTurn, WriteTurn
      <4>2. RunFunctor => RunUserCallback
        <5>1. queue # <<>> => Head(queue).call \in CallsIn(queue)
          BY <1>1, CallsBefore
        <5>2. "onConnectionEstablish" \notin CallsIn(queue)
          BY <2>1 DEF StartInv, Queued
        <5> QED
          BY <2>4, <3>2, <5>1, <5>2
            DEF RunFunctor, RunEstablish, RunSend, RunShutdown, RunForceClose, Runs, Raw
      <4>3. (\A m \in Messages : ~LoopSend(m)) /\ ~LoopShutdown /\ ~LoopForceClose
        BY <2>1 DEF LoopSend, LoopShutdown, LoopForceClose
      <4>4. Peer \/ RunUserCallback \/ OwnerDisposes \/ UNCHANGED vars
        BY <2>1, <4>1, <4>2, <4>3 DEF OwnerDisposesInLoop, Next
      <4> QED
        BY <4>4 DEF Peer, PeerSends, PeerReads, PeerCloses, PeerResets, PeerUnchanged,
                    RunUserCallback, OwnerDisposes, vars
    <3> QED
      BY <3>2, <3>3, <3>4
  <2> QED
    BY <2>3, <2>4
<1>11. /\ RawFirst(queue)' <=> RawFirst(queue')
       /\ Queued("onConnectionDestroy")' <=> "onConnectionDestroy" \in CallsIn(queue')
       /\ Gone' <=> /\ pc' = "idle" /\ ~ch'.registered /\ ~ch'.mapped
                    /\ CallsIn(queue') \cap Raw = {}
  BY DEF RawFirst, Queued, Gone, CallsIn
<1> QED
  BY <1>3, <1>4, <1>9, <1>10, <1>11 DEF RemovalInv

-----------------------------------------------------------------------------
(* The theorems.                                                           *)

LEMMA ConnInit == Init => ConnInv
<1> SUFFICES ASSUME Init PROVE ConnInv
  OBVIOUS
<1> DEFINE f == Functor("onConnectionEstablish")
<1>1. f \in Functors /\ f.call = "onConnectionEstablish"
  BY PlainFunctors DEF Holding
<1>2. queue = <<f>>
  BY DEF Init
<1> HIDE DEF f
<1>3. /\ queue \in Seq(Functors) /\ queue # <<>> /\ Head(queue) = f /\ Tail(queue) = <<>>
      /\ DOMAIN queue = {1} /\ queue[1] = f
  BY <1>1, <1>2
<1>4. /\ CallsIn(queue) = {"onConnectionEstablish"}
      /\ "onConnectionEstablish" \notin CallsIn(Tail(queue))
  BY <1>1, <1>3 DEF CallsIn
<1>5. ch = NewChannel /\ ch \in ChannelType /\ InSync(ch)
  BY DEF Init, NewChannel, ChannelType, InSync, Statuses
<1>6. sock \in SockType /\ sock.unread = 0 /\ ~sock.error
  BY ConnectionAssumption DEF Init, SockType
<1>7. TypeOK
  BY <1>3, <1>5, <1>6, ConnectionAssumption DEF Init, TypeOK, SockType, States
<1>8. StartInv
  BY <1>1, <1>3, <1>4, <1>5 DEF Init, StartInv, Queued
<1>9. OutputInv
  <2>1. accepted = wire \o outputBuffer
    BY DEF Init
  <2> QED
    BY <2>1 DEF Init, OutputInv, OutputBody
<1>10. CloseInv
  BY <1>6 DEF Init, CloseInv
<1>11. RemovalInv
  BY <1>1, <1>3 DEF Init, RemovalInv, RawFirst
<1>12. SendersInv
  BY DEF Init, SendersInv
<1> QED
  BY <1>5, <1>7, <1>8, <1>9, <1>10, <1>11, <1>12 DEF ConnInv

LEMMA ConnStep == ConnInv /\ [Next]_vars => ConnInv'
<1> SUFFICES ASSUME ConnInv, [Next]_vars PROVE ConnInv'
  OBVIOUS
<1>1. TypeOK /\ InSync(ch) /\ StartInv /\ SendersInv /\ OutputInv /\ CloseInv /\ RemovalInv
  BY DEF ConnInv
<1>2. InSync(ch)'
  <2>1. InSync(ch)' <=> InSync(ch')
    BY DEF InSync
  <2>2. Good(ch)
    BY <1>1 DEF Good, TypeOK
  <2> QED
    BY <2>1, <2>2, ChannelStep DEF Good
<1> QED
  BY <1>1, <1>2, TypeStep, StartStep, SendersStep, OutputStep, CloseStep, RemovalStep DEF ConnInv

\* The connection's inductive invariant: how it begins, that writing is enabled while
\* output waits, that closes leave no events, and in which order its functors end.
THEOREM ConnectionInvariant == Spec => []ConnInv
  BY ConnInit, ConnStep, PTL DEF Spec

\* Every variable of a connection stays in its set.
THEOREM ConnectionTypes == Spec => []TypeOK
<1>1. ConnInv => TypeOK
  BY DEF ConnInv
<1> QED
  BY <1>1, ConnectionInvariant, PTL

\* sendInLoop and onWrite keep the output of an open connection in order, whatever other
\* threads do.
THEOREM OpenOutputInOrder == Spec => []OutputInOrderWhileOpen
<1>1. ConnInv => OutputInOrderWhileOpen
  BY DEF ConnInv, OutputInv, OutputBody, Steady, OutputInOrderWhileOpen
<1> QED
  BY <1>1, ConnectionInvariant, PTL

\* A connection that other threads at most send on keeps its output in order to its end:
\* of the bytes sendInLoop took none is lost, repeated or overtaken while the socket
\* takes bytes.
THEOREM OutputStaysInOrder ==
  ASSUME ~OthersClose
  PROVE  Spec => []OutputInOrder
<1>1. ConnInv => OutputInOrder
  BY DEF ConnInv, OutputInv, OutputBody, Steady, OutputInOrder
<1> QED
  BY <1>1, ConnectionInvariant, PTL

\* Without a reset the close callback is called once, and no message comes after it, on
\* a connection that other threads at most send on.
THEOREM ClosedOnce ==
  ASSUME ~OthersClose
  PROVE  Spec => []ClosesOnce
<1>1. ConnInv => ClosesOnce
  BY DEF ConnInv, CloseInv, ClosesOnce
<1> QED
  BY <1>1, ConnectionInvariant, PTL

\* When the last reference to a connection goes, no functor bound to this is queued, no
\* event waits for it and the poller does not know it, unless ~TcpServer gave it up.
THEOREM RemovalLeavesNothing ==
  ASSUME ~Disposal
  PROVE  Spec => []NothingDangles
<1>1. ConnInv => NothingDangles
  <2> SUFFICES ASSUME ConnInv, ~Alive PROVE Gone
    BY DEF NothingDangles, Gone, CallsIn
  <2>1. /\ Threads = {} /\ owner # "holds"
        /\ "onConnectionDestroy" \notin CallsIn(queue)
    BY DEF Alive, Holding, CallsIn
  <2> QED
    BY <2>1 DEF ConnInv, TypeOK, RemovalInv, Queued
<1> QED
  BY <1>1, ConnectionInvariant, PTL
=============================================================================
