---------------------------- MODULE ServerProofs ----------------------------
(***************************************************************************)
(* Proofs about TcpServer and Server for any number of threads,            *)
(* connections and closes: the map tracks what is open, a connection is    *)
(* established before it is destroyed and never destroyed inside its own   *)
(* handler, and a server whose base loop has ended is not used again; for  *)
(* every limit of descriptors, the acceptor never loses its spare one.     *)
(*                                                                         *)
(* All of it rests on what the queues hold, and in which order: what       *)
(* onConnectionEstablish and onConnectionDestroy find depends on what was  *)
(* queued before them in the loop of their connection.                     *)
(***************************************************************************)
EXTENDS Server, SequenceTheorems, TLAPS

Connections == [loop : Loops,
                state : {"kConnecting", "kConnected", "kDisconnecting", "kDisconnected"},
                watched : BOOLEAN, closes : Nat, destroyed : Nat,
                forced : 0 .. MaxForced, forcing : Nat]

-----------------------------------------------------------------------------
(* The inductive invariant.                                                *)

\* A functor f in the queue of loop l, when the connections are cn and those below n
\* were accepted.
FunctorOK(f, l, cn, n) ==
  /\ f.conn < n
  /\ IF f.call = "removeConnectionInLoop"
       THEN l = Base /\ cn[f.conn].loop # Base /\ cn[f.conn].closes > 0
       ELSE cn[f.conn].loop = l
  /\ f.call = "onConnectionEstablish" => l # Base /\ cn[f.conn].state = "kConnecting"

\* The queue s of loop l: one onConnectionEstablish of a connection, and none of its
\* onConnectionDestroy before it.
QueueOK(s, l, cn, n) ==
  \A i \in DOMAIN s :
    /\ FunctorOK(s[i], l, cn, n)
    /\ s[i].call = "onConnectionEstablish" => \A j \in DOMAIN s : s[j] = s[i] => j = i
    /\ s[i].call = "onConnectionDestroy" /\ cn[s[i].conn].state = "kConnecting"
         => \E j \in DOMAIN s : j < i /\ s[j] = Functor("onConnectionEstablish", s[i].conn)

\* A connection that is not established yet will be.
Awaited(s, c) == \E i \in DOMAIN s : s[i] = Functor("onConnectionEstablish", c)

QueuesOK(q, cn, n) ==
  /\ q \in [Loops -> Seq(Functors)]
  /\ \A l \in Loops : QueueOK(q[l], l, cn, n)
  /\ \A c \in Conns : c < n /\ cn[c].state = "kConnecting" => Awaited(q[cn[c].loop], c)

\* What the history of a connection says of its state.
StatesOK ==
  \A c \in Conns :
    /\ ~Accepted(c) => conn[c].state = "kConnecting"
    /\ conn[c].closes > 0 => conn[c].state \in {"kDisconnecting", "kDisconnected"}
    /\ conn[c].watched \/ conn[c].forcing > 0 => conn[c].state # "kConnecting"
    /\ conn[c].destroyed > 0 => conn[c].state \in {"kDisconnecting", "kDisconnected"}

\* A handler is run by the connection's loop, which lives, and not while that loop is
\* in ~TcpServer; its connection was established.
HandlersOK ==
  \A l \in Loops :
    busy[l] # NoConn =>
      /\ Accepted(busy[l]) /\ conn[busy[l]].loop = l
      /\ conn[busy[l]].state # "kConnecting"
      /\ Active(l) /\ (l = Base => server # "disposing")

\* The map as MapTracksOpen has it, from the constructor on.
MapOK ==
  server \in {"new", "serving"} =>
    \A c \in Conns :
      /\ Accepted(c) /\ conn[c].closes = 0 => c \in m_connections
      /\ c \in m_connections => conn[c].closes = 0 \/ Pending(Base, "removeConnectionInLoop", c)

\* The loops in the life of the server.
LoopsOK ==
  /\ status[Base] # "quit"
  /\ server = "new" => m_next = 0 /\ \A l \in Loops : status[l] = "none"
  /\ server # "new" => \A l \in Loops : l > m_numThreads => status[l] = "none"
  /\ server = "gone" => \A l \in IoLoops : status[l] = "stopped"
  /\ undefined => server = "gone" /\ status[Base] = "running"

ServerInv ==
  /\ TypeOK /\ QueuesOK(queue, conn, m_nextConnId)
  /\ StatesOK /\ HandlersOK /\ MapOK /\ LoopsOK

-----------------------------------------------------------------------------
(* Lemmas: what a push, a pop and a change of the connections leave true of *)
(* the queues.                                                             *)

\* A functor other than onConnectionEstablish is added to a queue.
LEMMA AppendOK ==
  ASSUME NEW s \in Seq(Functors), NEW l, NEW cn, NEW n, QueueOK(s, l, cn, n),
         NEW f, NEW c, Functor(f, c) \in Functors, FunctorOK(Functor(f, c), l, cn, n),
         f # "onConnectionEstablish",
         f = "onConnectionDestroy" /\ cn[c].state = "kConnecting" => Awaited(s, c)
  PROVE  QueueOK(Append(s, Functor(f, c)), l, cn, n)
<1> DEFINE t == Append(s, Functor(f, c))
<1>1. /\ t \in Seq(Functors) /\ Len(t) = Len(s) + 1
      /\ \A i \in 1 .. Len(s) : t[i] = s[i]
      /\ t[Len(s) + 1] = Functor(f, c)
  BY AppendProperties
<1>2. DOMAIN s = 1 .. Len(s) /\ DOMAIN t = 1 .. Len(s) + 1 /\ Len(s) \in Nat
  BY <1>1, LenProperties
<1> HIDE DEF t
<1>3. Functor(f, c).call = f /\ Functor(f, c).conn = c
  BY DEF Functor
<1> SUFFICES ASSUME NEW i \in DOMAIN t
             PROVE  /\ FunctorOK(t[i], l, cn, n)
                    /\ t[i].call = "onConnectionEstablish"
                         => \A j \in DOMAIN t : t[j] = t[i] => j = i
                    /\ t[i].call = "onConnectionDestroy" /\ cn[t[i].conn].state = "kConnecting"
                         => \E j \in DOMAIN t : j < i
                              /\ t[j] = Functor("onConnectionEstablish", t[i].conn)
  BY DEF QueueOK, t
<1>4. CASE i \in DOMAIN s
  <2>1. t[i] = s[i]
    BY <1>1, <1>2, <1>4
  <2>2. FunctorOK(t[i], l, cn, n)
    BY <2>1, <1>4 DEF QueueOK
  <2>3. ASSUME t[i].call = "onConnectionEstablish", NEW j \in DOMAIN t, t[j] = t[i]
        PROVE  j = i
    <3>1. j \in DOMAIN s
      BY <2>3, <1>1, <1>2, <1>3
    <3> QED
      BY <3>1, <2>1, <2>3, <1>1, <1>2, <1>4 DEF QueueOK
  <2>4. ASSUME t[i].call = "onConnectionDestroy", cn[t[i].conn].state = "kConnecting"
        PROVE  \E j \in DOMAIN t : j < i /\ t[j] = Functor("onConnectionEstablish", t[i].conn)
    BY <2>1, <2>4, <1>1, <1>2, <1>4 DEF QueueOK
  <2> QED
    BY <2>2, <2>3, <2>4
<1>5. CASE i = Len(s) + 1
  BY <1>1, <1>2, <1>3, <1>5 DEF Awaited
<1> QED
  BY <1>2, <1>4, <1>5

\* The onConnectionEstablish of a connection that no functor of the queue is about.
LEMMA AppendNewOK ==
  ASSUME NEW s \in Seq(Functors), NEW l, NEW cn, NEW n, QueueOK(s, l, cn, n),
         NEW c \in Conns, FunctorOK(Functor("onConnectionEstablish", c), l, cn, n),
         \A i \in DOMAIN s : s[i].conn # c
  PROVE  QueueOK(Append(s, Functor("onConnectionEstablish", c)), l, cn, n)
<1> DEFINE f == Functor("onConnectionEstablish", c)
<1> DEFINE t == Append(s, f)
<1>1. f \in Functors /\ f.call = "onConnectionEstablish" /\ f.conn = c
  BY DEF Functor, Functors
<1> HIDE DEF f
<1>2. /\ t \in Seq(Functors) /\ Len(t) = Len(s) + 1
      /\ \A i \in 1 .. Len(s) : t[i] = s[i]
      /\ t[Len(s) + 1] = f
  BY <1>1, AppendProperties
<1>3. DOMAIN s = 1 .. Len(s) /\ DOMAIN t = 1 .. Len(s) + 1 /\ Len(s) \in Nat
  BY <1>2, LenProperties
<1> HIDE DEF t
<1>4. ASSUME NEW i \in DOMAIN t
      PROVE  /\ FunctorOK(t[i], l, cn, n)
             /\ t[i].call = "onConnectionEstablish" => \A j \in DOMAIN t : t[j] = t[i] => j = i
             /\ t[i].call = "onConnectionDestroy" /\ cn[t[i].conn].state = "kConnecting"
                  => \E j \in DOMAIN t : j < i
                       /\ t[j] = Functor("onConnectionEstablish", t[i].conn)
  <2>1. CASE i \in DOMAIN s
    <3>1. t[i] = s[i] /\ t[i].conn # c
      BY <1>2, <1>3, <2>1
    <3>2. FunctorOK(t[i], l, cn, n)
      BY <2>1, <3>1 DEF QueueOK
    <3>3. ASSUME t[i].call = "onConnectionEstablish", NEW j \in DOMAIN t, t[j] = t[i]
          PROVE  j = i
      <4>1. j \in DOMAIN s /\ t[j] = s[j]
        BY <1>1, <1>2, <1>3, <3>1, <3>3
      <4> QED
        BY <2>1, <3>1, <3>3, <4>1 DEF QueueOK
    <3>4. ASSUME t[i].call = "onConnectionDestroy", cn[t[i].conn].state = "kConnecting"
          PROVE  \E j \in DOMAIN t : j < i /\ t[j] = Functor("onConnectionEstablish", t[i].conn)
      BY <1>2, <1>3, <2>1, <3>1, <3>4 DEF QueueOK
    <3> QED
      BY <3>2, <3>3, <3>4
  <2>2. CASE i = Len(s) + 1
    <3>1. FunctorOK(t[i], l, cn, n)
      BY <1>2, <2>2 DEF f
    <3>2. \A j \in DOMAIN t : t[j] = t[i] => j = i
      BY <1>1, <1>2, <1>3, <2>2
    <3> QED
      BY <1>1, <1>2, <2>2, <3>1, <3>2
  <2> QED
    BY <1>3, <2>1, <2>2
<1> QED
  BY <1>4 DEF QueueOK, t, f

\* The first functor, not an onConnectionEstablish, is taken from a queue.
LEMMA TailOK ==
  ASSUME NEW s \in Seq(Functors), NEW l, NEW cn, NEW n, QueueOK(s, l, cn, n),
         s # <<>>, Head(s).call # "onConnectionEstablish"
  PROVE  /\ QueueOK(Tail(s), l, cn, n)
         /\ \A c \in Conns : Awaited(s, c) => Awaited(Tail(s), c)
<1> DEFINE t == Tail(s)
<1>1. /\ t \in Seq(Functors) /\ Len(t) = Len(s) - 1 /\ Head(s) = s[1] /\ Len(s) > 0
      /\ \A i \in 1 .. Len(t) : t[i] = s[i + 1]
  BY HeadTailProperties, EmptySeq
<1>2. DOMAIN s = 1 .. Len(s) /\ DOMAIN t = 1 .. Len(s) - 1 /\ Len(s) \in Nat
  BY <1>1, LenProperties
<1> HIDE DEF t
<1>3. ASSUME NEW j \in DOMAIN s, s[j].call = "onConnectionEstablish"
      PROVE  j - 1 \in DOMAIN t /\ t[j - 1] = s[j]
  BY <1>1, <1>2, <1>3
<1>4. \A c \in Conns : Awaited(s, c) => Awaited(t, c)
  BY <1>3 DEF Awaited, Functor
<1>5. ASSUME NEW i \in DOMAIN t
      PROVE  /\ FunctorOK(t[i], l, cn, n)
             /\ t[i].call = "onConnectionEstablish" => \A j \in DOMAIN t : t[j] = t[i] => j = i
             /\ t[i].call = "onConnectionDestroy" /\ cn[t[i].conn].state = "kConnecting"
                  => \E j \in DOMAIN t : j < i
                       /\ t[j] = Functor("onConnectionEstablish", t[i].conn)
  <2>1. i + 1 \in DOMAIN s /\ t[i] = s[i + 1]
    BY <1>1, <1>2
  <2>2. FunctorOK(t[i], l, cn, n)
    BY <2>1 DEF QueueOK
  <2>3. ASSUME t[i].call = "onConnectionEstablish", NEW j \in DOMAIN t, t[j] = t[i]
        PROVE  j = i
    <3>1. j + 1 \in DOMAIN s /\ t[j] = s[j + 1]
      BY <1>1, <1>2
    <3>2. j + 1 = i + 1
      BY <2>1, <2>3, <3>1 DEF QueueOK
    <3> QED
      BY <3>2, <1>2
  <2>4. ASSUME t[i].call = "onConnectionDestroy", cn[t[i].conn].state = "kConnecting"
        PROVE  \E j \in DOMAIN t : j < i /\ t[j] = Functor("onConnectionEstablish", t[i].conn)
    <3>1. PICK j \in DOMAIN s : j < i + 1 /\ s[j] = Functor("onConnectionEstablish", t[i].conn)
      BY <2>1, <2>4 DEF QueueOK
    <3>2. j - 1 \in DOMAIN t /\ t[j - 1] = s[j]
      BY <3>1, <1>3 DEF Functor
    <3> QED
      BY <3>1, <3>2, <1>2
  <2> QED
    BY <2>2, <2>3, <2>4
<1> QED
  BY <1>4, <1>5 DEF QueueOK, t

\* What a queue holds after a push and a pop.
LEMMA AppendHolds ==
  ASSUME NEW s \in Seq(Functors), NEW h \in Functors
  PROVE  /\ \A i \in DOMAIN s : i \in DOMAIN Append(s, h) /\ Append(s, h)[i] = s[i]
         /\ \E i \in DOMAIN Append(s, h) : Append(s, h)[i] = h
<1>1. /\ Append(s, h) \in Seq(Functors) /\ Len(Append(s, h)) = Len(s) + 1
      /\ \A i \in 1 .. Len(s) : Append(s, h)[i] = s[i]
      /\ Append(s, h)[Len(s) + 1] = h
  BY AppendProperties
<1>2. /\ DOMAIN s = 1 .. Len(s) /\ Len(s) \in Nat
      /\ DOMAIN Append(s, h) = 1 .. Len(s) + 1
  BY <1>1, LenProperties
<1> QED
  BY <1>1, <1>2

LEMMA TailHolds ==
  ASSUME NEW s \in Seq(Functors), s # <<>>, NEW g, g # Head(s), \E i \in DOMAIN s : s[i] = g
  PROVE  \E i \in DOMAIN Tail(s) : Tail(s)[i] = g
<1>1. /\ Tail(s) \in Seq(Functors) /\ Len(Tail(s)) = Len(s) - 1 /\ Head(s) = s[1]
      /\ \A i \in 1 .. Len(Tail(s)) : Tail(s)[i] = s[i + 1]
  BY HeadTailProperties, EmptySeq
<1>2. /\ DOMAIN s = 1 .. Len(s) /\ Len(s) \in Nat
      /\ DOMAIN Tail(s) = 1 .. Len(s) - 1
  BY <1>1, LenProperties
<1>3. PICK i \in DOMAIN s : s[i] = g
  OBVIOUS
<1>4. i - 1 \in DOMAIN Tail(s) /\ Tail(s)[i - 1] = g
  BY <1>1, <1>2, <1>3
<1> QED
  BY <1>4

LEMMA PushOK ==
  ASSUME NEW q, NEW cn \in [Conns -> Connections], NEW n, QueuesOK(q, cn, n), NEW l \in Loops,
         NEW f, NEW c, Functor(f, c) \in Functors, FunctorOK(Functor(f, c), l, cn, n),
         f # "onConnectionEstablish",
         f = "onConnectionDestroy" /\ cn[c].state = "kConnecting" => Awaited(q[l], c)
  PROVE  QueuesOK(Push(q, l, f, c), cn, n)
<1> DEFINE r == Push(q, l, f, c)
<1>1. /\ q \in [Loops -> Seq(Functors)] /\ r[l] = Append(q[l], Functor(f, c))
      /\ \A k \in Loops : k # l => r[k] = q[k]
      /\ r \in [Loops -> Seq(Functors)]
  BY AppendProperties DEF QueuesOK, Push
<1> HIDE DEF r
<1>2. QueueOK(r[l], l, cn, n)
  BY <1>1, AppendOK DEF QueuesOK
<1>3. ASSUME NEW d \in Conns, d < n, cn[d].state = "kConnecting"
      PROVE  Awaited(r[cn[d].loop], d)
  <2>1. Awaited(q[cn[d].loop], d) /\ cn[d].loop \in Loops
    BY <1>3 DEF QueuesOK, Connections
  <2>2. Awaited(q[l], d) => Awaited(Append(q[l], Functor(f, c)), d)
    <3>1. q[l] \in Seq(Functors)
      BY <1>1
    <3> QED
      BY <3>1, AppendHolds DEF Awaited
  <2> QED
    BY <2>1, <2>2, <1>1
<1> QED
  BY <1>1, <1>2, <1>3 DEF QueuesOK, r

LEMMA PopOK ==
  ASSUME NEW q, NEW cn \in [Conns -> Connections], NEW n, QueuesOK(q, cn, n), NEW l \in Loops,
         q[l] # <<>>, Head(q[l]).call # "onConnectionEstablish"
  PROVE  QueuesOK([q EXCEPT ![l] = Tail(@)], cn, n)
<1> DEFINE r == [q EXCEPT ![l] = Tail(@)]
<1>1. /\ q \in [Loops -> Seq(Functors)] /\ r[l] = Tail(q[l])
      /\ \A k \in Loops : k # l => r[k] = q[k]
      /\ r \in [Loops -> Seq(Functors)]
  BY HeadTailProperties, EmptySeq DEF QueuesOK
<1> HIDE DEF r
<1>2. /\ QueueOK(r[l], l, cn, n)
      /\ \A d \in Conns : Awaited(q[l], d) => Awaited(r[l], d)
  BY <1>1, TailOK DEF QueuesOK
<1>3. ASSUME NEW d \in Conns, d < n, cn[d].state = "kConnecting"
      PROVE  Awaited(r[cn[d].loop], d)
  BY <1>1, <1>2, <1>3 DEF QueuesOK, Connections
<1> QED
  BY <1>1, <1>2, <1>3 DEF QueuesOK, r

\* A step of connections that establishes none.
LEMMA ConnsOK ==
  ASSUME NEW q, NEW cn \in [Conns -> Connections], NEW n, QueuesOK(q, cn, n),
         NEW dn \in [Conns -> Connections],
         \A c \in Conns : /\ dn[c].loop = cn[c].loop
                          /\ cn[c].closes > 0 => dn[c].closes > 0
                          /\ dn[c].state = "kConnecting" <=> cn[c].state = "kConnecting"
  PROVE  QueuesOK(q, dn, n)
<1>1. ASSUME NEW l \in Loops
      PROVE  QueueOK(q[l], l, dn, n)
  <2>1. QueueOK(q[l], l, cn, n) /\ q[l] \in Seq(Functors)
    BY DEF QueuesOK
  <2>2. \A i \in DOMAIN q[l] : q[l][i].conn \in Conns
    <3>1. DOMAIN q[l] = 1 .. Len(q[l]) /\ \A i \in 1 .. Len(q[l]) : q[l][i] \in Functors
      BY <2>1, ElementOfSeq, LenProperties
    <3> QED
      BY <3>1 DEF Functors
  <2> QED
    BY <2>1, <2>2 DEF QueueOK, FunctorOK
<1> QED
  BY <1>1 DEF QueuesOK

-----------------------------------------------------------------------------
(* Every step of TcpServer keeps the invariant.                            *)

LEMMA StartStep ==
  ASSUME ServerInv, Start
  PROVE  ServerInv'
<1> USE DEF ServerInv, Start
<1>1. TypeOK'
  <2>1. m_next = 0
    BY DEF LoopsOK
  <2>2. status' \in [Loops -> {"none", "running", "quit", "stopped"}]
    OBVIOUS
  <2> QED
    BY <2>1, <2>2 DEF TypeOK, Accepted
<1>2. QueuesOK(queue, conn, m_nextConnId)' /\ StatesOK'
  BY DEF StatesOK, Accepted
<1>3. HandlersOK'
  BY DEF HandlersOK, LoopsOK, Active
<1>4. MapOK'
  BY DEF MapOK, Accepted, Pending
<1>5. LoopsOK'
  <2>1. /\ Base \in Loops /\ Base <= m_numThreads'
        /\ \A l \in Loops : l > m_numThreads' => ~(l <= m_numThreads')
    BY TcpServerAssumption DEF Base, Loops
  <2> QED
    BY <2>1 DEF LoopsOK
<1> QED
  BY <1>1, <1>2, <1>3, <1>4, <1>5

\* The steps that move only the loops and their handlers.
LEMMA LoopStep ==
  ASSUME ServerInv,
         \/ \E l \in Loops, c \in Conns : HandleEvent(l, c)
         \/ \E l \in Loops : HandlerReturns(l) \/ LoopStops(l) \/ QuitThread(l)
         \/ BaseStops \/ BeginDisposal \/ EndDisposal
  PROVE  ServerInv'
<1> USE DEF ServerInv
<1>1. ASSUME NEW l \in Loops, NEW c \in Conns, HandleEvent(l, c)
      PROVE  ServerInv'
  <2> USE <1>1 DEF HandleEvent
  <2>1. TypeOK'
    BY DEF TypeOK, Accepted
  <2>2. conn[c].state # "kConnecting"
    BY DEF StatesOK
  <2>3. HandlersOK'
    BY <2>2 DEF HandlersOK, TypeOK, Accepted, Active, Free
  <2> QED
    BY <2>1, <2>3 DEF StatesOK, Accepted, MapOK, Pending, LoopsOK, IoLoops
<1>2. ASSUME NEW l \in Loops, HandlerReturns(l)
      PROVE  ServerInv'
  <2> USE <1>2 DEF HandlerReturns
  <2>1. TypeOK'
    BY DEF TypeOK, Accepted
  <2>2. HandlersOK'
    BY DEF HandlersOK, TypeOK, Accepted, Active
  <2> QED
    BY <2>1, <2>2 DEF StatesOK, Accepted, MapOK, Pending, LoopsOK, IoLoops
<1>3. ASSUME NEW l \in Loops, LoopStops(l) \/ QuitThread(l)
      PROVE  ServerInv'
  <2> USE <1>3 DEF LoopStops, QuitThread
  <2>1. /\ l \in 1 .. m_numThreads /\ l # Base
        /\ status' \in [Loops -> {"none", "running", "quit", "stopped"}]
        /\ status'[l] \in {"quit", "stopped"} /\ server # "new"
        /\ \A k \in Loops : k # l => status'[k] = status[k]
        /\ Base \in Loops
    <3>1. l \in 1 .. m_numThreads /\ l # Base /\ Base \in Loops
      BY TcpServerAssumption DEF IoLoops, Base, Loops
    <3>2. server # "new"
      BY DEF LoopsOK
    <3>3. status \in [Loops -> {"none", "running", "quit", "stopped"}]
      BY DEF TypeOK
    <3> QED
      BY <3>1, <3>2, <3>3
  <2>2. UNCHANGED <<m_numThreads, m_nextConnId, m_next, m_connections, conn, queue, busy,
                    server, undefined>>
    OBVIOUS
  <2>3. TypeOK'
    BY <2>1, <2>2 DEF TypeOK, Accepted
  <2>4. HandlersOK'
    BY ZenonT(30) DEF HandlersOK, TypeOK, Accepted, Active, Free
  <2>5. server = "gone" => \A k \in IoLoops : status[k] = "stopped"
    BY DEF LoopsOK
  <2>6. server # "gone"
    BY <2>1, <2>5 DEF LoopStops, QuitThread, IoLoops
  <2>7. LoopsOK'
    <3>1. l > m_numThreads => FALSE
      BY <2>1 DEF TypeOK
    <3> QED
      BY <2>1, <2>2, <2>6, <3>1 DEF LoopsOK
  <2> QED
    BY <2>2, <2>3, <2>4, <2>7 DEF StatesOK, Accepted, MapOK, Pending
<1>4. ASSUME BaseStops \/ BeginDisposal \/ EndDisposal
      PROVE  ServerInv'
  <2> USE <1>4 DEF BaseStops, BeginDisposal, EndDisposal
  <2>1. /\ Base \in Loops
        /\ status' \in [Loops -> {"none", "running", "quit", "stopped"}]
        /\ server' \in {"serving", "disposing", "gone"} /\ server \in {"serving", "disposing"}
        /\ \A k \in Loops : k # Base => status'[k] = status[k]
        /\ status'[Base] \in {status[Base], "stopped"}
        /\ server' = "gone" => \A k \in IoLoops : k # Base /\ k \in Loops /\ status[k] = "stopped"
    <3>1. Base \in Loops /\ IoLoops \subseteq Loops /\ Base \notin IoLoops
      BY TcpServerAssumption DEF Base, Loops, IoLoops, TypeOK
    <3>2. /\ status \in [Loops -> {"none", "running", "quit", "stopped"}]
          /\ status' = status \/ status' = [status EXCEPT ![Base] = "stopped"]
      BY DEF TypeOK
    <3>3. /\ server' \in {"serving", "disposing", "gone"} /\ server \in {"serving", "disposing"}
          /\ server' = "gone" => \A k \in IoLoops : status[k] = "stopped"
      OBVIOUS
    <3> HIDE <1>4
    <3> QED
      BY <3>1, <3>2, <3>3
  <2>2. UNCHANGED <<m_numThreads, m_nextConnId, m_next, m_connections, conn, queue, busy,
                    undefined>>
    OBVIOUS
  <2>3. TypeOK'
    BY <2>1, <2>2 DEF TypeOK, Accepted
  <2>4. HandlersOK'
    BY <2>1 DEF HandlersOK, TypeOK, Accepted, Active, Free
  <2>5. LoopsOK'
    <3>1. Base > m_numThreads => FALSE
      BY DEF TypeOK, Base
    <3>2. undefined = FALSE
      BY <2>1 DEF LoopsOK, TypeOK
    <3> QED
      BY <2>1, <2>2, <3>1, <3>2 DEF LoopsOK, IoLoops
  <2> QED
    BY <2>2, <2>3, <2>4, <2>5 DEF StatesOK, Accepted, MapOK, Pending
<1> QED
  BY <1>1, <1>2, <1>3, <1>4

LEMMA AcceptStep ==
  ASSUME ServerInv, newConnection
  PROVE  ServerInv'
<1> USE DEF ServerInv
<1> DEFINE c == m_nextConnId
           l == NextLoop
<1>1. /\ c \in Conns /\ c \in Nat /\ m_nextConnId' = c + 1
      /\ server = "serving" /\ server' = server
      /\ m_connections' = m_connections \cup {c}
      /\ UNCHANGED <<m_numThreads, status, busy, undefined>>
  BY DEF newConnection, TypeOK
<1>2. /\ l \in Loops /\ l <= m_numThreads
      /\ m_next' \in 0 .. m_numThreads /\ (m_numThreads > 0 => m_next' < m_numThreads)
  <2>1. /\ m_numThreads \in 0 .. MaxThreads /\ MaxThreads \in Nat
        /\ m_next \in 0 .. m_numThreads /\ (m_numThreads > 0 => m_next < m_numThreads)
    BY TcpServerAssumption DEF TypeOK
  <2>2. l \in Loops /\ l <= m_numThreads
    BY <2>1 DEF NextLoop, Loops, Base
  <2>3. m_next' = Advanced
    BY DEF newConnection
  <2>4. Advanced \in 0 .. m_numThreads /\ (m_numThreads > 0 => Advanced < m_numThreads)
    BY <2>1 DEF Advanced
  <2> QED
    BY <2>2, <2>3, <2>4
<1>3. /\ conn' \in [Conns -> Connections]
      /\ \A d \in Conns : d # c => conn'[d] = conn[d]
      /\ conn'[c].loop = l /\ conn'[c].closes = conn[c].closes
      /\ conn'[c].destroyed = conn[c].destroyed
      /\ conn'[c].state = IF l = Base THEN "kConnected" ELSE "kConnecting"
      /\ conn'[c].watched = (l = Base) /\ conn'[c].forcing = conn[c].forcing
  <2>1. conn \in [Conns -> Connections]
    BY DEF TypeOK, Connections
  <2>2. conn' = [conn EXCEPT ![c].loop = l,
                             ![c].state = IF l = Base THEN "kConnected" ELSE "kConnecting",
                             ![c].watched = (l = Base)]
    BY DEF newConnection
  <2> HIDE DEF c, l
  <2>3. CASE l = Base
    <3>1. conn' = [conn EXCEPT ![c].loop = l, ![c].state = "kConnected", ![c].watched = TRUE]
      BY <2>2, <2>3
    <3>2. conn' \in [Conns -> Connections]
      BY ZenonT(60), <1>1, <1>2, <2>1, <3>1 DEF Connections
    <3> QED
      BY <1>1, <1>2, <2>1, <2>3, <3>1, <3>2 DEF Connections
  <2>4. CASE l # Base
    <3>1. conn' = [conn EXCEPT ![c].loop = l, ![c].state = "kConnecting", ![c].watched = FALSE]
      BY <2>2, <2>4
    <3>2. conn' \in [Conns -> Connections]
      BY ZenonT(60), <1>1, <1>2, <2>1, <3>1 DEF Connections
    <3> QED
      BY <1>1, <1>2, <2>1, <2>4, <3>1, <3>2 DEF Connections
  <2> QED
    BY <2>3, <2>4
<1>4. /\ l = Base => queue' = queue
      /\ l # Base => queue' = Push(queue, l, "onConnectionEstablish", c)
  BY DEF newConnection
<1>5. conn[c].closes = 0 /\ conn[c].destroyed = 0 /\ ~Accepted(c) /\ conn[c].forcing = 0
  <2>1. ~Accepted(c)
    BY <1>1 DEF Accepted
  <2>2. conn[c].closes \in Nat /\ conn[c].destroyed \in Nat /\ conn[c].forcing \in Nat
    BY <1>1 DEF TypeOK
  <2>3. conn[c].state = "kConnecting"
    BY <1>1, <2>1 DEF StatesOK
  <2>4. ~(conn[c].closes > 0) /\ ~(conn[c].destroyed > 0) /\ ~(conn[c].forcing > 0)
    BY <1>1, <2>3 DEF StatesOK
  <2> QED
    BY <2>1, <2>2, <2>4
<1>6. \A k \in Loops : queue[k] \in Seq(Functors)
  BY DEF TypeOK
<1>7. \A k \in Loops : \A i \in DOMAIN queue[k] : queue[k][i].conn \in Conns /\ queue[k][i].conn < c
  <2>1. ASSUME NEW k \in Loops, NEW i \in DOMAIN queue[k]
        PROVE  queue[k][i] \in Functors
    BY <1>6, ElementOfSeq, LenProperties
  <2> QED
    BY <2>1 DEF QueuesOK, QueueOK, FunctorOK, Functors
<1> HIDE DEF l, c
<1>8. ASSUME NEW k \in Loops
      PROVE  QueueOK(queue[k], k, conn', c + 1)
  <2>1. QueueOK(queue[k], k, conn, c)
    BY DEF QueuesOK, c
  <2>2. \A i \in DOMAIN queue[k] : conn'[queue[k][i].conn] = conn[queue[k][i].conn]
    BY <1>1, <1>3, <1>7 DEF Conns
  <2> QED
    BY <1>1, <1>7, <2>1, <2>2 DEF QueueOK, FunctorOK, Conns
<1>9. ASSUME NEW d \in Conns, d < c + 1, conn'[d].state = "kConnecting", d # c
      PROVE  Awaited(queue[conn'[d].loop], d)
  BY <1>1, <1>3, <1>9 DEF QueuesOK, Conns, c
<1>10. QueuesOK(queue', conn', c + 1)
  <2>1. CASE l = Base
    BY <2>1, <1>3, <1>4, <1>8, <1>9 DEF QueuesOK
  <2>2. CASE l # Base
    <3> DEFINE f == Functor("onConnectionEstablish", c)
    <3>1. /\ queue'[l] = Append(queue[l], f)
          /\ \A k \in Loops : k # l => queue'[k] = queue[k]
          /\ queue' \in [Loops -> Seq(Functors)]
      <4>1. f \in Functors
        BY <1>1 DEF Functor, Functors
      <4>2. Append(queue[l], f) \in Seq(Functors)
        BY <4>1, <1>2, <1>6, AppendProperties
      <4> QED
        BY <4>1, <4>2, <1>2, <1>4, <2>2 DEF QueuesOK, Push
    <3>2. FunctorOK(f, l, conn', c + 1)
      BY <1>1, <1>3, <2>2 DEF FunctorOK, Functor
    <3>3. QueueOK(queue'[l], l, conn', c + 1)
      <4>1. \A i \in DOMAIN queue[l] : queue[l][i].conn # c
        BY <1>1, <1>2, <1>7
      <4> QED
        BY <4>1, <1>1, <1>2, <1>6, <1>8, <3>1, <3>2, AppendNewOK
    <3>4. f \in Functors /\ Awaited(queue'[l], c)
      <4>1. f \in Functors
        BY <1>1 DEF Functor, Functors
      <4>2. queue[l] \in Seq(Functors)
        BY <1>2, <1>6
      <4>3. \E i \in DOMAIN Append(queue[l], f) : Append(queue[l], f)[i] = f
        BY <4>1, <4>2, AppendHolds
      <4> QED
        BY <4>1, <4>3, <3>1 DEF Awaited
    <3>5. ASSUME NEW d \in Conns, d < c + 1, conn'[d].state = "kConnecting"
          PROVE  Awaited(queue'[conn'[d].loop], d)
      <4>1. CASE d = c
        BY <4>1, <1>3, <3>4
      <4>2. CASE d # c
        <5>1. Awaited(queue[conn'[d].loop], d)
          BY <4>2, <3>5, <1>9
        <5>2. Awaited(queue[l], d) => Awaited(queue'[l], d)
          BY <1>2, <1>6, <3>1, <3>4, AppendHolds DEF Awaited
        <5> QED
          BY <5>1, <5>2, <3>1, <1>3 DEF Connections
      <4> QED
        BY <4>1, <4>2
    <3> QED
      BY <1>8, <3>1, <3>3, <3>5 DEF QueuesOK
  <2> QED
    BY <2>1, <2>2
<1>11. TypeOK'
  <2>1. m_connections' \subseteq {d \in Conns : d < c + 1}
    BY <1>1 DEF TypeOK, Accepted, Conns, c
  <2>2. c + 1 \in 1 .. MaxConns + 1
    BY <1>1, TcpServerAssumption DEF Conns
  <2>3. m_nextConnId' = c + 1 /\ m_connections' \subseteq {d \in Conns : Accepted(d)'}
    BY <1>1, <2>1 DEF Accepted
  <2>4. queue' \in [Loops -> Seq(Functors)]
    BY <1>10 DEF QueuesOK
  <2> QED
    BY <2>2, <2>3, <2>4, <1>1, <1>2, <1>3 DEF TypeOK, Connections
<1>12. StatesOK'
  BY SMTT(30), <1>1, <1>2, <1>3, <1>5 DEF StatesOK, Accepted, Conns, TypeOK, Connections
<1>13. HandlersOK'
  BY <1>1, <1>3, <1>5 DEF HandlersOK, Accepted, Active, TypeOK, Conns
<1>14. MapOK'
  <2>1. ASSUME NEW d \in Conns, Pending(Base, "removeConnectionInLoop", d)
        PROVE  Pending(Base, "removeConnectionInLoop", d)'
    <3>1. CASE l = Base
      BY <3>1, <2>1, <1>4 DEF Pending
    <3>2. CASE l # Base
      <4>1. queue \in [Loops -> Seq(Functors)] /\ Base \in Loops
        BY TcpServerAssumption DEF TypeOK, Base, Loops
      <4>2. queue'[Base] = queue[Base]
        BY <3>2, <4>1, <1>4 DEF Push
      <4> QED
        BY <4>2, <2>1 DEF Pending
    <3> QED
      BY <3>1, <3>2
  <2>2. ASSUME NEW d \in Conns
        PROVE  /\ Accepted(d)' /\ conn'[d].closes = 0 => d \in m_connections'
               /\ d \in m_connections'
                    => conn'[d].closes = 0 \/ Pending(Base, "removeConnectionInLoop", d)'
    <3>1. CASE d = c
      BY <3>1, <1>1, <1>3, <1>5
    <3>2. CASE d # c
      BY <3>2, <2>1, <1>1, <1>3 DEF MapOK, Accepted, Conns, c
    <3> QED
      BY <3>1, <3>2
  <2> QED
    BY <2>2 DEF MapOK
<1>15. LoopsOK'
  BY <1>1 DEF LoopsOK, IoLoops
<1> QED
  BY <1>1, <1>10, <1>11, <1>12, <1>13, <1>14, <1>15 DEF c

\* The functor a loop runs next.
LEMMA HeadOK ==
  ASSUME ServerInv, NEW l \in Loops, queue[l] # <<>>
  PROVE  LET f == Head(queue[l])
         IN  /\ f \in Functors
             /\ FunctorOK(f, l, conn, m_nextConnId)
             /\ f.call = "onConnectionDestroy" => conn[f.conn].state # "kConnecting"
             /\ f = queue[l][1] /\ 1 \in DOMAIN queue[l]
             /\ queue[l] \in Seq(Functors)
<1> DEFINE f == Head(queue[l])
<1>1. /\ queue[l] \in Seq(Functors) /\ f = queue[l][1] /\ 1 \in DOMAIN queue[l]
      /\ \A j \in DOMAIN queue[l] : ~(j < 1)
  <2>1. queue[l] \in Seq(Functors)
    BY DEF ServerInv, TypeOK
  <2> QED
    BY <2>1, HeadTailProperties, EmptySeq, LenProperties
<1>2. f \in Functors
  <2>1. DOMAIN queue[l] = 1 .. Len(queue[l])
    BY <1>1, LenProperties
  <2> QED
    BY <1>1, <2>1, ElementOfSeq
<1>3. QueueOK(queue[l], l, conn, m_nextConnId)
  BY DEF ServerInv, QueuesOK
<1> QED
  BY <1>1, <1>2, <1>3 DEF QueueOK

\* A connection is closed, in a handler or a functor of its loop.
LEMMA CloseStep ==
  ASSUME ServerInv, NEW l \in Loops, NEW c \in Conns, NEW q, onClose(l, c, q),
         Active(l), Accepted(c), conn[c].loop = l, conn[c].state # "kConnecting",
         QueuesOK(q, conn, m_nextConnId),
         \A d \in Conns : Pending(Base, "removeConnectionInLoop", d)
            => \E i \in DOMAIN q[Base] : q[Base][i] = Functor("removeConnectionInLoop", d),
         UNCHANGED <<m_numThreads, m_nextConnId, m_next, status, busy, server>>
  PROVE  ServerInv'
<1> USE DEF ServerInv
<1>1. /\ conn' \in [Conns -> Connections]
      /\ \A d \in Conns : d # c => conn'[d] = conn[d]
      /\ conn'[c].loop = l /\ conn'[c].closes = conn[c].closes + 1 /\ conn'[c].closes > 0
      /\ conn'[c].destroyed = conn[c].destroyed /\ conn'[c].state = "kDisconnected"
  <2>1. conn \in [Conns -> Connections] /\ conn' = Closed(c)
    BY DEF onClose, TypeOK, Connections
  <2>2. conn[c].closes + 1 \in Nat /\ conn[c].closes + 1 > 0
    BY <2>1 DEF Connections
  <2> QED
    BY <2>1, <2>2 DEF Closed, Connections
<1>2. QueuesOK(q, conn', m_nextConnId)
  <2>1. conn \in [Conns -> Connections]
    BY DEF TypeOK, Connections
  <2>2. \A d \in Conns : /\ conn'[d].loop = conn[d].loop
                         /\ conn[d].closes > 0 => conn'[d].closes > 0
                         /\ conn'[d].state = "kConnecting" <=> conn[d].state = "kConnecting"
    BY <1>1
  <2> QED
    BY <1>1, <2>1, <2>2, ConnsOK
<1>3. Base \in Loops /\ m_connections' \subseteq m_connections
      /\ m_connections \ {c} \subseteq m_connections'
  BY TcpServerAssumption DEF Base, Loops, onClose, removeConnection, removeConnectionInLoop
<1>4. /\ QueuesOK(queue', conn', m_nextConnId)
      /\ \A d \in Conns : Pending(Base, "removeConnectionInLoop", d)
                            => Pending(Base, "removeConnectionInLoop", d)'
      /\ server # "gone" => c \notin m_connections' \/ Pending(Base, "removeConnectionInLoop", c)'
  <2>1. CASE server = "gone"
    BY <2>1, <1>2 DEF onClose, Pending
  <2>2. CASE server # "gone" /\ l = Base
    <3>1. /\ queue' = Push(q, l, "onConnectionDestroy", c)
          /\ m_connections' = m_connections \ {c}
      BY <2>2 DEF onClose, removeConnection, removeConnectionInLoop
    <3>2. /\ Functor("onConnectionDestroy", c) \in Functors
          /\ FunctorOK(Functor("onConnectionDestroy", c), l, conn', m_nextConnId)
      BY <1>1 DEF Functor, Functors, FunctorOK, Accepted
    <3>3. QueuesOK(queue', conn', m_nextConnId)
      BY <3>1, <3>2, <1>1, <1>2, PushOK
    <3>4. q[Base] \in Seq(Functors) /\ queue'[Base] = Append(q[Base], Functor("onConnectionDestroy", c))
      BY <3>1, <1>3, <2>2 DEF Push, QueuesOK
    <3>5. \A i \in DOMAIN q[Base] : i \in DOMAIN queue'[Base] /\ queue'[Base][i] = q[Base][i]
      BY <3>2, <3>4, AppendHolds
    <3> QED
      BY <3>1, <3>3, <3>5 DEF Pending
  <2>3. CASE server # "gone" /\ l # Base
    <3>1. queue' = Push(q, Base, "removeConnectionInLoop", c)
      BY <2>3 DEF onClose, removeConnection
    <3>2. /\ Functor("removeConnectionInLoop", c) \in Functors
          /\ FunctorOK(Functor("removeConnectionInLoop", c), Base, conn', m_nextConnId)
      BY <1>1, <2>3 DEF Functor, Functors, FunctorOK, Accepted
    <3>3. QueuesOK(queue', conn', m_nextConnId)
      BY <3>1, <3>2, <1>1, <1>2, <1>3, PushOK
    <3>4. q[Base] \in Seq(Functors)
          /\ queue'[Base] = Append(q[Base], Functor("removeConnectionInLoop", c))
      BY <3>1, <1>3 DEF Push, QueuesOK
    <3>5. /\ \A i \in DOMAIN q[Base] : i \in DOMAIN queue'[Base] /\ queue'[Base][i] = q[Base][i]
          /\ \E i \in DOMAIN queue'[Base] : queue'[Base][i] = Functor("removeConnectionInLoop", c)
      BY <3>2, <3>4, AppendHolds
    <3> QED
      BY <3>3, <3>5 DEF Pending
  <2> QED
    BY <2>1, <2>2, <2>3
<1>5. TypeOK'
  BY <1>1, <1>3, <1>4 DEF TypeOK, Accepted, QueuesOK, Connections, onClose
<1>6. StatesOK'
  BY <1>1 DEF StatesOK, Accepted
<1>7. HandlersOK'
  <2>1. \A k \in Loops : busy[k] # NoConn => busy[k] \in Conns
    BY DEF TypeOK
  <2>2. \A k \in Loops : busy[k] # NoConn
          => /\ conn'[busy[k]].loop = conn[busy[k]].loop
             /\ conn'[busy[k]].destroyed = conn[busy[k]].destroyed
             /\ conn[busy[k]].state # "kConnecting" => conn'[busy[k]].state # "kConnecting"
    BY <1>1, <2>1
  <2> QED
    BY <2>2 DEF HandlersOK, Accepted, Active
<1>8. MapOK'
  BY <1>1, <1>3, <1>4 DEF MapOK, Accepted
<1>9. LoopsOK'
  <2>1. server = "gone" => l = Base /\ status[Base] = "running"
    BY DEF LoopsOK, Active, IoLoops, Loops, Base, TypeOK
  <2> QED
    BY <2>1 DEF LoopsOK, IoLoops, onClose
<1> QED
  BY <1>4, <1>5, <1>6, <1>7, <1>8, <1>9

\* What MapOK needs of the queue of the base loop when one is popped.
LEMMA PopKeepsPending ==
  ASSUME ServerInv, NEW l \in Loops, queue[l] # <<>>, NEW d \in Conns,
         Pending(Base, "removeConnectionInLoop", d),
         Head(queue[l]) # Functor("removeConnectionInLoop", d)
  PROVE  \E i \in DOMAIN Popped(l)[Base] :
            Popped(l)[Base][i] = Functor("removeConnectionInLoop", d)
<1>1. queue \in [Loops -> Seq(Functors)] /\ Base \in Loops
  BY TcpServerAssumption DEF ServerInv, TypeOK, Base, Loops
<1>2. CASE l = Base
  <2>1. Popped(l)[Base] = Tail(queue[Base]) /\ queue[Base] \in Seq(Functors)
    BY <1>1, <1>2 DEF Popped
  <2>2. /\ queue[Base] # <<>> /\ Head(queue[Base]) # Functor("removeConnectionInLoop", d)
        /\ \E i \in DOMAIN queue[Base] : queue[Base][i] = Functor("removeConnectionInLoop", d)
    BY <1>2 DEF Pending
  <2>3. \E i \in DOMAIN Tail(queue[Base]) :
          Tail(queue[Base])[i] = Functor("removeConnectionInLoop", d)
    BY <2>1, <2>2, TailHolds
  <2> QED
    BY <2>1, <2>3
<1>3. CASE l # Base
  <2>1. Popped(l)[Base] = queue[Base]
    BY <1>1, <1>3 DEF Popped
  <2> QED
    BY <2>1 DEF Pending
<1> QED
  BY <1>2, <1>3

\* forceClose has tested the state.
LEMMA BeginForceStep ==
  ASSUME ServerInv, NEW c \in Conns, BeginForceClose(c)
  PROVE  ServerInv'
<1> USE DEF ServerInv
<1>1. conn \in [Conns -> Connections] /\ conn[c].state # "kConnecting"
      /\ conn[c].forced + 1 \in 0 .. MaxForced /\ conn[c].forcing + 1 \in Nat
  <2>1. conn \in [Conns -> Connections] /\ conn[c].forced < MaxForced
    BY DEF BeginForceClose, TypeOK, Connections
  <2>2. conn[c].state # "kConnecting"
    BY DEF BeginForceClose, Open
  <2> QED
    BY <2>1, <2>2, TcpServerAssumption DEF Connections
<1>2. /\ conn' \in [Conns -> Connections]
      /\ \A d \in Conns :
           /\ conn'[d].loop = conn[d].loop /\ conn'[d].state = conn[d].state
           /\ conn'[d].watched = conn[d].watched
           /\ conn'[d].closes = conn[d].closes /\ conn'[d].destroyed = conn[d].destroyed
           /\ d # c => conn'[d] = conn[d]
  BY <1>1 DEF BeginForceClose, Connections
<1>3. UNCHANGED <<m_numThreads, m_nextConnId, m_next, m_connections, queue, status, busy, server,
                  undefined>>
  BY DEF BeginForceClose
<1>4. QueuesOK(queue, conn', m_nextConnId)
  BY <1>1, <1>2, ConnsOK
<1>5. TypeOK'
  BY <1>2, <1>3 DEF TypeOK, Accepted, Connections
<1>6. StatesOK'
  BY <1>1, <1>2, <1>3 DEF StatesOK, Accepted
<1>7. HandlersOK'
  <2>1. \A k \in Loops : busy[k] # NoConn => busy[k] \in Conns
    BY DEF TypeOK
  <2> QED
    BY <1>2, <1>3, <2>1 DEF HandlersOK, Accepted, Active
<1>8. MapOK' /\ LoopsOK'
  BY <1>2, <1>3 DEF MapOK, Accepted, Pending, LoopsOK, IoLoops
<1> QED
  BY <1>3, <1>4, <1>5, <1>6, <1>7, <1>8

LEMMA ForceStep ==
  ASSUME ServerInv, NEW c \in Conns, forceClose(c)
  PROVE  ServerInv'
<1> USE DEF ServerInv
<1>1. conn \in [Conns -> Connections] /\ conn[c].state # "kConnecting" /\ Accepted(c)
      /\ conn[c].loop \in Loops /\ conn[c].forcing - 1 \in Nat
  BY DEF forceClose, TypeOK, StatesOK, Connections
<1>2. /\ conn' \in [Conns -> Connections]
      /\ \A d \in Conns : d # c => conn'[d] = conn[d]
      /\ conn'[c].loop = conn[c].loop /\ conn'[c].closes = conn[c].closes
      /\ conn'[c].destroyed = conn[c].destroyed /\ conn'[c].state = "kDisconnecting"
  BY <1>1 DEF forceClose, Connections
<1>3. QueuesOK(queue, conn', m_nextConnId)
  BY <1>1, <1>2, ConnsOK
<1>4. queue' = Push(queue, conn[c].loop, "forceCloseInLoop", c)
      /\ UNCHANGED <<m_numThreads, m_nextConnId, m_next, m_connections, status, busy, server,
                     undefined>>
  BY DEF forceClose
<1>5. /\ Functor("forceCloseInLoop", c) \in Functors
      /\ FunctorOK(Functor("forceCloseInLoop", c), conn[c].loop, conn', m_nextConnId)
  BY <1>1, <1>2 DEF Functor, Functors, FunctorOK, Accepted
<1>6. QueuesOK(queue', conn', m_nextConnId)
  BY <1>1, <1>2, <1>3, <1>4, <1>5, PushOK
<1>7. ASSUME NEW d \in Conns, Pending(Base, "removeConnectionInLoop", d)
      PROVE  Pending(Base, "removeConnectionInLoop", d)'
  <2>1. queue \in [Loops -> Seq(Functors)] /\ Base \in Loops
    BY TcpServerAssumption DEF TypeOK, Base, Loops
  <2>2. queue'[Base] = queue[Base] \/ queue'[Base] = Append(queue[Base], Functor("forceCloseInLoop", c))
    BY <2>1, <1>4 DEF Push
  <2>3. queue[Base] \in Seq(Functors)
    BY <2>1
  <2>4. \A i \in DOMAIN queue[Base] : i \in DOMAIN queue'[Base] /\ queue'[Base][i] = queue[Base][i]
    BY <2>2, <2>3, <1>5, AppendHolds
  <2> QED
    BY <2>4, <1>7 DEF Pending
<1>8. TypeOK'
  BY <1>2, <1>4, <1>6 DEF TypeOK, Accepted, QueuesOK, Connections
<1>9. StatesOK'
  BY <1>1, <1>2, <1>4 DEF StatesOK, Accepted, Connections
<1>10. HandlersOK'
  <2>1. \A k \in Loops : busy[k] # NoConn => busy[k] \in Conns
    BY DEF TypeOK
  <2>2. \A k \in Loops : busy[k] # NoConn
          => /\ conn'[busy[k]].loop = conn[busy[k]].loop
             /\ conn'[busy[k]].destroyed = conn[busy[k]].destroyed
             /\ conn[busy[k]].state # "kConnecting" => conn'[busy[k]].state # "kConnecting"
    BY <1>2, <2>1
  <2> QED
    BY <2>2, <1>4 DEF HandlersOK, Accepted, Active
<1>11. MapOK' /\ LoopsOK'
  BY <1>2, <1>4, <1>7 DEF MapOK, Accepted, LoopsOK, IoLoops
<1> QED
  BY <1>4, <1>6, <1>8, <1>9, <1>10, <1>11

\* onClose in a handler, and in the functor of forceClose.
LEMMA CallCloseStep ==
  ASSUME ServerInv, NEW l \in Loops, CallClose(l)
  PROVE  ServerInv'
<1> DEFINE c == busy[l]
<1>1. /\ c \in Conns /\ Accepted(c) /\ conn[c].loop = l /\ conn[c].state # "kConnecting"
      /\ Active(l)
  BY DEF ServerInv, CallClose, HandlersOK, TypeOK
<1>2. /\ QueuesOK(queue, conn, m_nextConnId) /\ onClose(l, c, queue)
      /\ UNCHANGED <<m_numThreads, m_nextConnId, m_next, status, busy, server>>
  BY DEF ServerInv, CallClose
<1>3. \A d \in Conns : Pending(Base, "removeConnectionInLoop", d)
        => \E i \in DOMAIN queue[Base] : queue[Base][i] = Functor("removeConnectionInLoop", d)
  BY DEF Pending
<1> HIDE DEF c
<1> QED
  BY <1>1, <1>2, <1>3, CloseStep

LEMMA RunForceCloseStep ==
  ASSUME ServerInv, NEW l \in Loops, RunForceClose(l)
  PROVE  ServerInv'
<1> DEFINE c == Head(queue[l]).conn
           q == Popped(l)
<1>1. /\ Active(l) /\ queue[l] # <<>> /\ Head(queue[l]).call = "forceCloseInLoop"
      /\ UNCHANGED <<m_numThreads, m_nextConnId, m_next, status, busy, server>>
      /\ Open(c) => onClose(l, c, q)
      /\ ~Open(c) => queue' = q /\ UNCHANGED <<m_connections, conn, undefined>>
  BY DEF RunForceClose, Runs, Free
<1>2. c \in Conns /\ Accepted(c) /\ conn[c].loop = l
  BY <1>1, HeadOK DEF FunctorOK, Functors, Accepted
<1>3. conn \in [Conns -> Connections] /\ QueuesOK(queue, conn, m_nextConnId)
  BY DEF ServerInv, TypeOK, Connections
<1>4. QueuesOK(q, conn, m_nextConnId)
  BY <1>1, <1>3, PopOK DEF Popped
<1>5. ASSUME NEW d \in Conns, Pending(Base, "removeConnectionInLoop", d)
      PROVE  \E i \in DOMAIN q[Base] : q[Base][i] = Functor("removeConnectionInLoop", d)
  <2>1. Head(queue[l]) # Functor("removeConnectionInLoop", d)
    BY <1>1 DEF Functor
  <2> QED
    BY <1>1, <1>5, <2>1, PopKeepsPending
<1> HIDE DEF c, q
<1>6. CASE Open(c)
  <2>1. conn[c].state # "kConnecting"
    BY <1>6 DEF Open
  <2> QED
    BY <2>1, <1>1, <1>2, <1>4, <1>5, <1>6, CloseStep
<1>7. CASE ~Open(c)
  <2>1. \A d \in Conns : Pending(Base, "removeConnectionInLoop", d)
                           => Pending(Base, "removeConnectionInLoop", d)'
    BY <1>1, <1>5, <1>7 DEF Pending
  <2>2. QueuesOK(queue, conn, m_nextConnId)' /\ TypeOK'
    BY <1>1, <1>4, <1>7 DEF ServerInv, TypeOK, Accepted, QueuesOK
  <2>3. StatesOK' /\ HandlersOK' /\ LoopsOK'
    BY <1>1, <1>7 DEF ServerInv, StatesOK, HandlersOK, LoopsOK, Accepted, Active, IoLoops
  <2>4. MapOK'
    BY <1>1, <1>7, <2>1 DEF ServerInv, MapOK, Accepted
  <2> QED
    BY <2>2, <2>3, <2>4 DEF ServerInv
<1> QED
  BY <1>6, <1>7

\* onConnectionEstablish leaves its queue, and the connection is established.
LEMMA TailEstablishOK ==
  ASSUME NEW s \in Seq(Functors), NEW l, NEW cn, NEW n, QueueOK(s, l, cn, n), s # <<>>,
         NEW c, Head(s) = Functor("onConnectionEstablish", c),
         NEW dn, \A d \in Conns : /\ dn[d].loop = cn[d].loop /\ dn[d].closes = cn[d].closes
                                  /\ d # c => dn[d].state = cn[d].state,
         dn[c].state # "kConnecting"
  PROVE  QueueOK(Tail(s), l, dn, n)
<1> DEFINE t == Tail(s)
<1>1. /\ t \in Seq(Functors) /\ Len(t) = Len(s) - 1 /\ Head(s) = s[1] /\ Len(s) > 0
      /\ \A i \in 1 .. Len(t) : t[i] = s[i + 1]
  BY HeadTailProperties, EmptySeq
<1>2. DOMAIN s = 1 .. Len(s) /\ DOMAIN t = 1 .. Len(s) - 1 /\ Len(s) \in Nat
  BY <1>1, LenProperties
<1>3. \A i \in DOMAIN t : t[i].conn \in Conns /\ t[i] = Functor(t[i].call, t[i].conn)
  <2>1. \A i \in DOMAIN t : t[i] \in Functors
    BY <1>1, <1>2, ElementOfSeq
  <2> QED
    BY <2>1 DEF Functors, Functor
<1> HIDE DEF t
<1>4. ASSUME NEW i \in DOMAIN t
      PROVE  /\ FunctorOK(t[i], l, dn, n)
             /\ t[i].call = "onConnectionEstablish" => \A j \in DOMAIN t : t[j] = t[i] => j = i
             /\ t[i].call = "onConnectionDestroy" /\ dn[t[i].conn].state = "kConnecting"
                  => \E j \in DOMAIN t : j < i
                       /\ t[j] = Functor("onConnectionEstablish", t[i].conn)
  <2>1. i + 1 \in DOMAIN s /\ t[i] = s[i + 1] /\ 1 \in DOMAIN s /\ i + 1 # 1
    BY <1>1, <1>2
  <2>2. t[i].call = "onConnectionEstablish" => t[i].conn # c
    <3>1. s[1].call = "onConnectionEstablish" /\ s[1] = Functor("onConnectionEstablish", c)
      BY <1>1 DEF Functor
    <3>2. \A j \in DOMAIN s : s[j] = s[1] => j = 1
      BY <2>1, <3>1 DEF QueueOK
    <3> QED
      BY <2>1, <3>1, <3>2, <1>3
  <2>3. FunctorOK(s[i + 1], l, cn, n)
    BY <2>1 DEF QueueOK
  <2>4. FunctorOK(t[i], l, dn, n)
    BY <2>1, <2>2, <2>3, <1>3 DEF FunctorOK
  <2>5. ASSUME t[i].call = "onConnectionEstablish", NEW j \in DOMAIN t, t[j] = t[i]
        PROVE  j = i
    <3>1. j + 1 \in DOMAIN s /\ t[j] = s[j + 1]
      BY <1>1, <1>2
    <3>2. s[i + 1].call = "onConnectionEstablish" /\ s[j + 1] = s[i + 1]
      BY <2>1, <2>5, <3>1
    <3>3. j + 1 = i + 1
      BY <2>1, <3>1, <3>2 DEF QueueOK
    <3> QED
      BY <3>3, <1>2
  <2>6. ASSUME t[i].call = "onConnectionDestroy", dn[t[i].conn].state = "kConnecting"
        PROVE  \E j \in DOMAIN t : j < i /\ t[j] = Functor("onConnectionEstablish", t[i].conn)
    <3>1. t[i].conn # c /\ cn[t[i].conn].state = "kConnecting"
      BY <2>6, <1>3
    <3>2. PICK j \in DOMAIN s : j < i + 1 /\ s[j] = Functor("onConnectionEstablish", t[i].conn)
      BY <2>1, <2>6, <3>1 DEF QueueOK
    <3>3. j # 1
      BY <1>1, <3>1, <3>2 DEF Functor
    <3>4. j - 1 \in DOMAIN t /\ t[j - 1] = s[j]
      BY <3>2, <3>3, <1>1, <1>2
    <3> QED
      BY <3>2, <3>4, <1>2
  <2> QED
    BY <2>4, <2>5, <2>6
<1> QED
  BY <1>4 DEF QueueOK, t

LEMMA RunEstablishStep ==
  ASSUME ServerInv, NEW l \in Loops, RunEstablish(l)
  PROVE  ServerInv'
<1> DEFINE c == Head(queue[l]).conn
           q == Popped(l)
<1>1. /\ queue[l] # <<>> /\ Head(queue[l]).call = "onConnectionEstablish"
      /\ busy[l] = NoConn /\ queue' = q
      /\ UNCHANGED <<m_numThreads, m_nextConnId, m_next, m_connections, status, busy, server,
                     undefined>>
      /\ conn' = [conn EXCEPT ![c].state = "kConnected", ![c].watched = TRUE]
  BY DEF RunEstablish, Runs, Free
<1>2. /\ c \in Conns /\ Accepted(c) /\ conn[c].loop = l /\ conn[c].state = "kConnecting"
      /\ Head(queue[l]) = Functor("onConnectionEstablish", c) /\ l # Base
      /\ queue[l] \in Seq(Functors)
  BY <1>1, HeadOK DEF FunctorOK, Functors, Functor, Accepted
<1>3. /\ conn \in [Conns -> Connections] /\ QueuesOK(queue, conn, m_nextConnId)
      /\ queue \in [Loops -> Seq(Functors)]
  BY DEF ServerInv, TypeOK, Connections
<1> HIDE DEF c
<1>4. /\ conn' \in [Conns -> Connections]
      /\ \A d \in Conns : d # c => conn'[d] = conn[d]
      /\ conn'[c].loop = conn[c].loop /\ conn'[c].closes = conn[c].closes
      /\ conn'[c].destroyed = conn[c].destroyed /\ conn'[c].state = "kConnected"
  BY <1>1, <1>2, <1>3 DEF Connections
<1>5. /\ q[l] = Tail(queue[l]) /\ \A k \in Loops : k # l => q[k] = queue[k]
      /\ q \in [Loops -> Seq(Functors)]
  <2>1. Tail(queue[l]) \in Seq(Functors)
    BY <1>1, <1>2, HeadTailProperties
  <2> QED
    BY <2>1, <1>3 DEF Popped
<1> HIDE DEF q
<1>6. QueuesOK(q, conn', m_nextConnId)
  <2>1. QueueOK(q[l], l, conn', m_nextConnId)
    <3>1. QueueOK(queue[l], l, conn, m_nextConnId)
      BY <1>3 DEF QueuesOK
    <3>2. \A d \in Conns : /\ conn'[d].loop = conn[d].loop /\ conn'[d].closes = conn[d].closes
                           /\ d # c => conn'[d].state = conn[d].state
      BY <1>4
    <3>3. conn'[c].state # "kConnecting"
      BY <1>4
    <3>4. /\ queue[l] \in Seq(Functors) /\ queue[l] # <<>>
          /\ Head(queue[l]) = Functor("onConnectionEstablish", c)
      BY <1>1, <1>2
    <3>5. QueueOK(Tail(queue[l]), l, conn', m_nextConnId)
      BY <3>1, <3>2, <3>3, <3>4, TailEstablishOK
    <3> QED
      BY <3>5, <1>5
  <2>2. ASSUME NEW k \in Loops, k # l
        PROVE  QueueOK(q[k], k, conn', m_nextConnId)
    <3>1. QueueOK(queue[k], k, conn, m_nextConnId) /\ queue[k] \in Seq(Functors)
      BY <1>3 DEF QueuesOK
    <3>2. \A i \in DOMAIN queue[k] : queue[k][i].conn \in Conns
      <4>1. DOMAIN queue[k] = 1 .. Len(queue[k])
            /\ \A i \in 1 .. Len(queue[k]) : queue[k][i] \in Functors
        BY <3>1, ElementOfSeq, LenProperties
      <4> QED
        BY <4>1 DEF Functors
    <3>3. \A i \in DOMAIN queue[k] : queue[k][i].call = "onConnectionEstablish"
                                       => queue[k][i].conn # c
      BY <3>1, <1>2, <2>2 DEF QueueOK, FunctorOK
    <3>4. \A d \in Conns : /\ conn'[d].loop = conn[d].loop /\ conn'[d].closes = conn[d].closes
                           /\ d # c => conn'[d].state = conn[d].state
      BY <1>4
    <3>5. q[k] = queue[k] /\ conn'[c].state # "kConnecting"
      BY <1>4, <1>5, <2>2
    <3>6. \A i \in DOMAIN queue[k] : FunctorOK(queue[k][i], k, conn', m_nextConnId)
      BY <3>1, <3>2, <3>3, <3>4 DEF QueueOK, FunctorOK
    <3>7. \A i \in DOMAIN queue[k] : conn'[queue[k][i].conn].state = "kConnecting"
                                       => conn[queue[k][i].conn].state = "kConnecting"
      BY <3>2, <3>4, <3>5
    <3> QED
      BY <3>1, <3>5, <3>6, <3>7 DEF QueueOK
  <2>3. ASSUME NEW d \in Conns, d < m_nextConnId, conn'[d].state = "kConnecting"
        PROVE  Awaited(q[conn'[d].loop], d)
    <3>1. d # c /\ Awaited(queue[conn[d].loop], d) /\ conn'[d].loop = conn[d].loop
          /\ conn[d].loop \in Loops
      BY <2>3, <1>3, <1>4 DEF QueuesOK, Connections
    <3>2. Functor("onConnectionEstablish", d) # Head(queue[l])
      BY <3>1, <1>2 DEF Functor
    <3>3. Awaited(queue[l], d) => Awaited(q[l], d)
      <4>1. queue[l] \in Seq(Functors) /\ queue[l] # <<>> /\ q[l] = Tail(queue[l])
        BY <1>1, <1>2, <1>5
      <4>2. ASSUME \E i \in DOMAIN queue[l] : queue[l][i] = Functor("onConnectionEstablish", d)
            PROVE  \E i \in DOMAIN Tail(queue[l]) :
                      Tail(queue[l])[i] = Functor("onConnectionEstablish", d)
        BY <3>2, <4>1, <4>2, TailHolds
      <4> QED
        BY <4>1, <4>2 DEF Awaited
    <3> QED
      BY <3>1, <3>3, <1>5
  <2> QED
    BY <2>1, <2>2, <2>3, <1>5 DEF QueuesOK
<1>7. ASSUME NEW d \in Conns, Pending(Base, "removeConnectionInLoop", d)
      PROVE  Pending(Base, "removeConnectionInLoop", d)'
  <2>1. queue'[Base] = queue[Base]
    <3>1. Base \in Loops
      BY TcpServerAssumption DEF Base, Loops
    <3>2. queue' = q /\ Base # l
      BY <1>1, <1>2
    <3> QED
      BY <1>5, <3>1, <3>2
  <2> QED
    BY <2>1, <1>7 DEF Pending
<1>8. TypeOK'
  BY <1>1, <1>4, <1>6 DEF ServerInv, TypeOK, Accepted, QueuesOK, Connections
<1>9. StatesOK'
  BY <1>1, <1>2, <1>3, <1>4 DEF ServerInv, StatesOK, Accepted, Connections
<1>10. HandlersOK'
  <2>1. \A k \in Loops : busy[k] # NoConn => busy[k] \in Conns
    BY DEF ServerInv, TypeOK
  <2>2. \A k \in Loops : busy[k] # NoConn
          => /\ conn'[busy[k]].loop = conn[busy[k]].loop
             /\ conn'[busy[k]].destroyed = conn[busy[k]].destroyed
             /\ conn[busy[k]].state # "kConnecting" => conn'[busy[k]].state # "kConnecting"
    BY <1>4, <2>1
  <2> QED
    BY <2>2, <1>1 DEF ServerInv, HandlersOK, Accepted, Active
<1>11. MapOK' /\ LoopsOK'
  BY <1>1, <1>4, <1>7 DEF ServerInv, MapOK, Accepted, LoopsOK, IoLoops
<1> QED
  BY <1>1, <1>6, <1>8, <1>9, <1>10, <1>11 DEF ServerInv

\* removeConnectionInLoop in the base loop.
LEMMA RunRemoveStep ==
  ASSUME ServerInv, RunRemove
  PROVE  ServerInv'
<1> DEFINE c == Head(queue[Base]).conn
           q == Popped(Base)
<1>1. /\ Base \in Loops /\ Active(Base) /\ queue[Base] # <<>>
      /\ Head(queue[Base]).call = "removeConnectionInLoop"
      /\ UNCHANGED <<m_numThreads, m_nextConnId, m_next, conn, status, busy, server>>
      /\ server = "gone" => undefined' = TRUE /\ queue' = q /\ UNCHANGED m_connections
      /\ server # "gone" => removeConnectionInLoop(c, q) /\ UNCHANGED undefined
  BY TcpServerAssumption DEF RunRemove, Runs, Free, Base, Loops
<1>2. /\ c \in Conns /\ Accepted(c) /\ conn[c].closes > 0
      /\ Head(queue[Base]) = Functor("removeConnectionInLoop", c)
  BY <1>1, HeadOK DEF FunctorOK, Functors, Functor, Accepted
<1>3. /\ conn \in [Conns -> Connections] /\ QueuesOK(queue, conn, m_nextConnId)
      /\ conn[c].loop \in Loops
  BY <1>2 DEF ServerInv, TypeOK, Connections
<1>4. QueuesOK(q, conn, m_nextConnId)
  BY <1>1, <1>3, PopOK DEF Popped
<1>5. ASSUME NEW d \in Conns, d # c, Pending(Base, "removeConnectionInLoop", d)
      PROVE  \E i \in DOMAIN q[Base] : q[Base][i] = Functor("removeConnectionInLoop", d)
  <2>1. Head(queue[Base]) # Functor("removeConnectionInLoop", d)
    BY <1>2, <1>5 DEF Functor
  <2> QED
    BY <1>1, <1>5, <2>1, PopKeepsPending
<1> HIDE DEF c, q
<1>6. /\ QueuesOK(queue', conn, m_nextConnId)
      /\ server # "gone" => \A i \in DOMAIN q[Base] : i \in DOMAIN queue'[Base]
                                                      /\ queue'[Base][i] = q[Base][i]
  <2>1. CASE server = "gone"
    BY <2>1, <1>1, <1>4
  <2>2. CASE server # "gone"
    <3>1. queue' = Push(q, conn[c].loop, "onConnectionDestroy", c)
      BY <2>2, <1>1 DEF removeConnectionInLoop
    <3>2. /\ Functor("onConnectionDestroy", c) \in Functors
          /\ FunctorOK(Functor("onConnectionDestroy", c), conn[c].loop, conn, m_nextConnId)
      BY <1>2 DEF Functor, Functors, FunctorOK, Accepted
    <3>3. conn[c].state # "kConnecting"
      BY <1>2 DEF ServerInv, StatesOK
    <3>4. QueuesOK(queue', conn, m_nextConnId)
      BY <3>1, <3>2, <3>3, <1>3, <1>4, PushOK
    <3>5. q[Base] \in Seq(Functors)
          /\ (queue'[Base] = q[Base]
              \/ queue'[Base] = Append(q[Base], Functor("onConnectionDestroy", c)))
      BY <3>1, <1>1, <1>4 DEF Push, QueuesOK
    <3>6. \A i \in DOMAIN q[Base] : i \in DOMAIN queue'[Base] /\ queue'[Base][i] = q[Base][i]
      BY <3>2, <3>5, AppendHolds
    <3> QED
      BY <3>4, <3>6
  <2> QED
    BY <2>1, <2>2
<1>7. m_connections' \subseteq m_connections /\ m_connections \ {c} \subseteq m_connections'
      /\ (server # "gone" => c \notin m_connections')
  BY <1>1 DEF removeConnectionInLoop
<1>8. TypeOK'
  BY <1>1, <1>6, <1>7 DEF ServerInv, TypeOK, Accepted, QueuesOK
<1>9. StatesOK' /\ HandlersOK'
  BY <1>1 DEF ServerInv, StatesOK, HandlersOK, Accepted, Active
<1>10. MapOK'
  BY <1>1, <1>2, <1>5, <1>6, <1>7 DEF ServerInv, MapOK, Accepted, Pending
<1>11. LoopsOK'
  <2>1. server = "gone" => status[Base] = "running"
    BY <1>1 DEF ServerInv, LoopsOK, Active
  <2> QED
    BY <2>1, <1>1 DEF ServerInv, LoopsOK, IoLoops
<1> QED
  BY <1>1, <1>6, <1>8, <1>9, <1>10, <1>11 DEF ServerInv

\* onConnectionDestroy of a connection no handler of which is run.
LEMMA DestroyedStep ==
  ASSUME ServerInv, NEW c \in Conns, conn' = Destroyed(c), conn[c].state # "kConnecting",
         \A l \in Loops : busy[l] # c,
         UNCHANGED <<m_numThreads, m_nextConnId, m_next, status, busy, server, undefined>>
  PROVE  /\ conn' \in [Conns -> Connections]
         /\ \A q : QueuesOK(q, conn, m_nextConnId) => QueuesOK(q, conn', m_nextConnId)
         /\ \A d \in Conns : conn'[d].closes = conn[d].closes
         /\ StatesOK' /\ HandlersOK' /\ LoopsOK'
<1>1. conn \in [Conns -> Connections]
  BY DEF ServerInv, TypeOK, Connections
<1>2. /\ conn' \in [Conns -> Connections]
      /\ \A d \in Conns : d # c => conn'[d] = conn[d]
      /\ conn'[c].loop = conn[c].loop /\ conn'[c].closes = conn[c].closes
      /\ conn'[c].destroyed = conn[c].destroyed + 1
      /\ conn'[c].state = IF conn[c].state = "kConnected" THEN "kDisconnected" ELSE conn[c].state
  <2>1. CASE conn[c].state = "kConnected"
    <3>1. conn' = [conn EXCEPT ![c].destroyed = @ + 1, ![c].watched = FALSE,
                               ![c].state = "kDisconnected"]
      BY <1>1, <2>1 DEF Destroyed, Connections
    <3> QED
      BY <1>1, <2>1, <3>1 DEF Connections
  <2>2. CASE conn[c].state # "kConnected"
    <3> DEFINE r == [conn[c] EXCEPT !.destroyed = @ + 1, !.watched = FALSE]
    <3>1. /\ r \in Connections /\ r.loop = conn[c].loop /\ r.closes = conn[c].closes
          /\ r.destroyed = conn[c].destroyed + 1 /\ r.state = conn[c].state
      <4> DEFINE s == conn[c]
      <4>1. s \in Connections /\ r = [s EXCEPT !.destroyed = @ + 1, !.watched = FALSE]
        BY <1>1
      <4> HIDE DEF s, r
      <4>2. /\ r.loop = s.loop /\ r.closes = s.closes
            /\ r.destroyed = s.destroyed + 1 /\ r.state = s.state
        BY <4>1 DEF Connections
      <4>3. r \in Connections
        <5>1. r = [loop |-> s.loop, state |-> s.state, watched |-> FALSE, closes |-> s.closes,
                   destroyed |-> s.destroyed + 1, forced |-> s.forced, forcing |-> s.forcing]
          BY <4>1 DEF Connections
        <5>2. /\ s.loop \in Loops /\ s.closes \in Nat /\ s.destroyed + 1 \in Nat
              /\ s.state \in {"kConnecting", "kConnected", "kDisconnecting", "kDisconnected"}
              /\ s.forced \in 0 .. MaxForced /\ s.forcing \in Nat /\ FALSE \in BOOLEAN
          BY <4>1 DEF Connections
        <5> QED
          BY <5>1, <5>2 DEF Connections
      <4> QED
        BY <4>2, <4>3 DEF s
    <3>2. conn' = [conn EXCEPT ![c] = r]
      BY <1>1, <2>2 DEF Destroyed, Connections
    <3> HIDE DEF r
    <3> QED
      BY <1>1, <2>2, <3>1, <3>2
  <2> QED
    BY <2>1, <2>2
<1>3. \A q : QueuesOK(q, conn, m_nextConnId) => QueuesOK(q, conn', m_nextConnId)
  <2>1. \A d \in Conns : /\ conn'[d].loop = conn[d].loop
                         /\ conn[d].closes > 0 => conn'[d].closes > 0
                         /\ conn'[d].state = "kConnecting" <=> conn[d].state = "kConnecting"
    BY <1>2
  <2> QED
    BY <2>1, <1>1, <1>2, ConnsOK
<1>4. StatesOK'
  BY <1>1, <1>2 DEF ServerInv, StatesOK, Accepted, Connections
<1>5. HandlersOK'
  <2>1. \A l \in Loops : busy[l] # NoConn => busy[l] \in Conns
    BY DEF ServerInv, TypeOK
  <2>2. \A l \in Loops : busy[l] # NoConn => conn'[busy[l]] = conn[busy[l]]
    BY <2>1, <1>2
  <2> QED
    BY <2>2 DEF ServerInv, HandlersOK, Accepted, Active
<1>6. LoopsOK'
  BY DEF ServerInv, LoopsOK, IoLoops
<1> QED
  BY <1>2, <1>3, <1>4, <1>5, <1>6

LEMMA RunDestroyStep ==
  ASSUME ServerInv, NEW l \in Loops, RunDestroy(l)
  PROVE  ServerInv'
<1> DEFINE c == Head(queue[l]).conn
           q == Popped(l)
<1>1. /\ queue[l] # <<>> /\ Head(queue[l]).call = "onConnectionDestroy" /\ busy[l] = NoConn
      /\ queue' = q /\ conn' = Destroyed(c)
      /\ UNCHANGED <<m_numThreads, m_nextConnId, m_next, m_connections, status, busy, server,
                     undefined>>
  BY DEF RunDestroy, Runs, Free
<1>2. /\ c \in Conns /\ conn[c].loop = l /\ conn[c].state # "kConnecting"
  BY <1>1, HeadOK DEF FunctorOK, Functors
<1>3. conn \in [Conns -> Connections] /\ QueuesOK(queue, conn, m_nextConnId)
  BY DEF ServerInv, TypeOK, Connections
<1>4. QueuesOK(q, conn, m_nextConnId)
  BY <1>1, <1>3, PopOK DEF Popped
<1>5. ASSUME NEW d \in Conns, Pending(Base, "removeConnectionInLoop", d)
      PROVE  Pending(Base, "removeConnectionInLoop", d)'
  <2>1. Head(queue[l]) # Functor("removeConnectionInLoop", d)
    BY <1>1 DEF Functor
  <2>2. \E i \in DOMAIN q[Base] : q[Base][i] = Functor("removeConnectionInLoop", d)
    BY <1>1, <1>5, <2>1, PopKeepsPending
  <2> QED
    BY <2>2, <1>1 DEF Pending
<1>6. \A k \in Loops : busy[k] # c
  <2>1. \A k \in Loops : busy[k] # NoConn => conn[busy[k]].loop = k
    BY DEF ServerInv, HandlersOK
  <2> QED
    BY <2>1, <1>1, <1>2 DEF Conns, NoConn
<1> HIDE DEF c, q
<1>7. /\ conn' \in [Conns -> Connections]
      /\ \A r : QueuesOK(r, conn, m_nextConnId) => QueuesOK(r, conn', m_nextConnId)
      /\ \A d \in Conns : conn'[d].closes = conn[d].closes
      /\ StatesOK' /\ HandlersOK' /\ LoopsOK'
  BY <1>1, <1>2, <1>6, DestroyedStep
<1>8. QueuesOK(queue', conn', m_nextConnId)
  BY <1>1, <1>4, <1>7
<1>9. TypeOK'
  BY <1>1, <1>7, <1>8 DEF ServerInv, TypeOK, Accepted, QueuesOK, Connections
<1>10. MapOK'
  BY <1>1, <1>5, <1>7 DEF ServerInv, MapOK, Accepted
<1> QED
  BY <1>1, <1>7, <1>8, <1>9, <1>10 DEF ServerInv

LEMMA DisposeStep ==
  ASSUME ServerInv, NEW c \in Conns, Dispose(c)
  PROVE  ServerInv'
<1>1. /\ server = "disposing" /\ Accepted(c)
      /\ m_connections' \subseteq m_connections
      /\ UNCHANGED <<m_numThreads, m_nextConnId, m_next, status, busy, server, undefined>>
  BY DEF ServerInv, TypeOK, Dispose
<1>2. conn \in [Conns -> Connections] /\ QueuesOK(queue, conn, m_nextConnId)
      /\ conn[c].loop \in Loops /\ Base \in Loops
  BY TcpServerAssumption DEF ServerInv, TypeOK, Connections, Base, Loops
<1>3. conn[c].state = "kConnecting" => Awaited(queue[conn[c].loop], c)
  BY <1>1, <1>2 DEF QueuesOK, Accepted
<1>4. MapOK'
  BY <1>1 DEF MapOK
<1>5. CASE conn[c].loop = Base
  <2>1. conn' = Destroyed(c) /\ queue' = queue
    BY <1>5 DEF Dispose
  <2>2. conn[c].state # "kConnecting"
    <3>1. QueueOK(queue[Base], Base, conn, m_nextConnId)
      BY <1>2 DEF QueuesOK
    <3>2. ~Awaited(queue[Base], c)
      BY <3>1 DEF QueueOK, FunctorOK, Awaited, Functor
    <3> QED
      BY <3>2, <1>3, <1>5
  <2>3. \A k \in Loops : busy[k] # c
    <3>1. \A k \in Loops : busy[k] # NoConn
            => conn[busy[k]].loop = k /\ (k = Base => server # "disposing")
      BY DEF ServerInv, HandlersOK
    <3> QED
      BY <3>1, <1>1, <1>5 DEF Conns, NoConn
  <2>4. /\ conn' \in [Conns -> Connections]
        /\ \A q : QueuesOK(q, conn, m_nextConnId) => QueuesOK(q, conn', m_nextConnId)
        /\ StatesOK' /\ HandlersOK' /\ LoopsOK'
    BY <1>1, <2>1, <2>2, <2>3, DestroyedStep
  <2>5. QueuesOK(queue', conn', m_nextConnId)
    BY <1>2, <2>1, <2>4
  <2>6. TypeOK'
    BY <1>1, <2>4, <2>5 DEF ServerInv, TypeOK, Accepted, QueuesOK, Connections
  <2> QED
    BY <1>1, <1>4, <2>4, <2>5, <2>6 DEF ServerInv
<1>6. CASE conn[c].loop # Base
  <2>1. queue' = Push(queue, conn[c].loop, "onConnectionDestroy", c) /\ conn' = conn
    BY <1>6 DEF Dispose
  <2>2. /\ Functor("onConnectionDestroy", c) \in Functors
        /\ FunctorOK(Functor("onConnectionDestroy", c), conn[c].loop, conn, m_nextConnId)
    BY <1>1 DEF Functor, Functors, FunctorOK, Accepted
  <2>3. QueuesOK(queue', conn, m_nextConnId)
    BY <1>2, <1>3, <2>1, <2>2, PushOK
  <2>4. TypeOK'
    BY <1>1, <2>1, <2>3 DEF ServerInv, TypeOK, Accepted, QueuesOK
  <2>5. StatesOK' /\ HandlersOK' /\ LoopsOK'
    BY <1>1, <2>1 DEF ServerInv, StatesOK, HandlersOK, LoopsOK, Accepted, Active, IoLoops
  <2> QED
    BY <1>1, <1>4, <2>1, <2>3, <2>4, <2>5 DEF ServerInv
<1> QED
  BY <1>5, <1>6

LEMMA ServerStep ==
  ASSUME ServerInv, [Next]_vars
  PROVE  ServerInv'
<1>1. CASE \E l \in Loops : LoopMoves(l)
  BY <1>1, LoopStep, CallCloseStep, RunEstablishStep, RunRemoveStep, RunForceCloseStep,
     RunDestroyStep DEF LoopMoves, RunFunctor
<1>2. CASE Disposal
  <2>1. ASSUME NEW l \in IoLoops, QuitThread(l)
        PROVE  ServerInv'
    <3>1. l \in Loops
      <4>1. m_numThreads \in 0 .. MaxThreads
        BY DEF ServerInv, TypeOK
      <4> QED
        BY <4>1, TcpServerAssumption DEF IoLoops, Loops
    <3> QED
      BY <2>1, <3>1, LoopStep
  <2> QED
    BY <1>2, <2>1, DisposeStep DEF Disposal
<1>3. CASE UNCHANGED vars
  BY <1>3 DEF vars, ServerInv, TypeOK, StatesOK, HandlersOK, MapOK, LoopsOK, Accepted, Active,
     Pending, IoLoops
<1>4. CASE BaseStops \/ BeginDisposal \/ EndDisposal
  BY <1>4, LoopStep
<1> QED
  BY <1>1, <1>2, <1>3, <1>4, StartStep, AcceptStep, BeginForceStep, ForceStep DEF Next

LEMMA ServerStart ==
  ASSUME Init
  PROVE  ServerInv
<1> USE DEF Init
<1>1. TypeOK
  <2>1. conn \in [Conns -> Connections]
    BY TcpServerAssumption DEF Loops, Base, Connections
  <2>2. queue \in [Loops -> Seq(Functors)]
    OBVIOUS
  <2> QED
    <3>1. m_nextConnId \in 1 .. MaxConns + 1 /\ m_numThreads \in 0 .. MaxThreads
      BY TcpServerAssumption
    <3>2. /\ m_next \in 0 .. m_numThreads /\ (m_numThreads > 0 => m_next < m_numThreads)
          /\ m_connections \subseteq {c \in Conns : Accepted(c)}
          /\ status \in [Loops -> {"none", "running", "quit", "stopped"}]
          /\ busy \in [Loops -> Conns \cup {NoConn}]
      OBVIOUS
    <3> QED
      BY <2>1, <2>2, <3>1, <3>2 DEF TypeOK, Connections
<1>2. QueuesOK(queue, conn, m_nextConnId)
  BY DEF QueuesOK, QueueOK, Conns
<1>3. StatesOK /\ HandlersOK /\ MapOK
  BY DEF StatesOK, HandlersOK, MapOK, Accepted, Conns, NoConn
<1>4. LoopsOK
  BY TcpServerAssumption DEF LoopsOK, Base, Loops
<1> QED
  BY <1>1, <1>2, <1>3, <1>4 DEF ServerInv

-----------------------------------------------------------------------------
(* The acceptor at the limit of descriptors.                               *)

\* What each place of onRead finds: the descriptor given up is free for the one
\* connection, and free again when it is to be opened anew.
SpareInv ==
  /\ free \in Nat /\ backlog \in Nat
  /\ pc \in {"idle", "close", "accept", "refuse", "open", "gone"}
  /\ pc \in {"idle", "close"} => m_idleFd = "null"
  /\ pc = "accept" => m_idleFd = "closed" /\ free > 0
  /\ pc = "refuse" => m_idleFd = "connection"
  /\ pc = "open" => m_idleFd = "closed" /\ free > 0
  /\ pc \in {"close", "accept"} => backlog > 0

\* Every step keeps it when no other thread interferes.
LEMMA SpareStep ==
  ASSUME ~Others, SpareInv, [AcceptorNext]_acceptorVars
  PROVE  SpareInv'
<1> USE DEF SpareInv
<1>1. CASE listen \/ Arrive
  BY <1>1 DEF listen, Arrive
<1>2. CASE onRead \/ onReadAborted \/ onReadLimit
  BY <1>2 DEF onRead, onReadAborted, onReadLimit
<1>3. CASE CloseIdle
  BY <1>3 DEF CloseIdle
<1>4. CASE AcceptIdle
  BY <1>4 DEF AcceptIdle
<1>5. CASE Refuse
  BY <1>5 DEF Refuse
<1>6. CASE OpenIdle
  BY <1>6 DEF OpenIdle
<1>7. CASE ConnectionEnds
  BY <1>7 DEF ConnectionEnds
<1>8. CASE OtherOpens \/ OtherCloses
  BY <1>8 DEF OtherOpens, OtherCloses
<1>9. CASE CloseListener
  BY <1>9 DEF CloseListener
<1>10. CASE UNCHANGED acceptorVars
  BY <1>10 DEF acceptorVars
<1> QED
  BY <1>1, <1>2, <1>3, <1>4, <1>5, <1>6, <1>7, <1>8, <1>9, <1>10 DEF AcceptorNext, LimitStep

\* With one thread that opens descriptors the acceptor has its spare one back after
\* every onRead, however many connections it refused.
THEOREM SpareIsKept ==
  ASSUME ~Others
  PROVE  AcceptorSpec => []SpareKept
<1>1. AcceptorInit => SpareInv
  BY AcceptorAssumption DEF AcceptorInit, SpareInv
<1>2. SpareInv /\ [AcceptorNext]_acceptorVars => SpareInv'
  BY SpareStep
<1>3. SpareInv => SpareKept
  BY DEF SpareInv, SpareKept
<1> QED
  BY <1>1, <1>2, <1>3, PTL DEF AcceptorSpec

-----------------------------------------------------------------------------
(* Server composes TcpServer and Acceptor: each of its steps is a step of   *)
(* both, or leaves one of them as it is.                                   *)

LEMMA ComposedStep ==
  ASSUME [ServerNext]_serverVars
  PROVE  [Next]_vars /\ [AcceptorNext]_acceptorVars
<1>1. CASE StartListening
  BY <1>1 DEF StartListening, Next, AcceptorNext
<1>2. CASE ArriveAtServer
  BY <1>2 DEF ArriveAtServer, AcceptorNext, vars
<1>3. CASE AcceptConnection
  BY <1>3 DEF AcceptConnection, Next, AcceptorNext
<1>4. CASE RefuseConnection
  BY <1>4 DEF RefuseConnection, AcceptorNext, vars
<1>5. CASE \E l \in Loops : ThreadMoves(l)
  BY <1>5 DEF ThreadMoves, AtServer, Next, acceptorVars
<1>6. CASE \E c \in Conns : AtServer(BeginForceClose(c) \/ forceClose(c))
  BY <1>6 DEF AtServer, Next, acceptorVars
<1>7. CASE \E c \in Conns : Delete(c)
  BY <1>7 DEF Delete, AcceptorNext, vars
<1>8. CASE OthersMove
  BY <1>8 DEF OthersMove, AcceptorNext, vars
<1>9. CASE AtServer(BaseStops \/ BeginDisposal)
  BY <1>9 DEF AtServer, Next, acceptorVars
<1>10. CASE AtServer(Disposal)
  BY <1>10 DEF AtServer, Next, acceptorVars
<1>11. CASE ServerEnds
  BY <1>11 DEF ServerEnds, Next, AcceptorNext
<1>12. CASE UNCHANGED serverVars
  BY <1>12 DEF serverVars, vars, acceptorVars
<1> QED
  BY <1>1, <1>2, <1>3, <1>4, <1>5, <1>6, <1>7, <1>8, <1>9, <1>10, <1>11, <1>12 DEF ServerNext

\* What the queues, the connections, the handlers, the map and the loops are at any
\* moment of a server's life, whatever the number of its threads and connections.
THEOREM ServerInvariant == ServerSpec => []ServerInv
<1>1. ServerInit => ServerInv
  BY ServerStart DEF ServerInit
<1>2. ServerInv /\ [ServerNext]_serverVars => ServerInv'
  BY ComposedStep, ServerStep
<1> QED
  BY <1>1, <1>2, PTL DEF ServerSpec

\* The server has every open connection in its map, and a closed one only as long as
\* its removal is on its way: newConnection, removeConnectionInLoop and the closes of
\* any number of loops cannot get out of step.
THEOREM MapIsExact == ServerSpec => []MapTracksOpen
<1>1. ServerInv => MapTracksOpen
  BY DEF ServerInv, MapOK, MapTracksOpen
<1> QED
  BY <1>1, ServerInvariant, PTL

\* A step that destroys a connection finds no handler of it.
LEMMA DestroyStep ==
  ASSUME ServerInv, [Next]_vars, NEW l \in Loops, busy[l] # NoConn
  PROVE  conn'[busy[l]].destroyed = conn[busy[l]].destroyed
<1> DEFINE b == busy[l]
<1>1. /\ conn \in [Conns -> Connections] /\ b \in Conns /\ conn[b].loop = l
      /\ Accepted(b) /\ (l = Base => server # "disposing")
  BY DEF ServerInv, TypeOK, HandlersOK, Connections
<1> HIDE DEF b
<1>2. ASSUME conn' = conn
      PROVE  conn'[b].destroyed = conn[b].destroyed
  BY <1>2
<1>3. CASE newConnection
  <2>1. b # m_nextConnId
    BY <1>1 DEF Accepted, Conns
  <2>2. \E r : conn' = [conn EXCEPT ![m_nextConnId] = r]
    BY <1>3 DEF newConnection
  <2> QED
    BY <1>1, <2>1, <2>2 DEF b
<1>4. ASSUME NEW c \in Conns, BeginForceClose(c) \/ forceClose(c)
      PROVE  conn'[b].destroyed = conn[b].destroyed
  BY <1>1, <1>4 DEF BeginForceClose, forceClose, Connections
<1>5. ASSUME NEW c \in Conns, conn' = Closed(c)
      PROVE  conn'[b].destroyed = conn[b].destroyed
  BY <1>1, <1>5 DEF Closed, Connections
<1>6. ASSUME NEW k \in Loops, LoopMoves(k)
      PROVE  conn'[b].destroyed = conn[b].destroyed
  <2>1. CASE CallClose(k)
    <3>1. busy[k] \in Conns /\ conn' = Closed(busy[k])
      BY <2>1 DEF CallClose, onClose, ServerInv, TypeOK
    <3> QED
      BY <1>5, <3>1
  <2>2. CASE RunForceClose(k)
    <3>1. Head(queue[k]).conn \in Conns
      BY <2>2, HeadOK DEF RunForceClose, Runs, Functors
    <3>2. conn' = conn \/ conn' = Closed(Head(queue[k]).conn)
      BY <2>2 DEF RunForceClose, onClose
    <3> QED
      BY <1>2, <1>5, <3>1, <3>2
  <2>3. CASE RunEstablish(k)
    <3>1. Head(queue[k]).conn \in Conns
      BY <2>3, HeadOK DEF RunEstablish, Runs, Functors
    <3> QED
      BY <1>1, <2>3, <3>1 DEF RunEstablish, Connections
  <2>4. CASE RunDestroy(k)
    <3> DEFINE c == Head(queue[k]).conn
    <3>1. c \in Conns /\ conn[c].loop = k
      BY <2>4, HeadOK DEF RunDestroy, Runs, Functors, FunctorOK
    <3>2. conn' = Destroyed(c) /\ busy[k] = NoConn
      BY <2>4 DEF RunDestroy, Runs, Free
    <3> HIDE DEF c
    <3>3. b # c
      BY <1>1, <3>1, <3>2 DEF b
    <3> QED
      BY <1>1, <3>1, <3>2, <3>3 DEF Destroyed, Connections
  <2>5. CASE \/ \E c \in Conns : HandleEvent(k, c)
             \/ HandlerReturns(k) \/ LoopStops(k) \/ RunRemove
    <3>1. conn' = conn
      BY <2>5 DEF HandleEvent, HandlerReturns, LoopStops, RunRemove
    <3> QED
      BY <1>2, <3>1
  <2> QED
    BY <1>6, <2>1, <2>2, <2>3, <2>4, <2>5 DEF LoopMoves, RunFunctor
<1>7. ASSUME NEW c \in Conns, Dispose(c)
      PROVE  conn'[b].destroyed = conn[b].destroyed
  <2>1. CASE conn[c].loop = Base
    <3>1. server = "disposing" /\ conn' = Destroyed(c)
      BY <1>7, <2>1 DEF Dispose
    <3>2. b # c
      BY <1>1, <2>1, <3>1
    <3> QED
      BY <1>1, <3>1, <3>2 DEF Destroyed, Connections
  <2>2. CASE conn[c].loop # Base
    BY <1>2, <1>7, <2>2 DEF Dispose
  <2> QED
    BY <2>1, <2>2
<1>8. CASE \/ UNCHANGED vars \/ Start \/ BaseStops \/ BeginDisposal \/ EndDisposal
           \/ \E k \in IoLoops : QuitThread(k)
  <2>1. conn' = conn
    BY <1>8 DEF vars, Start, BaseStops, BeginDisposal, EndDisposal, QuitThread
  <2> QED
    BY <1>2, <2>1
<1> QED
  BY <1>3, <1>4, <1>6, <1>7, <1>8 DEF Next, Disposal, b

\* onConnectionDestroy runs in the connection's own loop and only between handlers,
\* in ~TcpServer too.
THEOREM DestroyedBetweenHandlers == ServerSpec => NotDestroyedInHandler
<1> DEFINE Between ==
             \A l \in Loops :
               busy[l] # NoConn => conn'[busy[l]].destroyed = conn[busy[l]].destroyed
<1>1. ServerInv /\ [ServerNext]_serverVars => [Between]_vars
  BY ComposedStep, DestroyStep
<1> QED
  BY <1>1, ServerInvariant, PTL DEF ServerSpec, NotDestroyedInHandler

\* The queue of a loop is first in, first out, and whoever queues onConnectionDestroy
\* does it after onConnectionEstablish was queued: a connection is never established
\* after it was destroyed.
THEOREM EstablishedBeforeDestroyed == ServerSpec => []EstablishedFirst
<1>1. ServerInv => EstablishedFirst
  BY DEF ServerInv, StatesOK, EstablishedFirst
<1> QED
  BY <1>1, ServerInvariant, PTL

\* If the base loop has ended, no close callback and no functor reaches the TcpServer
\* after ~TcpServer has joined its threads.
THEOREM SafeAfterDisposal == ServerSpec => []NoUseAfterDisposal
<1>1. ServerInv => NoUseAfterDisposal
  BY DEF ServerInv, LoopsOK, NoUseAfterDisposal
<1> QED
  BY <1>1, ServerInvariant, PTL

\* SpareIsKept holds of the acceptor inside the server, whose connections give their
\* descriptors back at any moment.
THEOREM ServerKeepsSpare ==
  ASSUME ~Others
  PROVE  ServerSpec => []SpareKept
<1>1. ServerInit => SpareInv
  BY AcceptorAssumption DEF ServerInit, AcceptorInit, SpareInv
<1>2. SpareInv /\ [ServerNext]_serverVars => SpareInv'
  BY ComposedStep, SpareStep
<1>3. SpareInv => SpareKept
  BY DEF SpareInv, SpareKept
<1> QED
  BY <1>1, <1>2, <1>3, PTL DEF ServerSpec
=============================================================================
