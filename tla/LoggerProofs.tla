---------------------------- MODULE LoggerProofs ----------------------------
(***************************************************************************)
(* Proofs about Logger for any number of threads, messages and slots: the  *)
(* pool is a FIFO queue, and ~Logger leaves nothing behind in it.  The     *)
(* lemmas about circular_q come first: away from its limits it is the      *)
(* sequence of its contents, wherever its indexes stand.                   *)
(***************************************************************************)
EXTENDS Logger, SequenceTheorems, FiniteSetTheorems, TLAPS

\* The slots hold members of S or nothing, and the indexes are inside.
CircularOK(c, S) ==
  /\ c.n \in Nat /\ c.n > 1
  /\ c \in [n : {c.n}, v : [0 .. c.n - 1 -> S \cup {NoItem}],
            head : 0 .. c.n - 1, tail : 0 .. c.n - 1]

\* The slot of the i-th item, and the next one, without the remainder.
Place(c, i) == IF c.head + i - 1 < c.n THEN c.head + i - 1 ELSE (c.head + i - 1) - c.n
NextSlot(c, i) == IF i + 1 = c.n THEN 0 ELSE i + 1

LEMMA ModSmall ==
  ASSUME NEW n \in Nat \ {0}, NEW a \in Nat, a < n + n
  PROVE  a % n = IF a < n THEN a ELSE a - n
<1>1. CASE a < n
  BY <1>1
<1>2. CASE ~(a < n)
  BY <1>2
<1> QED
  BY <1>1, <1>2

LEMMA Slots ==
  ASSUME NEW S, NEW c, CircularOK(c, S)
  PROVE  /\ Size(c) \in 0 .. c.n - 1
         /\ \A i \in 0 .. c.n - 1 : After(c, i) = NextSlot(c, i)
         /\ \A i \in 1 .. c.n : (c.head + i - 1) % c.n = Place(c, i)
<1> DEFINE n == c.n
           h == c.head
<1>1. n \in Nat \ {0} /\ n > 1 /\ h \in 0 .. n - 1 /\ c.tail \in 0 .. n - 1
  BY DEF CircularOK
<1>2. Size(c) \in 0 .. n - 1
  BY <1>1 DEF Size
<1> HIDE DEF n, h
<1>3. ASSUME NEW i \in 1 .. n
      PROVE  (h + i - 1) % n = IF h + i - 1 < n THEN h + i - 1 ELSE (h + i - 1) - n
  <2> DEFINE a == h + i - 1
  <2>1. a \in Nat /\ a < n + n
    BY <1>1
  <2> HIDE DEF a
  <2>2. a % n = IF a < n THEN a ELSE a - n
    BY <1>1, <2>1, ModSmall
  <2> QED
    BY <2>2, Zenon DEF a
<1>4. ASSUME NEW i \in 0 .. n - 1
      PROVE  (i + 1) % n = IF i + 1 = n THEN 0 ELSE i + 1
  <2> DEFINE a == i + 1
  <2>1. a \in Nat /\ a < n + n /\ a <= n
    BY <1>1
  <2> HIDE DEF a
  <2>2. a % n = IF a < n THEN a ELSE a - n
    BY <1>1, <2>1, ModSmall
  <2>3. a % n = IF a = n THEN 0 ELSE a
    BY <1>1, <2>1, <2>2
  <2> QED
    BY <2>3, Zenon DEF a
<1> QED
  BY <1>2, <1>3, <1>4, Zenon DEF After, NextSlot, Place, n, h

LEMMA ContentsAre ==
  ASSUME NEW S, NEW c, CircularOK(c, S)
  PROVE  /\ Contents(c) = [i \in 1 .. Size(c) |-> c.v[Place(c, i)]]
         /\ Len(Contents(c)) = Size(c)
<1>1. /\ Size(c) \in 0 .. c.n - 1 /\ c.n \in Nat
      /\ \A i \in 1 .. c.n : (c.head + i - 1) % c.n = Place(c, i)
  BY Slots DEF CircularOK
<1>2. \A i \in 1 .. Size(c) : c.v[(c.head + i - 1) % c.n] = c.v[Place(c, i)]
  BY <1>1
<1> QED
  BY <1>1, <1>2 DEF Contents

\* A new queue is empty.
LEMMA NewIsEmpty ==
  ASSUME NEW S, NEW k \in Nat \ {0}
  PROVE  CircularOK(NewQ(k), S) /\ Contents(NewQ(k)) = <<>>
<1>1. CircularOK(NewQ(k), S)
  BY DEF NewQ, CircularOK
<1>2. Size(NewQ(k)) = 0
  BY DEF NewQ, Size
<1>3. Contents(NewQ(k)) = <<>>
  BY <1>2 DEF Contents
<1> QED
  BY <1>1, <1>3

\* Without overrun a push appends.
LEMMA PushAppends ==
  ASSUME NEW S, NEW c, CircularOK(c, S), NEW x \in S, ~Full(c)
  PROVE  /\ CircularOK(PushBack(c, x), S)
         /\ Contents(PushBack(c, x)) = Append(Contents(c), x)
<1> DEFINE r == PushBack(c, x)
           k == Size(c)
<1>1. c.n \in Nat /\ c.n > 1 /\ c.head \in 0 .. c.n - 1 /\ c.tail \in 0 .. c.n - 1
      /\ c.v \in [0 .. c.n - 1 -> S \cup {NoItem}]
  BY DEF CircularOK
<1>2. After(c, c.tail) = NextSlot(c, c.tail) /\ After(c, c.tail) # c.head
      /\ After(c, c.tail) \in 0 .. c.n - 1
  BY <1>1, Slots DEF Full, NextSlot
<1>3. /\ r.n = c.n /\ r.head = c.head /\ r.tail = After(c, c.tail)
      /\ r.v = [c.v EXCEPT ![c.tail] = x]
      /\ CircularOK(r, S)
  BY <1>2 DEF CircularOK, PushBack
<1> HIDE DEF r
<1>4. Size(r) = k + 1 /\ k \in Nat /\ k + 1 \in 1 .. c.n /\ Place(c, k + 1) = c.tail
      /\ \A i \in 1 .. k : Place(c, i) \in 0 .. c.n - 1 /\ Place(c, i) # c.tail
  <2>1. Size(r) = k + 1 /\ k \in Nat /\ k + 1 \in 1 .. c.n
    <3> DEFINE n == c.n
               h == c.head
               t == c.tail
               m == NextSlot(c, c.tail)
    <3>1. /\ n \in Nat /\ n > 1 /\ h \in 0 .. n - 1 /\ t \in 0 .. n - 1
          /\ m = (IF t + 1 = n THEN 0 ELSE t + 1) /\ m # h
          /\ k = IF t >= h THEN t - h ELSE n - (h - t)
          /\ Size(r) = IF m >= h THEN m - h ELSE n - (h - m)
      BY <1>1, <1>2, <1>3 DEF Size, NextSlot
    <3> HIDE DEF n, h, t, m, k
    <3>2. Size(r) = k + 1 /\ k \in Nat /\ k + 1 \in 1 .. n
      BY <3>1
    <3> QED
      BY <3>2 DEF n
  <2>2. CASE c.tail >= c.head
    <3>1. k = c.tail - c.head
      BY <2>2 DEF Size
    <3> DEFINE n == c.n
               h == c.head
               t == c.tail
    <3>2. /\ n \in Nat /\ n > 1 /\ h \in 0 .. n - 1 /\ t \in 0 .. n - 1 /\ t >= h
          /\ k = t - h
      BY <1>1, <2>2, <3>1
    <3>3. \A i : Place(c, i) = IF h + i - 1 < n THEN h + i - 1 ELSE (h + i - 1) - n
      BY DEF Place
    <3> HIDE DEF n, h, t, k
    <3>4. Place(c, k + 1) = t
      BY <3>2, <3>3
    <3>5. \A i \in 1 .. k : Place(c, i) \in 0 .. n - 1 /\ Place(c, i) # t
      BY <3>2, <3>3
    <3> QED
      BY <2>1, <3>4, <3>5 DEF n, t
  <2>3. CASE ~(c.tail >= c.head)
    <3>1. k = c.n - (c.head - c.tail)
      BY <2>3 DEF Size
    <3> HIDE DEF k
    <3>2. Place(c, k + 1) = c.tail
      BY <1>1, <2>1, <2>3, <3>1 DEF Place
    <3>3. ASSUME NEW i \in 1 .. k
          PROVE  Place(c, i) \in 0 .. c.n - 1 /\ Place(c, i) # c.tail
      <4> DEFINE n == c.n
                 h == c.head
                 t == c.tail
      <4>1. /\ n \in Nat /\ n > 1 /\ h \in 0 .. n - 1 /\ t \in 0 .. n - 1 /\ t < h
            /\ k = n - (h - t) /\ i \in 1 .. k
        BY <1>1, <2>3, <3>1
      <4>2. Place(c, i) = IF h + i - 1 < n THEN h + i - 1 ELSE (h + i - 1) - n
        BY DEF Place
      <4> HIDE DEF n, h, t
      <4>3. Place(c, i) \in 0 .. n - 1 /\ Place(c, i) # t
        BY <4>1, <4>2
      <4> QED
        BY <4>3 DEF n, t
    <3> QED
      BY <2>1, <3>2, <3>3
  <2> QED
    BY <2>1, <2>2, <2>3
<1> HIDE DEF k
<1>5. /\ Contents(r) = [i \in 1 .. k + 1 |-> r.v[Place(c, i)]]
      /\ Contents(c) = [i \in 1 .. k |-> c.v[Place(c, i)]]
      /\ Len(Contents(c)) = k
  BY <1>3, <1>4, ContentsAre, ZenonT(30) DEF Place, k
<1>6. /\ r.v[c.tail] = x
      /\ \A i \in 1 .. k : r.v[Place(c, i)] = c.v[Place(c, i)]
  BY <1>1, <1>3, <1>4
<1>7. Append(Contents(c), x) = [i \in 1 .. k + 1 |-> IF i = k + 1 THEN x ELSE Contents(c)[i]]
  BY <1>5, <1>4
<1>8. \A i \in 1 .. k + 1 : r.v[Place(c, i)] = IF i = k + 1 THEN x ELSE Contents(c)[i]
  <2>1. \A i \in 1 .. k + 1 : i = k + 1 \/ i \in 1 .. k
    BY <1>4
  <2> QED
    BY <2>1, <1>4, <1>5, <1>6
<1> QED
  BY <1>3, <1>5, <1>7, <1>8 DEF r

\* A pop takes the oldest item away.
LEMMA PopTakesHead ==
  ASSUME NEW S, NEW c, CircularOK(c, S), ~Empty(c)
  PROVE  /\ CircularOK(PopFront(c), S) /\ Contents(c) # <<>>
         /\ Front(c) = Head(Contents(c)) /\ Contents(PopFront(c)) = Tail(Contents(c))
<1> DEFINE r == PopFront(c)
           k == Size(c)
<1>1. c.n \in Nat /\ c.n > 1 /\ c.head \in 0 .. c.n - 1 /\ c.tail \in 0 .. c.n - 1
      /\ c.head # c.tail /\ c.v \in [0 .. c.n - 1 -> S \cup {NoItem}]
  BY DEF CircularOK, Empty
<1>2. After(c, c.head) = NextSlot(c, c.head) /\ After(c, c.head) \in 0 .. c.n - 1
  BY <1>1, Slots DEF NextSlot
<1>3. /\ r.n = c.n /\ r.head = After(c, c.head) /\ r.tail = c.tail
      /\ r.v = [c.v EXCEPT ![c.head] = NoItem]
      /\ CircularOK(r, S)
  BY <1>2 DEF CircularOK, PopFront
<1> HIDE DEF r
<1>4. Size(r) = k - 1 /\ k \in 1 .. c.n - 1 /\ Place(c, 1) = c.head
      /\ \A i \in 1 .. k - 1 : /\ Place(r, i) = Place(c, i + 1)
                               /\ Place(r, i) \in 0 .. c.n - 1 /\ Place(r, i) # c.head
  <2> DEFINE n == c.n
             h == c.head
             t == c.tail
             m == NextSlot(c, c.head)
  <2>1. /\ n \in Nat /\ n > 1 /\ h \in 0 .. n - 1 /\ t \in 0 .. n - 1 /\ h # t
        /\ m = (IF h + 1 = n THEN 0 ELSE h + 1)
        /\ k = IF t >= h THEN t - h ELSE n - (h - t)
        /\ Size(r) = IF t >= m THEN t - m ELSE n - (m - t)
    BY <1>1, <1>2, <1>3 DEF Size, NextSlot
  <2>5. /\ \A i : Place(r, i) = IF m + i - 1 < n THEN m + i - 1 ELSE (m + i - 1) - n
        /\ \A i : Place(c, i) = IF h + i - 1 < n THEN h + i - 1 ELSE (h + i - 1) - n
    BY <1>2, <1>3, Zenon DEF Place
  <2> HIDE DEF n, h, t, m, k
  <2>2. Size(r) = k - 1 /\ k \in 1 .. n - 1
    BY <2>1
  <2>3. Place(c, 1) = h
    BY <2>1, <2>5
  <2>4. ASSUME NEW i \in 1 .. k - 1
        PROVE  /\ Place(r, i) = Place(c, i + 1)
               /\ Place(r, i) \in 0 .. n - 1 /\ Place(r, i) # h
    BY <2>1, <2>2, <2>5
  <2> QED
    BY <2>2, <2>3, <2>4 DEF n, h
<1>5. /\ Contents(r) = [i \in 1 .. k - 1 |-> r.v[Place(r, i)]]
      /\ Contents(c) = [i \in 1 .. k |-> c.v[Place(c, i)]]
      /\ Len(Contents(c)) = k
  <2>1. /\ Contents(r) = [i \in 1 .. Size(r) |-> r.v[Place(r, i)]]
        /\ Contents(c) = [i \in 1 .. k |-> c.v[Place(c, i)]] /\ Len(Contents(c)) = k
    BY <1>3, ContentsAre, ZenonT(30)
  <2> QED
    BY <1>4, <2>1
<1> HIDE DEF k
<1>6. \A i \in 1 .. k - 1 : r.v[Place(r, i)] = c.v[Place(c, i + 1)]
  BY <1>1, <1>3, <1>4
<1>7. Contents(r) = [i \in 1 .. k - 1 |-> c.v[Place(c, i + 1)]]
  BY <1>5, <1>6
<1>8. Tail(Contents(c)) = [i \in 1 .. k - 1 |-> c.v[Place(c, i + 1)]]
  BY <1>4, <1>5
<1>9. Contents(c) # <<>> /\ Head(Contents(c)) = c.v[c.head]
  BY <1>4, <1>5, SMTT(30)
<1> QED
  BY <1>3, <1>7, <1>8, <1>9 DEF r, Front

-----------------------------------------------------------------------------
(* What is invariant.                                                      *)

\* The request of ~thread_pool is the one with the kind and the id of that name.
Queued == {it \in Items : it.kind = Terminate <=> it.id = Terminate}

Pending(t) == pc[t] \in {"post", "wait"}

Ids(s) == [i \in DOMAIN s |-> s[i].id]

InPool == Range(handled) \cup Range(Ids(Pushed))

CallersOK ==
  /\ pc \in [Callers -> {"idle", "post", "wait", "notify", "join"}]
  /\ item \in [Callers -> Queued \cup {NoItem}]
  /\ \A t \in Callers : /\ pc[t] = "idle" <=> item[t] = NoItem
                        /\ pc[t] = "join" => Destroying(t)

\* The queue is in order, and the worker has an item in its hand exactly between the
\* pop and the end of its handling.
PoolOK ==
  /\ CircularOK(q, Queued) /\ Contents(q) \in Seq(Queued)
  /\ worker \in {"dequeue", "wait", "notify", "handle", "gone"}
  /\ hand \in Queued \cup {NoItem}
  /\ hand = NoItem <=> worker \in {"dequeue", "wait", "gone"}
  /\ handled \in Seq(Messages \cup {Flush, Terminate})

ConfigOK ==
  /\ mLevel \in Levels
  /\ loggers \in Seq([level : Levels, sinks : Levels, async : BOOLEAN]) /\ loggers # <<>>
  /\ registry \in BOOLEAN /\ main \in {"running", "flushing", "shutdown", "gone"}
  /\ registry <=> main \in {"running", "flushing"}
  /\ main = "gone" => pc[Main] = "idle"

\* What is about to be pushed was not pushed before, and by no one else.
PendingFresh ==
  /\ \A t \in Callers : Pending(t) => item[t].id \notin InPool
  /\ \A t, u \in Callers : Pending(t) /\ Pending(u) /\ t # u => item[t].id # item[u].id
  /\ main = "running" => Flush \notin InPool \cup Used

\* Whoever drops the last pointer to the pool, and only then, asks the worker to end;
\* nothing comes behind that request.
TerminateLast ==
  /\ Terminate \in InPool \cup Used => ~PoolAlive
  /\ ~PoolAlive => worker = "gone" \/ \E t \in Callers : Destroying(t)
  /\ Terminate \in InPool => \A t \in Callers : ~Pending(t)
  /\ \A i \in DOMAIN Pushed : Pushed[i].id = Terminate => i = Len(Pushed)
  /\ worker = "gone" => Terminate \in Range(handled) /\ Pushed = <<>>

LogInv == CallersOK /\ PoolOK /\ ConfigOK /\ PendingFresh /\ TerminateLast

-----------------------------------------------------------------------------
(* The pool as a sequence.                                                 *)

LEMMA AppendRange ==
  ASSUME NEW S, NEW s \in Seq(S), NEW x \in S
  PROVE  Range(Append(s, x)) = Range(s) \cup {x}
<1>1. /\ DOMAIN s = 1 .. Len(s) /\ Len(s) \in Nat
      /\ DOMAIN Append(s, x) = 1 .. Len(s) + 1
      /\ \A i \in 1 .. Len(s) : Append(s, x)[i] = s[i]
      /\ Append(s, x)[Len(s) + 1] = x
  OBVIOUS
<1>2. \A i \in 1 .. Len(s) + 1 : i = Len(s) + 1 \/ i \in 1 .. Len(s)
  BY <1>1
<1> QED
  BY <1>1, <1>2 DEF Range

LEMMA HeadTailRange ==
  ASSUME NEW S, NEW s \in Seq(S), s # <<>>
  PROVE  Range(s) = {Head(s)} \cup Range(Tail(s))
<1>1. /\ DOMAIN s = 1 .. Len(s) /\ Len(s) \in Nat \ {0} /\ Head(s) = s[1]
      /\ DOMAIN Tail(s) = 1 .. Len(s) - 1
      /\ \A i \in 1 .. Len(s) - 1 : Tail(s)[i] = s[i + 1]
  OBVIOUS
<1>2. \A i \in 1 .. Len(s) : i = 1 \/ (i - 1 \in 1 .. Len(s) - 1 /\ s[i] = Tail(s)[i - 1])
  BY <1>1
<1>3. \A i \in 1 .. Len(s) - 1 : i + 1 \in 1 .. Len(s)
  BY <1>1
<1>4. 1 \in 1 .. Len(s)
  BY <1>1
<1>5. Range(s) \subseteq {Head(s)} \cup Range(Tail(s))
  <2>1. ASSUME NEW i \in 1 .. Len(s)
        PROVE  s[i] \in {Head(s)} \cup Range(Tail(s))
    BY <1>1, <1>2 DEF Range
  <2> QED
    BY <1>1, <2>1 DEF Range
<1>6. Range(Tail(s)) \subseteq Range(s) /\ Head(s) \in Range(s)
  BY <1>1, <1>3, <1>4 DEF Range
<1> QED
  BY <1>5, <1>6

LEMMA IdsOf ==
  ASSUME NEW s \in Seq(Queued)
  PROVE  /\ Ids(s) \in Seq(Messages \cup {Flush, Terminate}) /\ Len(Ids(s)) = Len(s)
         /\ \A x \in Queued : /\ Ids(Append(s, x)) = Append(Ids(s), x.id)
                              /\ Range(Ids(Append(s, x))) = Range(Ids(s)) \cup {x.id}
         /\ s # <<>> => /\ Ids(s) # <<>> /\ Head(Ids(s)) = Head(s).id
                        /\ Ids(Tail(s)) = Tail(Ids(s))
                        /\ Range(Ids(s)) = {Head(s).id} \cup Range(Ids(Tail(s)))
<1> DEFINE M == Messages \cup {Flush, Terminate}
<1>1. \A x \in Queued : x.id \in M
  BY DEF Queued, Items
<1>2. DOMAIN s = 1 .. Len(s) /\ Len(s) \in Nat /\ \A i \in 1 .. Len(s) : s[i] \in Queued
  OBVIOUS
<1>3. /\ Ids(s) = [i \in 1 .. Len(s) |-> s[i].id]
      /\ Ids(s) \in Seq(M) /\ Len(Ids(s)) = Len(s)
  BY <1>1, <1>2 DEF Ids
<1> HIDE DEF M
<1>4. ASSUME NEW x \in Queued
      PROVE  /\ Ids(Append(s, x)) = Append(Ids(s), x.id)
             /\ Range(Ids(Append(s, x))) = Range(Ids(s)) \cup {x.id}
  <2>1. Ids(Append(s, x)) = Append(Ids(s), x.id)
    BY <1>1, <1>2, <1>3 DEF Ids
  <2> DEFINE y == x.id
             T == Ids(s)
  <2>2. y \in M /\ T \in Seq(M)
    BY <1>1, <1>3
  <2> HIDE DEF y, T
  <2>3. Range(Append(T, y)) = Range(T) \cup {y}
    BY <2>2, AppendRange
  <2> QED
    BY <2>1, <2>3 DEF y, T
<1>5. ASSUME s # <<>>
      PROVE  /\ Ids(s) # <<>> /\ Head(Ids(s)) = Head(s).id
             /\ Ids(Tail(s)) = Tail(Ids(s))
             /\ Range(Ids(s)) = {Head(s).id} \cup Range(Ids(Tail(s)))
  <2>1. Ids(s) # <<>> /\ Head(Ids(s)) = Head(s).id
    BY <1>2, <1>3, <1>5
  <2>2. Ids(Tail(s)) = Tail(Ids(s))
    BY <1>2, <1>3, <1>5 DEF Ids
  <2>3. Range(Ids(s)) = {Head(Ids(s))} \cup Range(Tail(Ids(s)))
    BY <1>3, <2>1, HeadTailRange
  <2> QED
    BY <2>1, <2>2, <2>3
<1> QED
  BY <1>3, <1>4, <1>5 DEF M

LEMMA PushedType ==
  ASSUME PoolOK
  PROVE  /\ Pushed \in Seq(Queued)
         /\ hand = NoItem => Pushed = Contents(q)
         /\ hand # NoItem => /\ Pushed # <<>> /\ Head(Pushed) = hand
                             /\ Tail(Pushed) = Contents(q)
  BY DEF PoolOK, Pushed

LEMMA PushPushes ==
  ASSUME PoolOK, NEW x \in Queued, ~Full(q), q' = PushBack(q, x), hand' = hand
  PROVE  Pushed' = Append(Pushed, x) /\ CircularOK(q, Queued)' /\ Contents(q)' \in Seq(Queued)
<1>1. CircularOK(q, Queued)' /\ Contents(q)' = Append(Contents(q), x)
  BY PushAppends DEF PoolOK
<1>2. Contents(q) \in Seq(Queued) /\ hand \in Queued \cup {NoItem}
  BY DEF PoolOK
<1> DEFINE c == Contents(q)
           h == IF hand = NoItem THEN <<>> ELSE <<hand>>
<1>3. h \in Seq(Queued) /\ Pushed = h \o c /\ Pushed' = h \o Append(c, x)
  BY <1>1, <1>2 DEF Pushed
<1> HIDE DEF c, h
<1>4. h \o Append(c, x) = Append(h \o c, x)
  BY <1>2, <1>3 DEF c
<1> QED
  BY <1>1, <1>2, <1>3, <1>4

LEMMA PopKeepsPushed ==
  ASSUME PoolOK, hand = NoItem, ~Empty(q), hand' = Front(q), q' = PopFront(q)
  PROVE  /\ Pushed' = Pushed /\ hand' \in Queued
         /\ CircularOK(q, Queued)' /\ Contents(q)' \in Seq(Queued)
<1>1. /\ CircularOK(q, Queued)' /\ Contents(q) # <<>>
      /\ hand' = Head(Contents(q)) /\ Contents(q)' = Tail(Contents(q))
  BY PopTakesHead DEF PoolOK
<1>2. Contents(q) \in Seq(Queued) /\ NoItem \notin Queued
  BY LoggerAssumption DEF PoolOK, Queued
<1> DEFINE c == Contents(q)
<1>3. Pushed = c /\ hand' = Head(c) /\ Contents(q)' = Tail(c) /\ c \in Seq(Queued) /\ c # <<>>
  BY <1>1, <1>2, PushedType
<1> HIDE DEF c
<1>4. Head(c) \in Queued /\ Tail(c) \in Seq(Queued) /\ <<Head(c)>> \o Tail(c) = c
  BY <1>3
<1>5. Pushed' = <<Head(c)>> \o Tail(c)
  BY <1>2, <1>3, <1>4 DEF Pushed
<1> QED
  BY <1>1, <1>3, <1>4, <1>5

-----------------------------------------------------------------------------
(* Every step keeps the invariant.                                         *)

LEMMA LogInit == Init => LogInv
<1> SUFFICES ASSUME Init PROVE LogInv
  OBVIOUS
<1>1. CircularOK(q, Queued) /\ Contents(q) = <<>>
  BY NewIsEmpty, LoggerAssumption DEF Init
<1>2. Pushed = <<>> /\ InPool = {} /\ Used = {}
  BY <1>1 DEF Init, Pushed, InPool, Ids, Used, Range
<1>3. CallersOK
  BY DEF Init, CallersOK
<1>4. PoolOK
  BY <1>1 DEF Init, PoolOK
<1>5. ConfigOK
  BY DEF Init, ConfigOK, Callers, Levels
<1>6. PendingFresh
  BY <1>2 DEF Init, PendingFresh, Pending
<1>7. TerminateLast
  BY <1>2 DEF Init, TerminateLast, PoolAlive
<1> QED
  BY <1>3, <1>4, <1>5, <1>6, <1>7 DEF LogInv

\* What the kinds and ids say of a caller.
LEMMA CallersAre ==
  ASSUME CallersOK
  PROVE  \A t \in Callers :
           /\ item[t] # NoItem => item[t] \in Queued /\ item[t].id \in Used
           /\ Destroying(t) <=> item[t] # NoItem /\ item[t].id = Terminate
           /\ Destroying(t) => pc[t] # "idle"
           /\ Pending(t) => item[t] \in Queued /\ (Holds(t) \/ Destroying(t))
  BY DEF CallersOK, Destroying, Pending, Queued, Used, Holds

LEMMA UsedAre ==
  ASSUME NEW t \in Callers, NEW it, CallersOK, item' = [item EXCEPT ![t] = it]
  PROVE  /\ it # NoItem => Used' \subseteq Used \cup {it.id}
         /\ it = NoItem => Used' \subseteq Used
  BY DEF CallersOK, Used

\* A caller goes to enqueue.
LEMMA PostKeeps ==
  ASSUME LogInv, NEW t \in Callers, pc[t] = "idle", PoolAlive,
         NEW it \in Queued, it.kind # Terminate, it.id \notin InPool \cup Used,
         t = Main => main = "running",
         \/ main' = main /\ it.id # Flush
         \/ main = "running" /\ main' = "flushing",
         pc' = [pc EXCEPT ![t] = "post"], item' = [item EXCEPT ![t] = it],
         UNCHANGED <<mLevel, loggers, q, worker, hand, registry, handled>>
  PROVE  LogInv'
<1>1. it.id # Terminate /\ it # NoItem
  BY LoggerAssumption DEF Queued
<1>2. Pushed' = Pushed /\ InPool' = InPool /\ Used' \subseteq Used \cup {it.id}
  BY <1>1, UsedAre DEF InPool, Pushed, LogInv
<1>3. CallersOK'
  BY <1>1 DEF LogInv, CallersOK, Destroying
<1>4. PoolOK'
  BY DEF LogInv, PoolOK
<1>5. ConfigOK'
  BY DEF LogInv, ConfigOK, CallersOK
<1>6. \A u \in Callers : u # t => pc'[u] = pc[u] /\ item'[u] = item[u]
  BY DEF LogInv, CallersOK
<1>7. item'[t] = it /\ pc'[t] = "post"
  BY DEF LogInv, CallersOK
<1>8. PendingFresh'
  <2>1. \A u \in Callers : Pending(u)' /\ u # t => Pending(u) /\ item'[u].id \in Used
    BY <1>6, CallersAre, LoggerAssumption DEF Pending, LogInv, CallersOK
  <2>2. \A u \in Callers : Pending(u)' => item'[u].id \notin InPool
    BY <1>6, <1>7, <2>1 DEF LogInv, PendingFresh
  <2>3. \A u, w \in Callers : Pending(u)' /\ Pending(w)' /\ u # w => item'[u].id # item'[w].id
    BY <1>6, <1>7, <2>1 DEF LogInv, PendingFresh
  <2>4. main' = "running" => Flush \notin InPool \cup Used'
    BY <1>2 DEF LogInv, PendingFresh
  <2> QED
    BY <1>2, <2>2, <2>3, <2>4 DEF PendingFresh
<1>9. TerminateLast'
  <2>1. Terminate \notin InPool \cup Used'
    BY <1>1, <1>2 DEF LogInv, TerminateLast
  <2>2. PoolAlive'
    BY <1>1, <1>7 DEF PoolAlive, Holds, Destroying, Queued
  <2>3. worker # "gone"
    BY DEF LogInv, TerminateLast, InPool
  <2> QED
    BY <1>2, <2>1, <2>2, <2>3 DEF LogInv, TerminateLast
<1> QED
  BY <1>3, <1>4, <1>5, <1>8, <1>9 DEF LogInv

\* A caller goes to sleep at the full queue or comes back from there.
LEMMA WaitKeeps ==
  ASSUME LogInv, NEW t \in Callers, Pending(t), NEW to \in {"post", "wait"},
         pc' = [pc EXCEPT ![t] = to],
         worker' = worker \/ (worker = "notify" /\ worker' = "handle"),
         UNCHANGED <<mLevel, loggers, q, item, hand, registry, main, handled>>
  PROVE  LogInv'
<1>1. Pushed' = Pushed /\ InPool' = InPool /\ Used' = Used
  BY DEF InPool, Pushed, Used
<1>2. /\ \A u \in Callers : u # t => pc'[u] = pc[u]
      /\ pc'[t] = to /\ pc[t] \in {"post", "wait"}
  BY DEF LogInv, CallersOK, Pending
<1>3. CallersOK'
  BY <1>2 DEF LogInv, CallersOK, Destroying
<1>4. PoolOK'
  BY DEF LogInv, PoolOK
<1>5. ConfigOK'
  BY <1>2 DEF LogInv, ConfigOK
<1>6. \A u \in Callers : (Pending(u)' <=> Pending(u)) /\ (Holds(u)' <=> Holds(u))
                         /\ (Destroying(u)' <=> Destroying(u))
  BY <1>2 DEF Pending, Holds, Destroying
<1>7. PendingFresh'
  BY <1>1, <1>6 DEF LogInv, PendingFresh
<1>8. TerminateLast'
  BY <1>1, <1>6 DEF LogInv, TerminateLast, PoolAlive
<1> QED
  BY <1>3, <1>4, <1>5, <1>7, <1>8 DEF LogInv

\* What a caller writes itself is handled at once.
LEMMA WriteKeeps ==
  ASSUME LogInv, NEW m \in Messages, m \notin InPool \cup Used,
         handled' = Append(handled, m),
         UNCHANGED <<mLevel, loggers, q, pc, item, worker, hand, registry, main>>
  PROVE  LogInv'
<1>1. Pushed' = Pushed /\ Used' = Used /\ Range(handled') = Range(handled) \cup {m}
  <2>1. handled \in Seq(Messages \cup {Flush, Terminate})
    BY DEF LogInv, PoolOK
  <2> QED
    BY <2>1, AppendRange DEF Pushed, Used
<1>2. InPool' = InPool \cup {m} /\ m # Flush /\ m # Terminate
  BY <1>1, LoggerAssumption DEF InPool
<1>3. CallersOK' /\ ConfigOK' /\ PoolOK'
  BY DEF LogInv, CallersOK, ConfigOK, PoolOK, Destroying
<1>4. PendingFresh'
  BY <1>1, <1>2, CallersAre DEF LogInv, PendingFresh, Pending, CallersOK
<1>5. TerminateLast'
  BY <1>1, <1>2 DEF LogInv, TerminateLast, PoolAlive, Holds, Destroying, Pending
<1> QED
  BY <1>3, <1>4, <1>5 DEF LogInv

\* A push: the item leaves the hands of its caller.
LEMMA PushKeeps ==
  ASSUME LogInv, NEW t \in Callers, pc[t] = "post", ~Full(q),
         q' = PushBack(q, item[t]), pc' = [pc EXCEPT ![t] = "notify"],
         UNCHANGED <<mLevel, loggers, item, worker, hand, registry, main, handled>>
  PROVE  LogInv'
<1> DEFINE x == item[t]
<1>1. x \in Queued /\ Pending(t) /\ x # NoItem
  BY LoggerAssumption DEF LogInv, CallersOK, Pending, Queued
<1>2. /\ Pushed' = Append(Pushed, x) /\ Pushed \in Seq(Queued)
      /\ CircularOK(q, Queued)' /\ Contents(q)' \in Seq(Queued)
  BY <1>1, PushPushes, PushedType DEF LogInv
<1>3. InPool' = InPool \cup {x.id} /\ Used' = Used
  <2>1. Range(Ids(Pushed')) = Range(Ids(Pushed)) \cup {x.id}
    BY <1>1, <1>2, IdsOf
  <2>2. InPool' = Range(handled) \cup Range(Ids(Pushed'))
    BY DEF InPool, Ids, Range
  <2> QED
    BY <2>1, <2>2 DEF InPool, Used
<1>4. x.id \in Used /\ x.id \notin InPool /\ InPool' \cup Used' = InPool \cup Used
  BY <1>1, <1>3, CallersAre DEF LogInv, PendingFresh
<1>5. /\ \A u \in Callers : u # t => pc'[u] = pc[u]
      /\ pc'[t] = "notify"
  BY DEF LogInv, CallersOK
<1>6. CallersOK'
  BY <1>5 DEF LogInv, CallersOK, Destroying
<1>7. PoolOK'
  BY <1>2 DEF LogInv, PoolOK
<1>8. ConfigOK'
  BY <1>5 DEF LogInv, ConfigOK
<1>9. \A u \in Callers : /\ Pending(u)' => Pending(u) /\ u # t
                         /\ Holds(u)' <=> Holds(u)
                         /\ Destroying(u)' <=> Destroying(u)
  BY <1>1, <1>5 DEF Pending, Holds, Destroying
<1>10. PendingFresh'
  BY <1>1, <1>3, <1>4, <1>9 DEF LogInv, PendingFresh
<1>11. TerminateLast'
  <2>1. PoolAlive' <=> PoolAlive
    BY <1>9 DEF PoolAlive
  <2>2. ASSUME Terminate \in InPool'
        PROVE  \A u \in Callers : ~Pending(u)'
    <3>1. CASE Terminate \in InPool
      BY <3>1, <1>9 DEF LogInv, TerminateLast
    <3>2. CASE x.id = Terminate
      <4>1. \A u \in Callers : ~Holds(u)
        BY <3>2, <1>4 DEF LogInv, TerminateLast, PoolAlive
      <4>2. \A u \in Callers : Pending(u) => item[u].id = Terminate
        BY <4>1, CallersAre DEF LogInv
      <4> QED
        BY <3>2, <4>2, <1>1, <1>9 DEF LogInv, PendingFresh
    <3> QED
      BY <2>2, <3>1, <3>2, <1>3
  <2>3. \A i \in DOMAIN Pushed' : Pushed'[i].id = Terminate => i = Len(Pushed')
    <3>1. ASSUME NEW i \in DOMAIN Pushed, Pushed[i].id = Terminate
          PROVE  FALSE
      <4>1. Terminate \in InPool
        BY <3>1 DEF InPool, Ids, Range
      <4> QED
        BY <4>1, <1>1 DEF LogInv, TerminateLast
    <3> QED
      BY <3>1, <1>2
  <2>4. worker # "gone"
    BY <1>1 DEF LogInv, TerminateLast, InPool
  <2> QED
    BY <2>1, <2>2, <2>3, <2>4, <1>4, <1>9 DEF LogInv, TerminateLast
<1> QED
  BY <1>6, <1>7, <1>8, <1>10, <1>11 DEF LogInv

\* A caller that is done leaves the pool to others.
LEMMA LeaveKeeps ==
  ASSUME LogInv, NEW t \in Callers, pc[t] \in {"notify", "join"},
         Destroying(t) => worker = "gone",
         ~Destroying(t) => registry \/ \E u \in Callers \ {t} : Holds(u),
         pc' = [pc EXCEPT ![t] = "idle"], item' = [item EXCEPT ![t] = NoItem],
         worker' = worker \/ (worker = "wait" /\ worker' = "dequeue"),
         UNCHANGED <<mLevel, loggers, q, hand, registry, main, handled>>
  PROVE  LogInv'
<1>1. Pushed' = Pushed /\ InPool' = InPool /\ Used' \subseteq Used
  BY UsedAre DEF InPool, Pushed, LogInv
<1>2. /\ \A u \in Callers : u # t => pc'[u] = pc[u] /\ item'[u] = item[u]
      /\ pc'[t] = "idle" /\ item'[t] = NoItem
  BY DEF LogInv, CallersOK
<1>3. CallersOK'
  BY <1>2 DEF LogInv, CallersOK, Destroying
<1>4. PoolOK'
  BY DEF LogInv, PoolOK
<1>5. ConfigOK'
  BY <1>2 DEF LogInv, ConfigOK
<1>6. /\ \A u \in Callers : u # t => /\ Pending(u)' <=> Pending(u)
                                     /\ Holds(u)' <=> Holds(u)
                                     /\ Destroying(u)' <=> Destroying(u)
      /\ ~Pending(t)' /\ ~Holds(t)' /\ ~Destroying(t)'
  BY <1>2 DEF Pending, Holds, Destroying
<1>7. PendingFresh'
  BY <1>1, <1>2, <1>6 DEF LogInv, PendingFresh
<1>8. TerminateLast'
  <2>1. PoolAlive' => PoolAlive
    BY <1>6 DEF PoolAlive
  <2>2. ~PoolAlive' => worker' = "gone" \/ \E u \in Callers : Destroying(u)'
    <3>1. CASE Destroying(t)
      BY <3>1
    <3>2. CASE ~Destroying(t)
      BY <3>2, <1>6 DEF PoolAlive
    <3> QED
      BY <3>1, <3>2
  <2> QED
    BY <2>1, <2>2, <1>1, <1>6 DEF LogInv, TerminateLast
<1> QED
  BY <1>3, <1>4, <1>5, <1>7, <1>8 DEF LogInv

\* The caller that drops the last pointer to the pool asks the worker to end.
LEMMA TerminateKeeps ==
  ASSUME LogInv, NEW t \in Callers, PoolAlive, ConfigOK',
         \A u \in Callers \ {t} : ~Holds(u), ~registry', ~Destroying(t), ~Pending(t),
         pc' = [pc EXCEPT ![t] = "post"],
         item' = [item EXCEPT ![t] = Item(Terminate, Terminate, 0)],
         worker' = worker \/ (worker = "wait" /\ worker' = "dequeue"),
         main' = "running" => main = "running",
         UNCHANGED <<q, hand, handled>>
  PROVE  LogInv'
<1> DEFINE it == Item(Terminate, Terminate, 0)
<1>1. it \in Queued /\ it.id = Terminate /\ it.kind = Terminate /\ it # NoItem
  <2>1. Len(loggers) \in Nat
    BY DEF LogInv, ConfigOK
  <2> QED
    BY <2>1, LoggerAssumption DEF Queued, Items, Item
<1>2. Pushed' = Pushed /\ InPool' = InPool /\ Used' \subseteq Used \cup {it.id}
  BY <1>1, UsedAre DEF InPool, Pushed, LogInv
<1>3. /\ \A u \in Callers : u # t => pc'[u] = pc[u] /\ item'[u] = item[u]
      /\ pc'[t] = "post" /\ item'[t] = it
  BY DEF LogInv, CallersOK
<1>4. Terminate \notin InPool \cup Used
  BY DEF LogInv, TerminateLast
<1>5. CallersOK'
  BY <1>1, <1>3 DEF LogInv, CallersOK, Destroying
<1>6. PoolOK'
  BY DEF LogInv, PoolOK
<1>7. /\ \A u \in Callers : Pending(u)' => u = t
      /\ Destroying(t)' /\ ~PoolAlive'
  <2>1. \A u \in Callers : ~Destroying(u)
    BY <1>4, CallersAre DEF LogInv
  <2>2. \A u \in Callers : Pending(u)' => u = t
    BY <2>1, <1>3, CallersAre DEF Pending, LogInv
  <2>3. Destroying(t)'
    BY <1>1, <1>3 DEF Destroying
  <2> QED
    BY <2>2, <2>3, <1>3 DEF PoolAlive, Holds, Destroying
<1>8. PendingFresh'
  <2>1. Flush # Terminate
    BY DEF Flush, Terminate
  <2> QED
    BY <2>1, <1>1, <1>2, <1>3, <1>4, <1>7 DEF LogInv, PendingFresh
<1>9. TerminateLast'
  BY <1>2, <1>4, <1>7 DEF LogInv, TerminateLast, InPool
<1> QED
  BY <1>5, <1>6, <1>8, <1>9 DEF LogInv

\* ~thread_pool goes on to the join.
LEMMA JoinKeeps ==
  ASSUME LogInv, NEW t \in Callers, pc[t] = "notify", Destroying(t),
         pc' = [pc EXCEPT ![t] = "join"],
         worker' = worker \/ (worker = "wait" /\ worker' = "dequeue"),
         UNCHANGED <<mLevel, loggers, q, item, hand, registry, main, handled>>
  PROVE  LogInv'
<1>1. Pushed' = Pushed /\ InPool' = InPool /\ Used' = Used
  BY DEF InPool, Pushed, Used
<1>2. /\ \A u \in Callers : u # t => pc'[u] = pc[u]
      /\ pc'[t] = "join"
  BY DEF LogInv, CallersOK
<1>3. CallersOK'
  BY <1>2 DEF LogInv, CallersOK, Destroying
<1>4. PoolOK'
  BY DEF LogInv, PoolOK
<1>5. ConfigOK'
  BY <1>2 DEF LogInv, ConfigOK
<1>6. \A u \in Callers : (Pending(u)' => Pending(u)) /\ (Holds(u)' <=> Holds(u))
                         /\ (Destroying(u)' <=> Destroying(u))
  BY <1>2 DEF Pending, Holds, Destroying
<1>7. PendingFresh'
  BY <1>1, <1>6 DEF LogInv, PendingFresh
<1>8. TerminateLast'
  BY <1>1, <1>6 DEF LogInv, TerminateLast, PoolAlive
<1> QED
  BY <1>3, <1>4, <1>5, <1>7, <1>8 DEF LogInv

\* The main thread configures or destroys the Logger, and the pool stays.
LEMMA ConfigKeeps ==
  ASSUME LogInv, ConfigOK', registry' = registry \/ \E t \in Callers : Holds(t),
         main' = "running" => main = "running",
         UNCHANGED <<q, pc, item, worker, hand, handled>>
  PROVE  LogInv'
<1>1. Pushed' = Pushed /\ InPool' = InPool /\ Used' = Used
  BY DEF InPool, Pushed, Used
<1>2. CallersOK' /\ PoolOK'
  BY DEF LogInv, CallersOK, PoolOK, Destroying
<1>3. PendingFresh'
  BY <1>1 DEF LogInv, PendingFresh, Pending
<1>4. \A u \in Callers : (Pending(u)' <=> Pending(u)) /\ (Holds(u)' <=> Holds(u))
                         /\ (Destroying(u)' <=> Destroying(u))
  BY DEF Pending, Holds, Destroying
<1>5. PoolAlive' \/ (~PoolAlive' /\ ~PoolAlive)
  BY <1>4 DEF PoolAlive
<1>6. PoolAlive' => PoolAlive
  BY <1>4, <1>5 DEF PoolAlive, LogInv, ConfigOK
<1>7. TerminateLast'
  BY <1>1, <1>4, <1>5, <1>6 DEF LogInv, TerminateLast
<1> QED
  BY <1>2, <1>3, <1>7 DEF LogInv

\* The worker takes the oldest item, or sleeps.
LEMMA DequeueKeeps ==
  ASSUME LogInv, Dequeue
  PROVE  LogInv' /\ Pushed' = Pushed
<1>1. /\ Pushed' = Pushed
      /\ hand' = NoItem \/ hand' \in Queued
      /\ hand' = NoItem <=> worker' = "wait"
      /\ worker' \in {"wait", "notify"}
      /\ CircularOK(q, Queued)' /\ Contents(q)' \in Seq(Queued)
  <2>1. hand = NoItem /\ NoItem \notin Queued
    BY LoggerAssumption DEF LogInv, PoolOK, Dequeue, Queued
  <2>2. CASE Empty(q)
    BY <2>1, <2>2 DEF LogInv, PoolOK, Dequeue, Pushed
  <2>3. CASE ~Empty(q)
    BY <2>1, <2>3, PopKeepsPushed DEF LogInv, Dequeue
  <2> QED
    BY <2>2, <2>3
<1>2. InPool' = InPool /\ Used' = Used
  BY <1>1 DEF InPool, Used, Dequeue, Ids, Range
<1>3. PoolOK'
  BY <1>1 DEF LogInv, PoolOK, Dequeue
<1>4. CallersOK' /\ ConfigOK'
  BY DEF LogInv, CallersOK, ConfigOK, Dequeue, Destroying
<1>5. PendingFresh'
  BY <1>2 DEF LogInv, PendingFresh, Pending, Dequeue
<1>6. TerminateLast'
  BY <1>1, <1>2 DEF LogInv, TerminateLast, PoolAlive, Holds, Destroying, Pending, Dequeue
<1> QED
  BY <1>1, <1>3, <1>4, <1>5, <1>6 DEF LogInv

\* The worker handles what it has in its hand, and ends with the request to end.
LEMMA HandleKeeps ==
  ASSUME LogInv, Handle
  PROVE  /\ LogInv' /\ hand \in Queued /\ Pushed # <<>>
         /\ Head(Pushed) = hand /\ Pushed' = Tail(Pushed)
<1>1. hand \in Queued /\ hand # NoItem /\ NoItem \notin Queued
  BY LoggerAssumption DEF LogInv, PoolOK, Handle, Queued
<1>2. Pushed \in Seq(Queued) /\ Pushed # <<>> /\ Head(Pushed) = hand
      /\ Tail(Pushed) = Contents(q) /\ Contents(q) \in Seq(Queued)
  BY <1>1, PushedType DEF LogInv, PoolOK
<1>3. Pushed' = Tail(Pushed)
  BY <1>2 DEF Handle, Pushed
<1>4. Range(handled') = Range(handled) \cup {hand.id} /\ handled' \in Seq(Messages \cup {Flush, Terminate})
  <2> DEFINE M == Messages \cup {Flush, Terminate}
             y == hand.id
  <2>1. handled \in Seq(M) /\ y \in M
    BY <1>1 DEF LogInv, PoolOK, Queued, Items
  <2> HIDE DEF M, y
  <2>2. Range(Append(handled, y)) = Range(handled) \cup {y} /\ Append(handled, y) \in Seq(M)
    BY <2>1, AppendRange
  <2> QED
    BY <2>2 DEF M, y, Handle
<1>5. InPool' = InPool /\ Used' = Used
  <2>1. Range(Ids(Pushed)) = {hand.id} \cup Range(Ids(Pushed'))
    BY <1>2, <1>3, IdsOf
  <2>2. InPool' = Range(handled') \cup Range(Ids(Pushed'))
    BY DEF InPool, Ids, Range
  <2> QED
    BY <2>1, <2>2, <1>4 DEF InPool, Used, Handle
<1>6. PoolOK'
  BY <1>2, <1>4 DEF LogInv, PoolOK, Handle
<1>7. CallersOK' /\ ConfigOK'
  BY DEF LogInv, CallersOK, ConfigOK, Handle, Destroying
<1>8. PendingFresh'
  BY <1>5 DEF LogInv, PendingFresh, Pending, Handle
<1>9. TerminateLast'
  <2>1. \A i \in DOMAIN Pushed' : Pushed'[i].id = Terminate => i = Len(Pushed')
    <3>1. ASSUME NEW i \in DOMAIN Pushed', Pushed'[i].id = Terminate
          PROVE  i = Len(Pushed')
      <4>1. i \in 1 .. Len(Pushed) - 1 /\ Pushed[i + 1].id = Terminate /\ i + 1 \in DOMAIN Pushed
            /\ Len(Pushed') = Len(Pushed) - 1
        BY <1>2, <1>3, <3>1
      <4> QED
        BY <1>2, <4>1 DEF LogInv, TerminateLast
    <3> QED
      BY <3>1
  <2>2. worker' = "gone" => Terminate \in Range(handled') /\ Pushed' = <<>>
    <3>1. ASSUME worker' = "gone" PROVE hand.id = Terminate
      BY <3>1, <1>1 DEF Handle, Queued
    <3>2. ASSUME hand.id = Terminate PROVE Pushed' = <<>>
      <4>1. 1 \in DOMAIN Pushed /\ Pushed[1].id = Terminate
        BY <3>2, <1>2
      <4>2. Len(Pushed) = 1
        BY <4>1 DEF LogInv, TerminateLast
      <4> QED
        BY <4>2, <1>2, <1>3
    <3> QED
      BY <3>1, <3>2, <1>4
  <2>3. worker # "gone"
    BY DEF Handle
  <2> QED
    BY <2>1, <2>2, <2>3, <1>5 DEF LogInv, TerminateLast, PoolAlive, Holds, Destroying, Pending, Handle
<1> QED
  BY <1>1, <1>2, <1>3, <1>6, <1>7, <1>8, <1>9 DEF LogInv

\* What is new to the log is new to the pool.
LEMMA RequestedIsLogged ==
  ASSUME LogInv
  PROVE  InPool \cup Used \subseteq Logged
<1>1. Range(Ids(Pushed)) \subseteq Logged
  <2>1. CASE hand = NoItem
    BY <2>1, PushedType DEF LogInv, Ids, Range, Logged
  <2>2. CASE hand # NoItem
    <3>1. Pushed \in Seq(Queued) /\ Pushed # <<>> /\ Head(Pushed) = hand
          /\ Tail(Pushed) = Contents(q)
      BY <2>2, PushedType DEF LogInv
    <3>2. Range(Ids(Pushed)) = {hand.id} \cup Range(Ids(Contents(q)))
      BY <3>1, IdsOf
    <3> QED
      BY <2>2, <3>2 DEF Ids, Range, Logged
  <2> QED
    BY <2>1, <2>2
<1> QED
  BY <1>1 DEF InPool, Logged, Range

LEMMA ItemsQueued ==
  ASSUME LogInv, NEW kind \in {"log", "flush"}, NEW m \in Messages \cup {Flush},
         NEW level \in Nat
  PROVE  /\ Item(kind, m, level) \in Queued /\ Item(kind, m, level).kind # Terminate
         /\ Item(kind, m, level).id = m
<1>1. Len(loggers) \in Nat
  BY DEF LogInv, ConfigOK
<1>2. kind # Terminate /\ m # Terminate
  BY LoggerAssumption DEF Flush, Terminate
<1> QED
  BY <1>1, <1>2 DEF Item, Queued, Items

LEMMA EnqueueStepKeeps ==
  ASSUME LogInv, NEW t \in Callers, Enqueue(t) \/ EnqueueReturns(t) \/ Join(t)
  PROVE  LogInv'
<1>1. CASE Enqueue(t)
  BY <1>1, WaitKeeps, PushKeeps DEF Enqueue, Pending
<1>2. CASE EnqueueReturns(t)
  <2> DEFINE last == ~registry /\ \A c \in Callers \ {t} : ~Holds(c)
  <2>1. /\ pc[t] = "notify"
        /\ worker' = worker \/ (worker = "wait" /\ worker' = "dequeue")
        /\ UNCHANGED <<mLevel, loggers, q, hand, registry, main, handled>>
    BY <1>2 DEF EnqueueReturns
  <2>2. CASE Destroying(t)
    BY <1>2, <2>1, <2>2, JoinKeeps DEF EnqueueReturns
  <2>3. CASE ~Destroying(t) /\ last
    <3>1. /\ pc' = [pc EXCEPT ![t] = "post"]
          /\ item' = [item EXCEPT ![t] = Item(Terminate, Terminate, 0)]
      BY <1>2, <2>3 DEF EnqueueReturns
    <3>2. PoolAlive /\ ~Pending(t)
      BY <2>1, <2>3 DEF PoolAlive, Holds, Pending
    <3>3. ConfigOK'
      <4>1. pc'[Main] = "idle" => pc[Main] = "idle"
        BY <2>1, <3>1 DEF LogInv, CallersOK, Callers
      <4>2. pc[Main] = "idle" => pc'[Main] = "idle"
        BY <2>1, <3>1 DEF LogInv, CallersOK, Callers
      <4> QED
        BY <2>1, <4>2 DEF LogInv, ConfigOK
    <3> QED
      BY <2>1, <2>3, <3>1, <3>2, <3>3, TerminateKeeps
  <2>4. CASE ~Destroying(t) /\ ~last
    BY <1>2, <2>1, <2>4, LeaveKeeps DEF EnqueueReturns
  <2> QED
    BY <2>2, <2>3, <2>4
<1>3. CASE Join(t)
  <2>1. Destroying(t)
    BY <1>3 DEF Join, LogInv, CallersOK
  <2> QED
    BY <1>3, <2>1, LeaveKeeps DEF Join
<1> QED
  BY <1>1, <1>2, <1>3

LEMMA ShutdownKeeps ==
  ASSUME LogInv, Shutdown
  PROVE  LogInv'
<1>1. Main \in Callers /\ PoolAlive /\ ~Pending(Main) /\ ~Destroying(Main) /\ ~Holds(Main)
  BY DEF Shutdown, Callers, PoolAlive, LogInv, ConfigOK, Pending, Destroying, Holds, CallersOK
<1>2. ConfigOK'
  BY DEF Shutdown, LogInv, ConfigOK
<1>3. CASE \E t \in Callers : Holds(t)
  BY <1>2, <1>3, ConfigKeeps DEF Shutdown
<1>4. CASE ~\E t \in Callers : Holds(t)
  BY <1>1, <1>2, <1>4, TerminateKeeps DEF Shutdown
<1> QED
  BY <1>3, <1>4

LEMMA BeginDestroyKeeps ==
  ASSUME LogInv, BeginDestroy
  PROVE  LogInv'
<1>1. ConfigOK'
  BY DEF BeginDestroy, LogInv, ConfigOK
<1>2. CASE mLogger.async /\ PoolAlive
  <2> DEFINE it == Item("flush", Flush, 1)
  <2>1. it \in Queued /\ it.kind # Terminate /\ it.id = Flush
    BY ItemsQueued
  <2>2. Flush \notin InPool \cup Used
    BY DEF BeginDestroy, LogInv, PendingFresh
  <2>3. pc' = [pc EXCEPT ![Main] = "post"] /\ item' = [item EXCEPT ![Main] = it]
    BY <1>2 DEF BeginDestroy, Post
  <2> HIDE DEF it
  <2> QED
    BY <1>2, <2>1, <2>2, <2>3, PostKeeps DEF BeginDestroy, Callers
<1>3. CASE ~(mLogger.async /\ PoolAlive)
  BY <1>1, <1>3, ConfigKeeps DEF BeginDestroy, Post
<1> QED
  BY <1>2, <1>3

\* Log and flush.
LEMMA LogKeeps ==
  ASSUME LogInv, NEW t \in Callers, NEW m \in Messages, NEW level \in Nat,
         Log(t, m, level) \/ flush(t, m)
  PROVE  LogInv'
<1>1. m \notin InPool \cup Used /\ pc[t] = "idle" /\ (t = Main => main = "running")
  BY RequestedIsLogged DEF Log, flush
<1>2. ASSUME NEW it \in Queued, it.kind # Terminate, it.id = m, Post(t, it),
             UNCHANGED <<mLevel, loggers, q, worker, hand, registry, main, handled>>
      PROVE  LogInv'
  <2>1. CASE PoolAlive
    <3>1. m # Flush
      BY LoggerAssumption
    <3> QED
      BY <1>1, <1>2, <2>1, <3>1, PostKeeps DEF Post
  <2>2. CASE ~PoolAlive
    <3>1. ConfigOK'
      BY <1>2, <2>2 DEF Post, LogInv, ConfigOK
    <3> QED
      BY <1>2, <2>2, <3>1, ConfigKeeps DEF Post
  <2> QED
    BY <2>1, <2>2
<1>3. CASE Log(t, m, level) /\ mLogger.async
  <2>1. Item("log", m, level) \in Queued /\ Item("log", m, level).kind # Terminate
        /\ Item("log", m, level).id = m
    BY ItemsQueued
  <2> QED
    BY <1>2, <1>3, <2>1 DEF Log
<1>4. CASE Log(t, m, level) /\ ~mLogger.async
  BY <1>1, <1>4, WriteKeeps DEF Log
<1>5. CASE flush(t, m)
  <2>1. Item("flush", m, 1) \in Queued /\ Item("flush", m, 1).kind # Terminate
        /\ Item("flush", m, 1).id = m
    BY ItemsQueued
  <2> QED
    BY <1>2, <1>5, <2>1 DEF flush
<1> QED
  BY <1>3, <1>4, <1>5

LEMMA ConfigureKeeps ==
  ASSUME LogInv, Reconfigure \/ (\E level \in Levels : setLogLevel(level)) \/ EndDestroy
  PROVE  LogInv'
<1>1. ConfigOK'
  <2> DEFINE L == [level : Levels, sinks : Levels, async : BOOLEAN]
  <2>1. CASE Reconfigure
    <3>1. AsyncLogger \in L /\ FallbackLogger \in L
      BY DEF LogInv, ConfigOK, AsyncLogger, FallbackLogger, Levels
    <3> HIDE DEF L
    <3>2. \A new \in L : Append(loggers, new) \in Seq(L) /\ Append(loggers, new) # <<>>
      BY DEF LogInv, ConfigOK, L
    <3>3. loggers' \in Seq(L) /\ loggers' # <<>>
      BY <2>1, <3>1, <3>2 DEF Reconfigure
    <3> QED
      BY <2>1, <3>3 DEF Reconfigure, LogInv, ConfigOK, L
  <2>2. ASSUME NEW level \in Levels, setLogLevel(level)
        PROVE  ConfigOK'
    <3>1. loggers \in Seq(L) /\ Len(loggers) \in 1 .. Len(loggers)
      BY DEF LogInv, ConfigOK
    <3> HIDE DEF L
    <3>2. [loggers[Len(loggers)] EXCEPT !.level = level] \in L
      <4> DEFINE l == loggers[Len(loggers)]
      <4>1. l \in L
        BY <3>1
      <4> HIDE DEF l
      <4>2. [l EXCEPT !.level = level] \in L
        BY <4>1 DEF L
      <4> QED
        BY <4>2 DEF l
    <3>3. loggers' = [loggers EXCEPT ![Len(loggers)] = [loggers[Len(loggers)] EXCEPT !.level = level]]
      BY <2>2 DEF setLogLevel
    <3>4. loggers' \in Seq(L) /\ loggers' # <<>>
      BY <3>1, <3>2, <3>3
    <3> QED
      BY <2>2, <3>4 DEF setLogLevel, LogInv, ConfigOK, L
  <2>3. CASE EndDestroy
    BY <2>3 DEF EndDestroy, LogInv, ConfigOK
  <2> QED
    BY <2>1, <2>2, <2>3
<1>2. /\ registry' = registry /\ (main' = "running" => main = "running")
      /\ UNCHANGED <<q, pc, item, worker, hand, handled>>
  BY DEF Reconfigure, setLogLevel, EndDestroy
<1> QED
  BY <1>1, <1>2, ConfigKeeps

LEMMA DequeueReturnsKeeps ==
  ASSUME LogInv, DequeueReturns
  PROVE  LogInv'
<1>1. ASSUME NEW t \in Callers, pc[t] = "wait", pc' = [pc EXCEPT ![t] = "post"]
      PROVE  LogInv'
  BY <1>1, WaitKeeps DEF DequeueReturns, Pending
<1>2. CASE UNCHANGED pc
  <2>1. PoolOK' /\ CallersOK' /\ ConfigOK'
    BY <1>2 DEF DequeueReturns, LogInv, PoolOK, CallersOK, ConfigOK, Destroying
  <2>2. Pushed' = Pushed /\ InPool' = InPool /\ Used' = Used
    BY DEF InPool, Pushed, Used, DequeueReturns
  <2>3. PendingFresh'
    BY <1>2, <2>2 DEF DequeueReturns, LogInv, PendingFresh, Pending
  <2>4. TerminateLast'
    BY <1>2, <2>2 DEF DequeueReturns, LogInv, TerminateLast, PoolAlive, Holds, Destroying, Pending
  <2> QED
    BY <2>1, <2>3, <2>4 DEF LogInv
<1> QED
  BY <1>1, <1>2 DEF DequeueReturns

LEMMA StutterKeeps ==
  ASSUME LogInv, UNCHANGED vars
  PROVE  LogInv'
<1>1. ConfigOK'
  BY DEF vars, LogInv, ConfigOK
<1> QED
  BY <1>1, ConfigKeeps DEF vars

\* LogInv holds always: callers, worker and the destruction agree on what is in the
\* queue, what is about to be pushed, and who ends the pool.
THEOREM LoggerInvariant == Spec => []LogInv
<1>1. LogInv /\ [Next]_vars => LogInv'
  <2> SUFFICES ASSUME LogInv, [Next]_vars PROVE LogInv'
    OBVIOUS
  <2>1. CASE Reconfigure \/ (\E level \in Levels : setLogLevel(level)) \/ EndDestroy
    BY <2>1, ConfigureKeeps
  <2>2. ASSUME NEW t \in Callers, NEW m \in Messages, NEW level \in Levels,
               Log(t, m, level) \/ flush(t, m)
        PROVE  LogInv'
    BY <2>2, LogKeeps DEF Levels
  <2>3. ASSUME NEW t \in Callers, NEW m \in Messages, flush(t, m)
        PROVE  LogInv'
    BY <2>3, LogKeeps
  <2>4. ASSUME NEW t \in Callers, EnqueueStep(t)
        PROVE  LogInv'
    BY <2>4, EnqueueStepKeeps DEF EnqueueStep
  <2>5. ASSUME NEW t \in Callers, SpuriousWakeup(t)
        PROVE  LogInv'
    BY <2>5, WaitKeeps DEF SpuriousWakeup, Pending
  <2>6. CASE BeginDestroy
    BY <2>6, BeginDestroyKeeps
  <2>7. CASE Shutdown
    BY <2>7, ShutdownKeeps
  <2>8. CASE WorkerStep
    BY <2>8, DequeueKeeps, DequeueReturnsKeeps, HandleKeeps DEF WorkerStep
  <2>9. CASE UNCHANGED vars
    BY <2>9, StutterKeeps
  <2> QED
    BY <2>1, <2>2, <2>3, <2>4, <2>5, <2>6, <2>7, <2>8, <2>9 DEF Next, DestroyStep
<1> QED
  BY <1>1, LogInit, PTL DEF Spec

\* When the Logger is destroyed everything queued has been written, unless another
\* thread was inside a LOG_* call and has kept the pool.
THEOREM ShutdownLosesNothing == Spec => []ShutdownDrains
<1>1. LogInv => ShutdownDrains
  <2> SUFFICES ASSUME LogInv, main = "gone", \A t \in Threads : pc[t] = "idle"
               PROVE  Pushed = <<>>
    BY DEF ShutdownDrains
  <2>1. \A t \in Callers : pc[t] = "idle"
    BY DEF Callers, LogInv, ConfigOK
  <2>2. ~PoolAlive /\ \A t \in Callers : ~Destroying(t)
    BY <2>1, CallersAre DEF PoolAlive, Holds, LogInv, ConfigOK
  <2> QED
    BY <2>2 DEF LogInv, TerminateLast
<1> QED
  BY <1>1, LoggerInvariant, PTL

-----------------------------------------------------------------------------
(* No notification is lost, of which there is one for each push and each   *)
(* pop and no more: what the waits at the pool's queue depend on.          *)

Posting == {t \in Callers : pc[t] = "post"}
FreeSlots == Capacity - Len(Contents(q))

\* Nobody sleeps at the queue without a reason: the worker only while the queue is
\* empty or a caller has yet to notify it, and a caller only while the queue is full,
\* or the worker has yet to notify, or some other caller is about to take the slot.
SleepersAreWoken ==
  /\ worker = "wait" => Empty(q) \/ \E t \in Callers : pc[t] = "notify"
  /\ (\E t \in Callers : pc[t] = "wait") =>
       Full(q) \/ worker = "notify" \/ \E t \in Callers : pc[t] = "post"

\* The second half counts: one who is awake, or will be, for every free slot.
SleepersInv ==
  /\ q.n = Capacity + 1
  /\ worker = "wait" => Empty(q) \/ \E t \in Callers : pc[t] = "notify"
  /\ (\E t \in Callers : pc[t] = "wait") =>
       FreeSlots <= Cardinality(Posting) + (IF worker = "notify" THEN 1 ELSE 0)

LEMMA SizeAtLimits ==
  ASSUME NEW S, NEW c, CircularOK(c, S)
  PROVE  /\ Len(Contents(c)) \in 0 .. c.n - 1
         /\ Empty(c) <=> Len(Contents(c)) = 0
         /\ Full(c) <=> Len(Contents(c)) = c.n - 1
<1>1. Len(Contents(c)) = Size(c) /\ Size(c) \in 0 .. c.n - 1
  BY ContentsAre, Slots
<1>2. Full(c) <=> NextSlot(c, c.tail) = c.head
  BY Slots DEF Full, CircularOK
<1> DEFINE n == c.n
           h == c.head
           t == c.tail
           k == Size(c)
<1>3. /\ n \in Nat /\ n > 1 /\ h \in 0 .. n - 1 /\ t \in 0 .. n - 1
      /\ k = IF t >= h THEN t - h ELSE n - (h - t)
      /\ Empty(c) <=> t = h
      /\ Full(c) <=> (IF t + 1 = n THEN 0 ELSE t + 1) = h
  BY <1>2 DEF CircularOK, Size, Empty, NextSlot
<1> HIDE DEF n, h, t, k
<1>4. (Empty(c) <=> k = 0) /\ (Full(c) <=> k = n - 1)
  BY <1>3
<1> QED
  BY <1>1, <1>4 DEF n, k

LEMMA PostingIs ==
  ASSUME IsFiniteSet(Threads)
  PROVE  /\ IsFiniteSet(Callers)
         /\ IsFiniteSet(Posting) /\ Cardinality(Posting) \in Nat
         /\ IsFiniteSet(Posting') /\ Cardinality(Posting') \in Nat
         /\ Posting \subseteq Posting' => Cardinality(Posting) <= Cardinality(Posting')
<1>1. IsFiniteSet(Callers)
  BY FS_AddElement DEF Callers
<1>2. Posting \in SUBSET Callers /\ Posting' \in SUBSET Callers
  BY DEF Posting
<1> HIDE DEF Posting
<1>3. IsFiniteSet(Posting) /\ IsFiniteSet(Posting')
  BY <1>1, <1>2, FS_Subset
<1>4. Cardinality(Posting) \in Nat /\ Cardinality(Posting') \in Nat
  BY <1>3, FS_CardinalityType
<1>5. Posting \subseteq Posting' => Cardinality(Posting) <= Cardinality(Posting')
  BY <1>3, FS_Subset
<1> QED
  BY <1>1, <1>3, <1>4, <1>5

\* A step that leaves the queue alone, puts nobody to sleep and takes no notification
\* back.
LEMMA AwakeKeeps ==
  ASSUME LogInv, SleepersInv, IsFiniteSet(Threads), q' = q,
         \A t \in Callers : /\ pc[t] = "post" => pc'[t] = "post"
                            /\ pc'[t] = "wait" => pc[t] = "wait",
         worker = "notify" => worker' = "notify",
         worker' = "wait" => worker = "wait" /\ \A t \in Callers : pc[t] = "notify" => pc'[t] = "notify"
  PROVE  SleepersInv'
<1>1. Cardinality(Posting) <= Cardinality(Posting') /\ Cardinality(Posting) \in Nat
      /\ Cardinality(Posting') \in Nat
  BY PostingIs DEF Posting
<1>2. FreeSlots' = FreeSlots /\ FreeSlots \in Int
  <2>1. Len(Contents(q)) \in Int /\ Capacity \in Nat
    BY LoggerAssumption, SizeAtLimits DEF LogInv, PoolOK, CircularOK
  <2> QED
    BY <2>1 DEF FreeSlots
<1>3. worker' = "wait" => Empty(q') \/ \E t \in Callers : pc'[t] = "notify"
  BY DEF SleepersInv
<1>4. (\E t \in Callers : pc'[t] = "wait") =>
        FreeSlots' <= Cardinality(Posting') + (IF worker' = "notify" THEN 1 ELSE 0)
  BY <1>1, <1>2 DEF SleepersInv
<1> QED
  BY <1>3, <1>4 DEF SleepersInv

LEMMA EnqueueWakes ==
  ASSUME LogInv, SleepersInv, IsFiniteSet(Threads), NEW t \in Callers, Enqueue(t)
  PROVE  SleepersInv'
<1>1. /\ CircularOK(q, Queued) /\ pc \in [Callers -> {"idle", "post", "wait", "notify", "join"}]
      /\ Contents(q) \in Seq(Queued) /\ Capacity \in Nat
  BY LoggerAssumption DEF LogInv, PoolOK, CallersOK
<1>2. /\ Len(Contents(q)) \in 0 .. q.n - 1 /\ q.n = Capacity + 1
      /\ Full(q) <=> Len(Contents(q)) = q.n - 1
  BY <1>1, SizeAtLimits DEF SleepersInv
<1>3. Cardinality(Posting) \in Nat /\ Cardinality(Posting') \in Nat /\ IsFiniteSet(Posting)
  BY PostingIs
<1>4. worker' = worker
  BY DEF Enqueue
<1>5. CASE Full(q)
  <2>1. q' = q /\ pc' = [pc EXCEPT ![t] = "wait"]
    BY <1>5 DEF Enqueue
  <2>2. FreeSlots' = 0
    BY <1>1, <1>2, <1>5, <2>1 DEF FreeSlots
  <2>3. worker' = "wait" => Empty(q') \/ \E u \in Callers : pc'[u] = "notify"
    BY <1>1, <1>4, <2>1 DEF SleepersInv, Enqueue
  <2>4. FreeSlots' <= Cardinality(Posting') + (IF worker' = "notify" THEN 1 ELSE 0)
    BY <1>3, <2>2
  <2> QED
    BY <1>2, <2>1, <2>3, <2>4 DEF SleepersInv
<1>6. CASE ~Full(q)
  <2>1. q' = PushBack(q, item[t]) /\ pc' = [pc EXCEPT ![t] = "notify"] /\ pc[t] = "post"
    BY <1>6 DEF Enqueue
  <2>2. item[t] \in Queued
    BY <2>1, LoggerAssumption DEF LogInv, CallersOK
  <2>3. Contents(q)' = Append(Contents(q), item[t]) /\ q'.n = q.n
    <3>1. Contents(q)' = Append(Contents(q), item[t])
      BY <1>1, <1>6, <2>1, <2>2, PushAppends
    <3>2. q'.n = q.n
      BY <1>1, <2>1 DEF PushBack, CircularOK
    <3> QED
      BY <3>1, <3>2
  <2>4. Len(Contents(q)') = Len(Contents(q)) + 1
    BY <1>1, <2>2, <2>3
  <2>5. FreeSlots' = FreeSlots - 1 /\ FreeSlots \in Int
    BY <1>1, <1>2, <2>4 DEF FreeSlots
  <2>6. Cardinality(Posting') = Cardinality(Posting) - 1
    <3>1. t \in Posting /\ Posting' = Posting \ {t}
      BY <1>1, <2>1 DEF Posting
    <3> QED
      BY <1>3, <3>1, FS_RemoveElement
  <2>7. \A u \in Callers : pc'[u] = "wait" => pc[u] = "wait"
    BY <1>1, <2>1
  <2>8. (\E u \in Callers : pc'[u] = "wait") =>
          FreeSlots' <= Cardinality(Posting') + (IF worker' = "notify" THEN 1 ELSE 0)
    <3>1. ASSUME \E u \in Callers : pc'[u] = "wait"
          PROVE  FreeSlots <= Cardinality(Posting) + (IF worker = "notify" THEN 1 ELSE 0)
      BY <2>7, <3>1 DEF SleepersInv
    <3> QED
      BY <3>1, <1>3, <1>4, <2>5, <2>6
  <2>9. pc'[t] = "notify"
    BY <1>1, <2>1
  <2> QED
    BY <1>2, <2>3, <2>8, <2>9 DEF SleepersInv
<1> QED
  BY <1>5, <1>6

LEMMA WorkerWakes ==
  ASSUME LogInv, SleepersInv, IsFiniteSet(Threads), WorkerStep
  PROVE  SleepersInv'
<1>1. /\ CircularOK(q, Queued) /\ pc \in [Callers -> {"idle", "post", "wait", "notify", "join"}]
      /\ Contents(q) \in Seq(Queued) /\ Capacity \in Nat
  BY LoggerAssumption DEF LogInv, PoolOK, CallersOK
<1>2. Len(Contents(q)) \in Nat /\ FreeSlots \in Int
  BY <1>1, SizeAtLimits DEF FreeSlots
<1>3. Cardinality(Posting) \in Nat /\ Cardinality(Posting') \in Nat /\ IsFiniteSet(Posting)
  BY PostingIs
<1>4. CASE Dequeue /\ Empty(q)
  <2>1. worker = "dequeue" /\ worker' = "wait" /\ UNCHANGED <<q, pc>>
    BY <1>4 DEF Dequeue
  <2> QED
    BY <1>4, <2>1 DEF SleepersInv, FreeSlots, Posting
<1>5. CASE Dequeue /\ ~Empty(q)
  <2>1. worker = "dequeue" /\ worker' = "notify" /\ q' = PopFront(q) /\ pc' = pc
    BY <1>5 DEF Dequeue
  <2>2. Contents(q)' = Tail(Contents(q)) /\ Contents(q) # <<>> /\ q'.n = q.n
    BY <1>1, <1>5, <2>1, PopTakesHead DEF PopFront, CircularOK
  <2>3. Len(Contents(q)') = Len(Contents(q)) - 1
    BY <1>1, <2>2
  <2>4. FreeSlots' = FreeSlots + 1
    BY <1>1, <1>2, <2>3 DEF FreeSlots
  <2>5. Posting' = Posting
    BY <2>1 DEF Posting
  <2>6. (\E u \in Callers : pc'[u] = "wait") => FreeSlots <= Cardinality(Posting)
    BY <1>2, <1>3, <2>1 DEF SleepersInv
  <2> QED
    BY <1>2, <1>3, <2>1, <2>2, <2>4, <2>5, <2>6 DEF SleepersInv
<1>6. ASSUME DequeueReturns, NEW t \in Callers, pc[t] = "wait", pc' = [pc EXCEPT ![t] = "post"]
      PROVE  SleepersInv'
  <2>1. worker = "notify" /\ worker' = "handle" /\ q' = q
    BY <1>6 DEF DequeueReturns
  <2>2. t \notin Posting /\ Posting' = Posting \cup {t}
    BY <1>1, <1>6 DEF Posting
  <2>3. Cardinality(Posting') = Cardinality(Posting) + 1
    BY <1>3, <2>2, FS_AddElement
  <2>4. FreeSlots <= Cardinality(Posting) + 1
    BY <1>6, <2>1 DEF SleepersInv
  <2>5. FreeSlots' = FreeSlots
    BY <2>1 DEF FreeSlots
  <2> QED
    BY <1>2, <1>3, <2>1, <2>3, <2>4, <2>5 DEF SleepersInv
<1>7. CASE DequeueReturns /\ (\A t \in Callers : pc[t] # "wait") /\ UNCHANGED pc
  BY <1>7 DEF SleepersInv, DequeueReturns
<1>8. CASE Handle
  <2>1. worker # "notify" /\ worker' # "wait" /\ q' = q /\ pc' = pc
    BY <1>8 DEF Handle
  <2> QED
    BY <2>1, AwakeKeeps
<1> QED
  BY <1>4, <1>5, <1>6, <1>7, <1>8 DEF WorkerStep, DequeueReturns

\* For any number of threads and slots: whoever sleeps at the queue has been promised
\* a notification that is still to come, spurious wakeups and the Logger's end
\* included.  It is the safety half of LoggedIsWritten.
THEOREM NoNotificationIsLost ==
  ASSUME IsFiniteSet(Threads)
  PROVE  Spec => []SleepersAreWoken
<1>1. Init => SleepersInv
  BY DEF Init, SleepersInv, NewQ
<1>2. LogInv /\ SleepersInv /\ [Next]_vars => SleepersInv'
  <2> SUFFICES ASSUME LogInv, SleepersInv, [Next]_vars PROVE SleepersInv'
    OBVIOUS
  <2> DEFINE Quiet == /\ q' = q /\ worker' = worker
                      /\ \A t \in Callers :
                           /\ pc[t] \in {"post", "notify"} => pc'[t] = pc[t]
                           /\ pc'[t] = "wait" => pc[t] = "wait"
  <2>1. ASSUME Quiet PROVE SleepersInv'
    BY <2>1, AwakeKeeps
  <2>2. pc \in [Callers -> {"idle", "post", "wait", "notify", "join"}] /\ Main \in Callers
    BY DEF LogInv, CallersOK, Callers
  <2>3. CASE \/ Reconfigure \/ (\E level \in Levels : setLogLevel(level))
             \/ EndDestroy \/ UNCHANGED vars
    <3>1. Quiet
      BY <2>3 DEF Reconfigure, setLogLevel, EndDestroy, vars
    <3> QED
      BY <2>1, <3>1
  <2>4. ASSUME NEW t \in Callers, pc[t] \in {"idle", "wait"}, q' = q, worker' = worker,
               pc' = pc \/ pc' = [pc EXCEPT ![t] = "post"]
        PROVE  SleepersInv'
    <3>1. Quiet
      BY <2>2, <2>4
    <3> QED
      BY <2>1, <3>1
  <2>5. ASSUME NEW t \in Callers, NEW m \in Messages, NEW level \in Levels,
               Log(t, m, level) \/ flush(t, m)
        PROVE  SleepersInv'
    BY <2>4, <2>5 DEF Log, flush, Post
  <2>6. ASSUME NEW t \in Callers, NEW m \in Messages, flush(t, m)
        PROVE  SleepersInv'
    BY <2>4, <2>6 DEF flush, Post
  <2>7. ASSUME NEW t \in Callers, SpuriousWakeup(t)
        PROVE  SleepersInv'
    BY <2>4, <2>7 DEF SpuriousWakeup
  <2>8. CASE BeginDestroy \/ Shutdown
    BY <2>2, <2>4, <2>8 DEF BeginDestroy, Shutdown, Post
  <2>9. ASSUME NEW t \in Callers, EnqueueReturns(t)
        PROVE  SleepersInv'
    <3>1. /\ q' = q /\ worker' = IF worker = "wait" THEN "dequeue" ELSE worker
          /\ pc[t] = "notify" /\ \E to \in {"join", "post", "idle"} : pc' = [pc EXCEPT ![t] = to]
      BY <2>9 DEF EnqueueReturns
    <3>2. \A u \in Callers : /\ pc[u] = "post" => pc'[u] = "post"
                             /\ pc'[u] = "wait" => pc[u] = "wait"
      BY <2>2, <3>1
    <3> QED
      BY <3>1, <3>2, AwakeKeeps
  <2>10. ASSUME NEW t \in Callers, Join(t)
         PROVE  SleepersInv'
    <3>1. Quiet
      BY <2>2, <2>10 DEF Join
    <3> QED
      BY <2>1, <3>1
  <2>11. CASE \E t \in Callers : Enqueue(t)
    BY <2>11, EnqueueWakes
  <2>12. CASE WorkerStep
    BY <2>12, WorkerWakes
  <2> QED
    BY <2>3, <2>5, <2>6, <2>7, <2>8, <2>9, <2>10, <2>11, <2>12
      DEF Next, EnqueueStep, DestroyStep
<1>3. LogInv /\ SleepersInv => SleepersAreWoken
  <2> SUFFICES ASSUME LogInv, SleepersInv, \E t \in Callers : pc[t] = "wait", ~Full(q),
                      worker # "notify", Posting = {}
               PROVE  FALSE
    BY DEF SleepersInv, SleepersAreWoken, Posting
  <2>1. Cardinality(Posting) = 0
    BY FS_EmptySet
  <2>2. CircularOK(q, Queued) /\ Capacity \in Nat
    BY LoggerAssumption DEF LogInv, PoolOK
  <2>3. FreeSlots > 0
    BY <2>2, SizeAtLimits DEF SleepersInv, FreeSlots
  <2> QED
    BY <2>1, <2>3, <2>2, SizeAtLimits DEF SleepersInv, FreeSlots
<1> QED
  BY <1>1, <1>2, <1>3, LoggerInvariant, PTL DEF Spec

-----------------------------------------------------------------------------
(* The refinement: the queue is what the worker has in its hand, followed  *)
(* by what circular_q holds.                                               *)

LEMMA QueueIs ==
  LogQueue!vars = <<Ids(Pushed), handled>>
  BY DEF LogQueue!vars, Ids

LEMMA FreshIs ==
  ASSUME NEW m, m \notin InPool
  PROVE  LogQueue!Fresh(m)
  BY DEF InPool, Ids, LogQueue!Fresh, Range, LogQueue!Range

LEMMA EnqueueIsSubmit ==
  ASSUME LogInv, NEW t \in Callers, Enqueue(t)
  PROVE  LogQueue!Next \/ UNCHANGED <<q, hand, handled>>
<1> DEFINE x == item[t]
<1>1. CASE ~Full(q)
  <2>1. x \in Queued /\ x.id \notin InPool /\ x.id \in Messages \cup {Flush, Terminate}
    BY LoggerAssumption
      DEF LogInv, CallersOK, Pending, PendingFresh, Queued, Items, Enqueue
  <2>2. Pushed' = Append(Pushed, x) /\ Pushed \in Seq(Queued)
    BY <1>1, <2>1, PushPushes, PushedType DEF LogInv, Enqueue
  <2>3. Ids(Pushed') = Append(Ids(Pushed), x.id) /\ handled' = handled
    BY <2>1, <2>2, IdsOf DEF Enqueue
  <2>4. PICK m \in Messages \cup {Flush, Terminate} : m = x.id
    BY <2>1
  <2>5. LogQueue!Submit(m)
    BY <2>1, <2>3, <2>4, FreshIs DEF LogQueue!Submit, Ids
  <2> QED
    BY <2>5 DEF LogQueue!Next
<1>2. CASE Full(q)
  BY <1>2 DEF Enqueue
<1> QED
  BY <1>1, <1>2

LEMMA HandleIsExecuteHead ==
  ASSUME LogInv, Handle
  PROVE  LogQueue!Next
<1>1. /\ Pushed \in Seq(Queued) /\ Pushed # <<>> /\ Head(Pushed) = hand
      /\ Pushed' = Tail(Pushed)
  BY HandleKeeps, PushedType DEF LogInv
<1>2. /\ Ids(Pushed) # <<>> /\ Head(Ids(Pushed)) = hand.id
      /\ Ids(Pushed') = Tail(Ids(Pushed))
  BY <1>1, IdsOf
<1>3. LogQueue!ExecuteHead
  BY <1>2 DEF LogQueue!ExecuteHead, Ids, Handle
<1> QED
  BY <1>3 DEF LogQueue!Next

\* Every behaviour of Logger is one of FunctorQueue: what reaches the pool is handled
\* once and in the order of the pushes, however small circular_q is, whoever waits
\* for it and whenever the Logger is destroyed.
THEOREM RefinesLogQueue == Spec => LogsInOrder
<1>1. Init => LogQueue!Init
  <2> SUFFICES ASSUME Init PROVE LogQueue!Init
    OBVIOUS
  <2>1. Contents(q) = <<>>
    BY NewIsEmpty, LoggerAssumption DEF Init
  <2>2. Ids(Pushed) = <<>>
    BY <2>1 DEF Init, Pushed, Ids
  <2> QED
    BY <2>2 DEF Init, LogQueue!Init, Ids
<1>2. LogInv /\ [Next]_vars => [LogQueue!Next]_LogQueue!vars
  <2> SUFFICES ASSUME LogInv, [Next]_vars
               PROVE  LogQueue!Next \/ UNCHANGED LogQueue!vars
    OBVIOUS
  <2>1. ASSUME UNCHANGED <<q, hand, handled>>
        PROVE  UNCHANGED LogQueue!vars
    BY <2>1 DEF LogQueue!vars, Pushed
  <2>2. ASSUME NEW t \in Callers, NEW m \in Messages, NEW level \in Levels,
               Log(t, m, level)
        PROVE  LogQueue!Next \/ UNCHANGED <<q, hand, handled>>
    <3>1. CASE mLogger.async
      BY <2>2, <3>1 DEF Log
    <3>2. CASE ~mLogger.async
      <4>1. LogQueue!Fresh(m)
        BY <2>2, RequestedIsLogged, FreshIs DEF Log
      <4>2. handled' = Append(handled, m) /\ UNCHANGED <<q, hand>>
        BY <2>2, <3>2 DEF Log
      <4>3. LogQueue!ExecuteNow(m)
        BY <4>1, <4>2 DEF LogQueue!ExecuteNow, Pushed
      <4> QED
        BY <4>3 DEF LogQueue!Next
    <3> QED
      BY <3>1, <3>2
  <2>3. ASSUME NEW t \in Callers, EnqueueStep(t)
        PROVE  LogQueue!Next \/ UNCHANGED <<q, hand, handled>>
    BY <2>3, EnqueueIsSubmit DEF EnqueueStep, EnqueueReturns, Join
  <2>4. CASE Dequeue
    BY <2>4, DequeueKeeps, QueueIs DEF Dequeue, LogQueue!vars
  <2>5. CASE Handle
    BY <2>5, HandleIsExecuteHead
  <2>6. CASE \/ Reconfigure \/ \E level \in Levels : setLogLevel(level)
             \/ \E t \in Callers : \/ \E m \in Messages : flush(t, m)
                                   \/ SpuriousWakeup(t)
             \/ BeginDestroy \/ DestroyStep \/ DequeueReturns \/ UNCHANGED vars
    BY <2>1, <2>6 DEF Reconfigure, setLogLevel, flush, SpuriousWakeup, BeginDestroy,
                      DestroyStep, Shutdown, EndDestroy, DequeueReturns, vars
  <2> QED
    BY <2>1, <2>2, <2>3, <2>4, <2>5, <2>6 DEF Next, WorkerStep
<1> QED
  BY <1>1, <1>2, LoggerInvariant, PTL DEF Spec, LogsInOrder, LogQueue!Spec
=============================================================================
