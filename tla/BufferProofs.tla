---------------------------- MODULE BufferProofs ----------------------------
(***************************************************************************)
(* Proofs about Buffer and Decoder for every number of objects, every      *)
(* initial size and every length.  Four parts: the indexes of a buffer     *)
(* never leave its memory, whatever memory that is; the memory is owned,   *)
(* counted once for each object that shows it and freed with the last      *)
(* (MemInv); every object shows its bytes as long as nobody rewinds, moves *)
(* or writes what he shares (ByteInv); and so a decoder finds the frames.  *)
(* The steps are taken twice: for what becomes of the heap, then for what  *)
(* the object and the others see in it.                                    *)
(***************************************************************************)
EXTENDS Decoder, SequenceTheorems, FiniteSetTheorems, TLAPS

IsFields(x) == x = Fields(x.block, x.r, x.w, x.cap, x.own, x.cell)

\* The indexes of one object.
Ordered(x) ==
  /\ IsFields(x)
  /\ x.r \in Nat /\ x.w \in Nat /\ x.cap \in Nat
  /\ x.cell # None => KPrependSize <= x.r /\ x.r <= x.w /\ x.w <= x.cap

\* The indexes of a usable object.
InMemory(x) ==
  /\ IsFields(x)
  /\ x.r \in Nat /\ x.w \in Nat /\ x.cap \in Nat
  /\ KPrependSize <= x.r /\ x.r <= x.w /\ x.w <= x.cap

\* What every step keeps.
BufInv ==
  /\ total \in Nat
  /\ buf = [h \in Handles |-> buf[h]]
  /\ \A h \in Handles : Ordered(buf[h])

\* ensureWriteableBytes leaves room for len more bytes, whichever of its three ways it
\* takes, and the readable bytes are as many as before.
THEOREM EnsureWriteableMakesRoom ==
  ASSUME NEW hp, NEW x, NEW len \in Nat, InMemory(x)
  PROVE  LET e == ensureWriteableBytes(hp, x, len).buf
         IN InMemory(e) /\ writableBytes(e) >= len /\ readableBytes(e) = readableBytes(x)
<1> DEFINE e == ensureWriteableBytes(hp, x, len).buf
<1> SUFFICES InMemory(e) /\ writableBytes(e) >= len /\ readableBytes(e) = readableBytes(x)
  OBVIOUS
<1> USE BufferAssumption DEF InMemory, IsFields, Fields, writableBytes, readableBytes
<1>1. CASE writableBytes(x) >= len
  <2>1. e = x
    BY <1>1 DEF ensureWriteableBytes
  <2> QED BY <2>1, <1>1
<1>2. CASE writableBytes(x) < len /\ x.own
  <2>1. e = makeSpace(hp, x, len).buf
    BY <1>2 DEF ensureWriteableBytes
  <2>2. CASE writableBytes(x) + x.r < len + KPrependSize
    <3>1. e = Fields(FreshBlock(hp), KPrependSize, KPrependSize + readableBytes(x),
                     2 * x.cap + len, x.own, x.cell)
      BY <2>1, <2>2 DEF makeSpace, Replaced
    <3> QED BY <3>1
  <2>3. CASE ~(writableBytes(x) + x.r < len + KPrependSize)
    <3>1. e = Fields(x.block, KPrependSize, KPrependSize + readableBytes(x), x.cap, x.own, x.cell)
      BY <2>1, <2>3 DEF makeSpace, Compacted
    <3> QED BY <3>1, <2>3
  <2> QED BY <2>2, <2>3
<1>3. CASE writableBytes(x) < len /\ ~x.own
  <2>1. e = makeOwnBuffer(hp, x, len).buf
    BY <1>3 DEF ensureWriteableBytes
  <2>2. e = Fields(FreshBlock(hp), KPrependSize, KPrependSize + readableBytes(x),
                   KPrependSize + readableBytes(x) + len, TRUE, FreshCell(hp))
    BY <2>1 DEF makeOwnBuffer
  <2> QED BY <2>2
<1> QED BY <1>1, <1>2, <1>3

\* makeOwnBuffer called by itself.
LEMMA OwnInMemory ==
  ASSUME NEW hp, NEW x, NEW len \in Nat, InMemory(x)
  PROVE  InMemory(makeOwnBuffer(hp, x, len).buf)
<1> DEFINE e == makeOwnBuffer(hp, x, len).buf
<1>1. e = Fields(FreshBlock(hp), KPrependSize, KPrependSize + readableBytes(x),
                 KPrependSize + readableBytes(x) + len, TRUE, FreshCell(hp))
  BY DEF makeOwnBuffer
<1> HIDE DEF e
<1>2. InMemory(e)
  BY <1>1, BufferAssumption DEF InMemory, IsFields, Fields, readableBytes
<1> QED BY <1>2 DEF e

\* Writing no more than there is room for.
LEMMA WrittenInMemory ==
  ASSUME NEW s, NEW data \in Seq(Nat), InMemory(s.buf), Len(data) <= writableBytes(s.buf)
  PROVE  InMemory(Written(s, data).buf)
<1> DEFINE y == Written(s, data).buf
<1>1. y = [s.buf EXCEPT !.w = @ + Len(data)]
  BY DEF Written
<1>2. Len(data) \in Nat
  BY LenProperties
<1> HIDE DEF y
<1> DEFINE x == s.buf
<1>3. y = Fields(x.block, x.r, x.w + Len(data), x.cap, x.own, x.cell)
  <2> HIDE DEF x
  <2>1. y = [x EXCEPT !.w = @ + Len(data)] /\ x = Fields(x.block, x.r, x.w, x.cap, x.own, x.cell)
    BY <1>1 DEF InMemory, IsFields, x
  <2> QED BY <2>1 DEF Fields
<1>4. x.r \in Nat /\ x.w \in Nat /\ x.cap \in Nat /\ KPrependSize <= x.r /\ x.r <= x.w
      /\ x.w + Len(data) <= x.cap
  BY <1>2 DEF InMemory, writableBytes
<1> HIDE DEF x
<1>5. InMemory(y)
  BY <1>2, <1>3, <1>4, BufferAssumption DEF InMemory, IsFields, Fields
<1> QED
  BY <1>5 DEF y

\* append, whatever the length.
LEMMA AppendedInMemory ==
  ASSUME NEW hp, NEW x, NEW data \in Seq(Nat), InMemory(x)
  PROVE  InMemory(appended(hp, x, data).buf)
<1> DEFINE e == ensureWriteableBytes(hp, x, Len(data))
<1>1. Len(data) \in Nat
  BY LenProperties
<1>2. InMemory(e.buf) /\ writableBytes(e.buf) >= Len(data)
  BY <1>1, EnsureWriteableMakesRoom
<1>3. writableBytes(e.buf) \in Int
  BY <1>2 DEF InMemory, writableBytes
<1>4. InMemory(Written(e, data).buf)
  BY <1>1, <1>2, <1>3, WrittenInMemory
<1> QED
  BY <1>4 DEF appended

\* readFd, whether or not it needs extraBuf.
LEMMA ReadInMemory ==
  ASSUME NEW hp, NEW x, NEW data \in Seq(Nat), InMemory(x)
  PROVE  InMemory(readFd(hp, x, data).buf)
<1> DEFINE n == writableBytes(x)
           s == [heap |-> hp, buf |-> x]
           full == Written(s, SubSeq(data, 1, n))
<1>1. n \in Nat /\ s.buf = x /\ Len(data) \in Nat
  BY LenProperties DEF InMemory, writableBytes
<1>2. CASE Len(data) <= n
  <2>1. InMemory(Written(s, data).buf)
    BY <1>1, <1>2, WrittenInMemory
  <2> QED BY <1>2, <2>1 DEF readFd
<1>3. CASE ~(Len(data) <= n)
  <2>1. SubSeq(data, 1, n) \in Seq(Nat) /\ Len(SubSeq(data, 1, n)) = n
    BY <1>1, <1>3, SubSeqProperties
  <2>2. SubSeq(data, n + 1, Len(data)) \in Seq(Nat)
    BY <1>1, <1>3, SubSeqProperties
  <2>3. InMemory(full.buf)
    <3>1. Len(SubSeq(data, 1, n)) <= writableBytes(s.buf)
      BY <1>1, <2>1
    <3> HIDE DEF n, s
    <3>2. InMemory(s.buf)
      BY <1>1
    <3> QED BY <2>1, <3>1, <3>2, WrittenInMemory
  <2>4. InMemory(appended(full.heap, full.buf, SubSeq(data, n + 1, Len(data))).buf)
    BY <2>2, <2>3, AppendedInMemory
  <2> QED BY <1>3, <2>4 DEF readFd
<1> QED BY <1>2, <1>3

\* The invariant holds when one object changes, or two.
LEMMA OneChanges ==
  ASSUME BufInv, total' \in Nat, NEW h \in Handles, NEW x, Ordered(x), buf' = [buf EXCEPT ![h] = x]
  PROVE  BufInv'
  BY DEF BufInv, Ordered, IsFields

LEMMA TwoChange ==
  ASSUME BufInv, total' = total, NEW h \in Handles, NEW g \in Handles, NEW x, NEW y,
         Ordered(x), Ordered(y), buf' = [buf EXCEPT ![g] = y, ![h] = x]
  PROVE  BufInv'
  BY DEF BufInv, Ordered, IsFields

\* An object that is usable has its indexes in memory, and one in memory is ordered.
LEMMA UsableInMemory ==
  ASSUME BufInv, NEW h \in Handles, Usable(h)
  PROVE  InMemory(buf[h])
  BY DEF BufInv, Usable, Ordered, InMemory

LEMMA InMemoryOrdered ==
  ASSUME NEW x, InMemory(x)
  PROVE  Ordered(x)
  BY DEF Ordered, InMemory

\* The appended bytes form a sequence of the length asked for.
LEMMA DataIsSeq ==
  ASSUME total \in Nat, NEW len \in Nat
  PROVE  Data(len) \in Seq(Nat) /\ Len(Data(len)) = len
<1>1. \A i \in 1..len : total + i \in Nat
  OBVIOUS
<1> QED
  BY <1>1, IsASeq DEF Data

\* slicePacket, of any length: a decoder cuts off more than the bound of a call, too.
LEMMA PacketIndexes ==
  ASSUME BufInv, NEW h \in Handles, NEW g \in Handles, NEW length \in Nat, SlicePacket(h, length, g)
  PROVE  BufInv'
<1> USE BufferAssumption
<1> DEFINE x == buf[h]
           y == Fields(x.block, x.r, x.r + length, x.cap, FALSE, x.cell)
           z == Fields(x.block, x.r + length, x.w, x.cap, x.own, x.cell)
<1>1. InMemory(x) /\ length <= readableBytes(x)
  BY UsableInMemory DEF SlicePacket
<1>2. InMemory(y) /\ InMemory(z)
  BY <1>1 DEF InMemory, IsFields, Fields, readableBytes
<1>3. g # h
  BY DEF SlicePacket, Usable, NoObject, Fields
<1>4. buf' = [buf EXCEPT ![g] = y, ![h] = [x EXCEPT !.r = @ + length]]
  BY <1>3 DEF SlicePacket, BufInv
<1>5. [x EXCEPT !.r = @ + length] = z
  <2> HIDE DEF x
  <2> QED BY <1>1 DEF InMemory, IsFields, Fields
<1>6. buf' = [buf EXCEPT ![g] = y, ![h] = z] /\ total' = total
  BY <1>4, <1>5 DEF SlicePacket
<1> HIDE DEF x, y, z
<1> QED BY <1>2, <1>6, InMemoryOrdered, TwoChange

\* Every step keeps the invariant.
LEMMA IndexStep ==
  ASSUME BufInv, [Next]_vars
  PROVE  BufInv'
<1> USE BufferAssumption
<1>1. ASSUME NEW h \in Handles, NEW len \in 1..MaxLen, Appends(h, len)
      PROVE  BufInv'
  <2>1. InMemory(appended(heap, buf[h], Data(len)).buf)
    BY <1>1, UsableInMemory, DataIsSeq, AppendedInMemory DEF Appends, BufInv
  <2> QED BY <1>1, <2>1, InMemoryOrdered, OneChanges DEF Appends, Fills, BufInv
<1>2. ASSUME NEW h \in Handles, NEW len \in 1..MaxLen, ReadFd(h, len)
      PROVE  BufInv'
  <2>1. InMemory(readFd(heap, buf[h], Data(len)).buf)
    BY <1>2, UsableInMemory, DataIsSeq, ReadInMemory DEF ReadFd, BufInv
  <2> QED BY <1>2, <2>1, InMemoryOrdered, OneChanges DEF ReadFd, Fills, BufInv
<1>3. ASSUME NEW h \in Handles, NEW len \in 0..MaxLen, Skip(h, len)
      PROVE  BufInv'
  <2> DEFINE x == buf[h]
  <2>1. InMemory(x)
    BY <1>3, UsableInMemory DEF Skip
  <2>2. total' \in Nat /\ buf' = [buf EXCEPT ![h] = skip(x, len)]
    BY <1>3 DEF Skip, BufInv
  <2> HIDE DEF x
  <2>3. skip(x, len) = IF len < x.w - x.r
                       THEN Fields(x.block, x.r + len, x.w, x.cap, x.own, x.cell)
                       ELSE Fields(x.block, KPrependSize, KPrependSize, x.cap, x.own, x.cell)
    <3>1. x = Fields(x.block, x.r, x.w, x.cap, x.own, x.cell)
      BY <2>1 DEF InMemory, IsFields
    <3>2. [x EXCEPT !.r = @ + len] = Fields(x.block, x.r + len, x.w, x.cap, x.own, x.cell)
      BY <3>1 DEF Fields
    <3> QED BY <3>2 DEF skip, readableBytes
  <2>4. InMemory(skip(x, len))
    BY <2>1, <2>3 DEF InMemory, IsFields, Fields
  <2> QED BY <2>2, <2>4, InMemoryOrdered, OneChanges
<1>4. ASSUME NEW h \in Handles, NEW size \in InitialSizes, Construct(h, size)
      PROVE  BufInv'
  <2>1. Ordered(Fields(FreshBlock(heap), KPrependSize, KPrependSize, KPrependSize + size, TRUE, FreshCell(heap)))
    BY DEF Ordered, IsFields, Fields
  <2> QED BY <1>4, <2>1, OneChanges DEF Construct, BufInv
<1>5. ASSUME NEW h \in Handles, Destroy(h)
      PROVE  BufInv'
  <2>1. Ordered(NoObject)
    BY DEF Ordered, IsFields, NoObject, Fields
  <2> QED BY <1>5, <2>1, OneChanges DEF Destroy, BufInv
<1>6. ASSUME NEW h \in Handles, NEW g \in Handles, NEW offset \in 0..MaxLen, NEW length \in 0..MaxLen,
             Slice(h, offset, length, g)
      PROVE  BufInv'
  <2> DEFINE x == buf[h]
             y == Fields(x.block, x.r + offset, x.r + offset + length, x.cap, FALSE, x.cell)
  <2>1. InMemory(x) /\ offset + length <= readableBytes(x)
    BY <1>6, UsableInMemory DEF Slice
  <2>2. InMemory(y)
    BY <2>1 DEF InMemory, IsFields, Fields, readableBytes
  <2> QED BY <1>6, <2>2, InMemoryOrdered, OneChanges DEF Slice, BufInv
<1>7. ASSUME NEW h \in Handles, NEW g \in Handles, NEW length \in 0..MaxLen, SlicePacket(h, length, g)
      PROVE  BufInv'
  BY <1>7, PacketIndexes
<1>8. ASSUME NEW h \in Handles, NEW g \in Handles, Copy(h, g)
      PROVE  BufInv'
  <2> DEFINE x == buf[h]
             y == Fields(x.block, x.r, x.w, x.cap, FALSE, x.cell)
  <2>1. InMemory(x)
    BY <1>8, UsableInMemory DEF Copy
  <2>2. InMemory(y)
    BY <2>1 DEF InMemory, IsFields, Fields
  <2>3. total' \in Nat /\ buf' = [buf EXCEPT ![g] = y]
    BY <1>8 DEF Copy, BufInv
  <2> HIDE DEF y
  <2> QED BY <2>2, <2>3, InMemoryOrdered, OneChanges
<1>9. ASSUME NEW h \in Handles, NEW g \in Handles, MoveTo(h, g)
      PROVE  BufInv'
  <2> DEFINE x == buf[h]
             y == Fields(None, KPrependSize, KPrependSize, 0, x.own, None)
  <2>1. Ordered(x)
    BY <1>9, UsableInMemory, InMemoryOrdered DEF MoveTo
  <2>2. Ordered(y)
    BY DEF Ordered, IsFields, Fields
  <2>3. buf' = [buf EXCEPT ![g] = x, ![h] = y] /\ total' = total
    BY <1>9 DEF MoveTo, BufInv
  <2> HIDE DEF x, y
  <2> QED BY <2>1, <2>2, <2>3, TwoChange
<1>10. ASSUME NEW h \in Handles, NEW g \in Handles, Swap(h, g)
       PROVE  BufInv'
  <2> DEFINE x == buf[h]
             y == buf[g]
             v == Fields(y.block, y.r, y.w, y.cap, x.own, x.cell)
             w == Fields(x.block, x.r, x.w, x.cap, y.own, y.cell)
  <2>1. InMemory(x) /\ InMemory(y)
    BY <1>10, UsableInMemory DEF Swap
  <2>2. Ordered(v) /\ Ordered(w)
    BY <2>1 DEF InMemory, Ordered, IsFields, Fields
  <2>3. buf' = [buf EXCEPT ![h] = v, ![g] = w] /\ total' = total
    BY <1>10 DEF Swap
  <2> HIDE DEF v, w
  <2> QED BY <2>2, <2>3, TwoChange
<1>11. ASSUME NEW h \in Handles, NEW len \in 1..MaxLen, WriteN(h, len)
       PROVE  BufInv'
  <2> DEFINE s == [heap |-> heap, buf |-> buf[h]]
  <2>1. InMemory(s.buf) /\ len <= writableBytes(s.buf)
    BY <1>11, UsableInMemory DEF WriteN
  <2>2. Data(len) \in Seq(Nat) /\ Len(Data(len)) = len
    BY DataIsSeq DEF BufInv
  <2>3. InMemory(Written(s, Data(len)).buf)
    <3> HIDE DEF s
    <3> QED BY <2>1, <2>2, WrittenInMemory
  <2> QED BY <1>11, <2>3, InMemoryOrdered, OneChanges DEF WriteN, Fills, BufInv
<1>12. ASSUME NEW h \in Handles, NEW len \in 1..MaxLen, EnsureWriteable(h, len)
       PROVE  BufInv'
  <2>1. InMemory(ensureWriteableBytes(heap, buf[h], len).buf)
    BY <1>12, UsableInMemory, EnsureWriteableMakesRoom DEF EnsureWriteable
  <2> QED BY <1>12, <2>1, InMemoryOrdered, OneChanges DEF EnsureWriteable, MakesRoom, BufInv
<1>13. ASSUME NEW h \in Handles, NEW len \in 1..MaxLen, MakeOwn(h, len)
       PROVE  BufInv'
  <2>1. InMemory(makeOwnBuffer(heap, buf[h], len).buf)
    BY <1>13, UsableInMemory, OwnInMemory DEF MakeOwn
  <2> QED BY <1>13, <2>1, InMemoryOrdered, OneChanges DEF MakeOwn, MakesRoom, BufInv
<1>14. CASE UNCHANGED vars
  BY <1>14 DEF vars, BufInv, Ordered, IsFields
<1> QED
  BY <1>1, <1>2, <1>3, <1>4, <1>5, <1>6, <1>7, <1>8, <1>9, <1>10, <1>11, <1>12, <1>13, <1>14
  DEF Next

-----------------------------------------------------------------------------
(* The memory. *)

\* An object that is usable.
Live(x) == x.cell # None

Sharing(bf, c) == {h \in Handles : Live(bf[h]) /\ bf[h].cell = c}

Heap(m, n) == [mem |-> m, count |-> n]

\* Objects bf in memory hp: each has its own memory or shares it under one counter, which
\* counts those that do; all other memory is free.
Shaped(hp, bf) ==
  /\ hp = Heap(hp.mem, hp.count)
  /\ hp.mem = [b \in Allocations |-> hp.mem[b]]
  /\ hp.count = [c \in Allocations |-> hp.count[c]]
  /\ bf = [h \in Handles |-> bf[h]]

Held(hp, bf) ==
  \A h \in Handles : Live(bf[h]) =>
    /\ bf[h].block \in Allocations /\ bf[h].cell \in Allocations /\ bf[h].cap \in Nat \ {0}
    /\ hp.mem[bf[h].block] \in [0 .. bf[h].cap - 1 -> Int]

OneCounter(bf) ==
  \A h, g \in Handles : Live(bf[h]) /\ Live(bf[g]) =>
    (bf[h].block = bf[g].block <=> bf[h].cell = bf[g].cell)

Counted(hp, bf) == \A c \in Allocations : hp.count[c] = Cardinality(Sharing(bf, c))

NoLeak(hp, bf) ==
  \A b \in Allocations : hp.mem[b] # Free =>
    \E h \in Handles : Live(bf[h]) /\ bf[h].block = b

Owns(hp, bf) ==
  Shaped(hp, bf) /\ Held(hp, bf) /\ OneCounter(bf) /\ Counted(hp, bf) /\ NoLeak(hp, bf)

\* The objects under one counter are finitely many.
LEMMA SharingFinite ==
  \A bf, c : IsFiniteSet(Sharing(bf, c)) /\ Cardinality(Sharing(bf, c)) \in Nat
<1> SUFFICES ASSUME NEW bf, NEW c
             PROVE  IsFiniteSet(Sharing(bf, c)) /\ Cardinality(Sharing(bf, c)) \in Nat
  OBVIOUS
<1>1. Sharing(bf, c) \in SUBSET Handles /\ IsFiniteSet(Handles)
  BY BufferAssumption DEF Sharing
<1>2. IsFiniteSet(Sharing(bf, c))
  BY <1>1, FS_Subset
<1> QED
  BY <1>2, FS_CardinalityType

\* The counter of an object is at least 1, and is 1 when nobody shares its memory.
LEMMA CountIs ==
  ASSUME NEW hp, NEW bf, Owns(hp, bf), NEW h \in Handles, Live(bf[h])
  PROVE  /\ hp.count[bf[h].cell] \in Nat \ {0}
         /\ ~Shared(hp, bf[h]) <=> hp.count[bf[h].cell] = 1
         /\ ~Shared(hp, bf[h]) <=> Sharing(bf, bf[h].cell) = {h}
<1> DEFINE S == Sharing(bf, bf[h].cell)
<1>1. hp.count[bf[h].cell] = Cardinality(S) /\ h \in S
  BY DEF Owns, Held, Counted, Sharing
<1>2. IsFiniteSet(S) /\ Cardinality(S) \in Nat
  BY SharingFinite
<1> HIDE DEF S
<1>3. Cardinality(S) # 0
  BY <1>1, <1>2, FS_EmptySet
<1>4. Cardinality(S) = 1 <=> S = {h}
  BY <1>1, <1>2, FS_Singleton
<1> QED
  BY <1>1, <1>2, <1>3, <1>4 DEF Shared, S

\* An object that shares its memory with none has block and counter for itself.
LEMMA Alone ==
  ASSUME NEW hp, NEW bf, Owns(hp, bf), NEW h \in Handles, Live(bf[h]), ~Shared(hp, bf[h]),
         NEW g \in Handles, Live(bf[g]), g # h
  PROVE  bf[g].cell # bf[h].cell /\ bf[g].block # bf[h].block
<1>1. Sharing(bf, bf[h].cell) = {h}
  BY CountIs
<1>2. bf[g].cell # bf[h].cell
  BY <1>1 DEF Sharing
<1> QED
  BY <1>2 DEF Owns, OneCounter

\* There is always memory for one object more.
LEMMA FreshIsFree ==
  ASSUME NEW hp, NEW bf, Owns(hp, bf)
  PROVE  /\ FreshBlock(hp) \in Allocations /\ hp.mem[FreshBlock(hp)] = Free
         /\ FreshCell(hp) \in Allocations /\ hp.count[FreshCell(hp)] = 0
<1> DEFINE N == Cardinality(Handles)
<1>1. N \in Nat /\ IsFiniteSet(Handles)
  BY BufferAssumption, FS_CardinalityType
<1>2. IsFiniteSet(Allocations) /\ Cardinality(Allocations) = N + 1
  BY <1>1, FS_Interval DEF Allocations
<1>3. ASSUME NEW f \in [Allocations -> Handles],
             \A a, b \in Allocations : f[a] = f[b] => a = b
      PROVE  FALSE
  BY <1>1, <1>2, <1>3, FS_PigeonHole
<1>4. \E b \in Allocations : hp.mem[b] = Free
  <2>1. SUFFICES ASSUME \A b \in Allocations : hp.mem[b] # Free PROVE FALSE
    OBVIOUS
  <2> DEFINE f == [b \in Allocations |-> CHOOSE h \in Handles : Live(bf[h]) /\ bf[h].block = b]
  <2>2. \A b \in Allocations : f[b] \in Handles /\ bf[f[b]].block = b
    BY <2>1 DEF Owns, NoLeak
  <2>3. f \in [Allocations -> Handles]
    BY <2>2
  <2> HIDE DEF f
  <2> QED
    BY <1>3, <2>2, <2>3
<1>5. \E c \in Allocations : hp.count[c] = 0
  <2>1. SUFFICES ASSUME \A c \in Allocations : hp.count[c] # 0 PROVE FALSE
    OBVIOUS
  <2>2. \A c \in Allocations : Sharing(bf, c) # {}
    BY <2>1, FS_EmptySet DEF Owns, Counted
  <2> DEFINE f == [c \in Allocations |-> CHOOSE h \in Handles : bf[h].cell = c]
  <2>3. \A c \in Allocations : f[c] \in Handles /\ bf[f[c]].cell = c
    BY <2>2 DEF Sharing
  <2>4. f \in [Allocations -> Handles]
    BY <2>3
  <2> HIDE DEF f
  <2> QED
    BY <1>3, <2>3, <2>4
<1> QED
  BY <1>4, <1>5 DEF FreshBlock, FreshCell

\* Those that share memory agree about its size.
LEMMA SameCapacity ==
  ASSUME NEW hp, NEW bf, Owns(hp, bf), NEW h \in Handles, Live(bf[h]),
         NEW g \in Handles, Live(bf[g]), bf[g].block = bf[h].block
  PROVE  bf[g].cap = bf[h].cap
<1>1. \A i, j \in Nat : 0 .. i - 1 = 0 .. j - 1 => i = j
  <2> SUFFICES ASSUME NEW i \in Nat, NEW j \in Nat, 0 .. i - 1 = 0 .. j - 1 PROVE i = j
    OBVIOUS
  <2>1. i < j => i \in 0 .. j - 1 /\ i \notin 0 .. i - 1
    OBVIOUS
  <2>2. j < i => j \in 0 .. i - 1 /\ j \notin 0 .. j - 1
    OBVIOUS
  <2> QED
    BY <2>1, <2>2
<1>2. hp.mem[bf[h].block] \in [0 .. bf[g].cap - 1 -> Int] /\ bf[g].cap \in Nat \ {0}
  BY DEF Owns, Held
<1>3. hp.mem[bf[h].block] \in [0 .. bf[h].cap - 1 -> Int] /\ bf[h].cap \in Nat \ {0}
  BY DEF Owns, Held
<1>4. 0 .. bf[g].cap - 1 = 0 .. bf[h].cap - 1
  BY <1>2, <1>3
<1> QED
  BY <1>1, <1>2, <1>3, <1>4

\* An object writes into its memory, or moves its indexes.
LEMMA RewriteOwns ==
  ASSUME NEW hp, NEW bf, Owns(hp, bf), NEW h \in Handles, Live(bf[h]),
         NEW y, Live(y), y.block = bf[h].block, y.cell = bf[h].cell, y.cap = bf[h].cap,
         NEW v \in [0 .. y.cap - 1 -> Int]
  PROVE  Owns(Heap([hp.mem EXCEPT ![y.block] = v], hp.count), [bf EXCEPT ![h] = y])
<1> DEFINE m == [hp.mem EXCEPT ![y.block] = v]
           bf1 == [bf EXCEPT ![h] = y]
<1>1. /\ bf1[h] = y /\ \A g \in Handles : g # h => bf1[g] = bf[g]
      /\ bf1 = [g \in Handles |-> bf1[g]]
  BY DEF Owns, Shaped
<1>2. /\ y.block \in Allocations /\ m[y.block] = v
      /\ \A b \in Allocations : b # y.block => m[b] = hp.mem[b]
      /\ m = [b \in Allocations |-> m[b]]
  BY DEF Owns, Shaped, Held
<1>3. \A g \in Handles : /\ Live(bf1[g]) <=> Live(bf[g])
                         /\ Live(bf[g]) => /\ bf1[g].block = bf[g].block
                                           /\ bf1[g].cell = bf[g].cell /\ bf1[g].cap = bf[g].cap
  BY <1>1
<1>4. \A c : Sharing(bf1, c) = Sharing(bf, c)
  BY <1>3 DEF Sharing
<1> HIDE DEF m, bf1
<1>5. \A g \in Handles : Live(bf[g]) /\ bf[g].block = y.block => bf[g].cap = y.cap
  BY SameCapacity
<1>6. Shaped(Heap(m, hp.count), bf1)
  BY <1>1, <1>2 DEF Owns, Shaped, Heap
<1>7. Held(Heap(m, hp.count), bf1)
  <2> SUFFICES ASSUME NEW g \in Handles, Live(bf1[g])
               PROVE  /\ bf1[g].block \in Allocations /\ bf1[g].cell \in Allocations
                      /\ bf1[g].cap \in Nat \ {0} /\ m[bf1[g].block] \in [0 .. bf1[g].cap - 1 -> Int]
    BY DEF Held, Heap
  <2>1. /\ bf[g].block \in Allocations /\ bf[g].cell \in Allocations /\ bf[g].cap \in Nat \ {0}
        /\ hp.mem[bf[g].block] \in [0 .. bf[g].cap - 1 -> Int]
    BY <1>3 DEF Owns, Held
  <2>2. CASE bf[g].block = y.block
    BY <1>2, <1>3, <1>5, <2>1, <2>2
  <2>3. CASE bf[g].block # y.block
    BY <1>2, <1>3, <2>1, <2>3
  <2> QED
    BY <2>2, <2>3
<1>8. OneCounter(bf1)
  <2>1. OneCounter(bf)
    BY DEF Owns
  <2> QED
    BY <1>3, <2>1 DEF OneCounter
<1>9. Counted(Heap(m, hp.count), bf1)
  BY <1>4 DEF Owns, Counted, Heap
<1>10. NoLeak(Heap(m, hp.count), bf1)
  <2> SUFFICES ASSUME NEW b \in Allocations, m[b] # Free
               PROVE  \E g \in Handles : Live(bf1[g]) /\ bf1[g].block = b
    BY DEF NoLeak, Heap
  <2>1. \E g \in Handles : Live(bf[g]) /\ bf[g].block = b
    BY <1>2 DEF Owns, NoLeak
  <2> QED
    BY <1>3, <2>1
<1>11. Owns(Heap(m, hp.count), bf1)
  BY <1>6, <1>7, <1>8, <1>9, <1>10 DEF Owns
<1> QED
  BY <1>11 DEF m, bf1

\* An object gives up its memory, which goes with the last that shows it.
LEMMA ReleasedOwns ==
  ASSUME NEW hp, NEW bf, Owns(hp, bf), NEW h \in Handles, Live(bf[h]), NEW z, ~Live(z)
  PROVE  Owns(Released(hp, bf[h]), [bf EXCEPT ![h] = z])
<1> DEFINE x == bf[h]
           last == hp.count[x.cell] = 1
           m == IF last THEN [hp.mem EXCEPT ![x.block] = Free] ELSE hp.mem
           n == [hp.count EXCEPT ![x.cell] = @ - 1]
           bf1 == [bf EXCEPT ![h] = z]
<1>1. /\ bf1[h] = z /\ \A g \in Handles : g # h => bf1[g] = bf[g]
      /\ bf1 = [g \in Handles |-> bf1[g]]
  BY DEF Owns, Shaped
<1>2. x.block \in Allocations /\ x.cell \in Allocations /\ hp.count[x.cell] \in Nat \ {0}
  BY CountIs DEF Owns, Held
<1>3. /\ last => m[x.block] = Free
      /\ \A b \in Allocations : ~(last /\ b = x.block) => m[b] = hp.mem[b]
      /\ m = [b \in Allocations |-> m[b]]
  BY <1>2 DEF Owns, Shaped
<1>4. /\ n[x.cell] = hp.count[x.cell] - 1
      /\ \A c \in Allocations : c # x.cell => n[c] = hp.count[c]
      /\ n = [c \in Allocations |-> n[c]]
  BY <1>2 DEF Owns, Shaped
<1>5. Released(hp, x) = Heap(m, n)
  <2>1. hp = Heap(hp.mem, hp.count) /\ x.cell # None
    BY DEF Owns, Shaped, Live
  <2>2. CASE last
    <3>1. Released(hp, x) = Heap([hp.mem EXCEPT ![x.block] = Free], [hp.count EXCEPT ![x.cell] = 0])
      BY <2>1, <2>2 DEF Released, Heap
    <3> QED
      BY <2>2, <3>1
  <2>3. CASE ~last
    BY <2>1, <2>3 DEF Released, Heap
  <2> QED
    BY <2>2, <2>3
<1>6. last => Sharing(bf, x.cell) = {h}
  BY CountIs
<1>7. \A c : Sharing(bf1, c) = IF c = x.cell THEN Sharing(bf, c) \ {h} ELSE Sharing(bf, c)
  BY <1>1 DEF Sharing
<1>8. h \in Sharing(bf, x.cell)
  BY DEF Sharing
<1>9. \A g \in Handles : Live(bf1[g]) => /\ g # h /\ bf1[g] = bf[g] /\ Live(bf[g])
                                         /\ last => bf[g].block # x.block
  <2> SUFFICES ASSUME NEW g \in Handles, Live(bf1[g])
               PROVE  /\ g # h /\ bf1[g] = bf[g] /\ Live(bf[g])
                      /\ last => bf[g].block # x.block
    OBVIOUS
  <2>1. g # h /\ bf1[g] = bf[g] /\ Live(bf[g])
    BY <1>1
  <2>2. last => bf[g].cell # x.cell
    BY <1>6, <2>1 DEF Sharing
  <2>3. bf[g].block = x.block <=> bf[g].cell = x.cell
    BY <2>1 DEF Owns, OneCounter
  <2> QED
    BY <2>1, <2>2, <2>3
<1> HIDE DEF m, n, bf1
<1>10. Shaped(Heap(m, n), bf1)
  BY <1>1, <1>3, <1>4 DEF Shaped, Heap
<1>11. Held(Heap(m, n), bf1)
  <2> SUFFICES ASSUME NEW g \in Handles, Live(bf1[g])
               PROVE  /\ bf1[g].block \in Allocations /\ bf1[g].cell \in Allocations
                      /\ bf1[g].cap \in Nat \ {0} /\ m[bf1[g].block] \in [0 .. bf1[g].cap - 1 -> Int]
    BY DEF Held, Heap
  <2> QED
    BY <1>3, <1>9 DEF Owns, Held
<1>12. OneCounter(bf1)
  BY <1>9 DEF Owns, OneCounter
<1>13. Counted(Heap(m, n), bf1)
  <2> SUFFICES ASSUME NEW c \in Allocations PROVE n[c] = Cardinality(Sharing(bf1, c))
    BY DEF Counted, Heap
  <2>1. hp.count[c] = Cardinality(Sharing(bf, c)) /\ IsFiniteSet(Sharing(bf, c))
    BY SharingFinite DEF Owns, Counted
  <2>2. CASE c = x.cell
    <3>1. Cardinality(Sharing(bf, c) \ {h}) = Cardinality(Sharing(bf, c)) - 1
      BY <1>8, <2>1, <2>2, FS_RemoveElement
    <3> QED
      BY <1>4, <1>7, <2>1, <2>2, <3>1
  <2>3. CASE c # x.cell
    BY <1>4, <1>7, <2>1, <2>3
  <2> QED
    BY <2>2, <2>3
<1>14. NoLeak(Heap(m, n), bf1)
  <2> SUFFICES ASSUME NEW b \in Allocations, m[b] # Free
               PROVE  \E g \in Handles : Live(bf1[g]) /\ bf1[g].block = b
    BY DEF NoLeak, Heap
  <2>1. ~(last /\ b = x.block) /\ hp.mem[b] # Free
    BY <1>3
  <2>2. PICK g \in Handles : Live(bf[g]) /\ bf[g].block = b
    BY <2>1 DEF Owns, NoLeak
  <2>3. CASE g # h
    BY <1>1, <2>2, <2>3
  <2>4. CASE g = h
    <3>1. Sharing(bf, x.cell) # {h}
      BY <2>1, <2>2, <2>4, CountIs
    <3>2. PICK i \in Sharing(bf, x.cell) : i # h
      BY <1>8, <3>1
    <3>3. i \in Handles /\ Live(bf[i]) /\ bf[i].cell = x.cell
      BY <3>2 DEF Sharing
    <3>4. bf[i].block = b
      BY <2>2, <2>4, <3>3 DEF Owns, OneCounter
    <3> QED
      BY <1>1, <3>2, <3>3, <3>4
  <2> QED
    BY <2>3, <2>4
<1>15. Owns(Heap(m, n), bf1)
  BY <1>10, <1>11, <1>12, <1>13, <1>14 DEF Owns
<1> QED
  BY <1>5, <1>15 DEF bf1

\* An object without memory gets some that was free.
LEMMA AllocatedOwns ==
  ASSUME NEW hp, NEW bf, Owns(hp, bf), NEW h \in Handles, ~Live(bf[h]),
         NEW y, Live(y), y.cap \in Nat \ {0},
         y.block \in Allocations, hp.mem[y.block] = Free,
         y.cell \in Allocations, hp.count[y.cell] = 0,
         NEW v \in [0 .. y.cap - 1 -> Int]
  PROVE  Owns(Heap([hp.mem EXCEPT ![y.block] = v], [hp.count EXCEPT ![y.cell] = 1]),
              [bf EXCEPT ![h] = y])
<1> DEFINE m == [hp.mem EXCEPT ![y.block] = v]
           n == [hp.count EXCEPT ![y.cell] = 1]
           bf1 == [bf EXCEPT ![h] = y]
<1>1. /\ bf1[h] = y /\ \A g \in Handles : g # h => bf1[g] = bf[g]
      /\ bf1 = [g \in Handles |-> bf1[g]]
  BY DEF Owns, Shaped
<1>2. /\ m[y.block] = v /\ \A b \in Allocations : b # y.block => m[b] = hp.mem[b]
      /\ m = [b \in Allocations |-> m[b]]
      /\ n[y.cell] = 1 /\ \A c \in Allocations : c # y.cell => n[c] = hp.count[c]
      /\ n = [c \in Allocations |-> n[c]]
  BY DEF Owns, Shaped
<1>3. Sharing(bf, y.cell) = {}
  BY SharingFinite, FS_EmptySet DEF Owns, Counted
<1>4. \A g \in Handles : Live(bf[g]) => bf[g].cell # y.cell /\ bf[g].block # y.block
  <2> SUFFICES ASSUME NEW g \in Handles, Live(bf[g])
               PROVE  bf[g].cell # y.cell /\ bf[g].block # y.block
    OBVIOUS
  <2>1. bf[g].cell # y.cell
    BY <1>3 DEF Sharing
  <2>2. hp.mem[bf[g].block] # Free
    <3>1. hp.mem[bf[g].block] \in [0 .. bf[g].cap - 1 -> Int] /\ bf[g].cap \in Nat \ {0}
      BY DEF Owns, Held
    <3>2. 0 \in DOMAIN hp.mem[bf[g].block]
      BY <3>1
    <3> QED
      BY <3>2 DEF Free
  <2> QED
    BY <2>1, <2>2
<1>5. \A c : Sharing(bf1, c) = IF c = y.cell THEN {h} ELSE Sharing(bf, c)
  BY <1>1, <1>3 DEF Sharing
<1> HIDE DEF m, n, bf1
<1>6. Shaped(Heap(m, n), bf1)
  BY <1>1, <1>2 DEF Shaped, Heap
<1>7. Held(Heap(m, n), bf1)
  <2> SUFFICES ASSUME NEW g \in Handles, Live(bf1[g])
               PROVE  /\ bf1[g].block \in Allocations /\ bf1[g].cell \in Allocations
                      /\ bf1[g].cap \in Nat \ {0} /\ m[bf1[g].block] \in [0 .. bf1[g].cap - 1 -> Int]
    BY DEF Held, Heap
  <2>1. CASE g = h
    BY <1>1, <1>2, <2>1
  <2>2. CASE g # h
    BY <1>1, <1>2, <1>4, <2>2 DEF Owns, Held
  <2> QED
    BY <2>1, <2>2
<1>8. OneCounter(bf1)
  BY <1>1, <1>4 DEF Owns, OneCounter
<1>9. Counted(Heap(m, n), bf1)
  <2> SUFFICES ASSUME NEW c \in Allocations PROVE n[c] = Cardinality(Sharing(bf1, c))
    BY DEF Counted, Heap
  <2>1. Cardinality({h}) = 1 /\ hp.count[c] = Cardinality(Sharing(bf, c))
    BY FS_Singleton DEF Owns, Counted
  <2> QED
    BY <1>2, <1>5, <2>1
<1>10. NoLeak(Heap(m, n), bf1)
  <2> SUFFICES ASSUME NEW b \in Allocations, m[b] # Free
               PROVE  \E g \in Handles : Live(bf1[g]) /\ bf1[g].block = b
    BY DEF NoLeak, Heap
  <2>1. CASE b = y.block
    BY <1>1, <2>1
  <2>2. CASE b # y.block
    <3>1. PICK g \in Handles : Live(bf[g]) /\ bf[g].block = b
      BY <1>2, <2>2 DEF Owns, NoLeak
    <3> QED
      BY <1>1, <3>1
  <2> QED
    BY <2>1, <2>2
<1>11. Owns(Heap(m, n), bf1)
  BY <1>6, <1>7, <1>8, <1>9, <1>10 DEF Owns
<1> QED
  BY <1>11 DEF m, n, bf1

\* A slice or a copy shares the memory of an object.
LEMMA ReferencedOwns ==
  ASSUME NEW hp, NEW bf, Owns(hp, bf), NEW h \in Handles, Live(bf[h]),
         NEW g \in Handles, ~Live(bf[g]),
         NEW y, Live(y), y.block = bf[h].block, y.cell = bf[h].cell, y.cap = bf[h].cap
  PROVE  Owns(Referenced(hp, bf[h]), [bf EXCEPT ![g] = y])
<1> DEFINE n == [hp.count EXCEPT ![y.cell] = @ + 1]
           bf1 == [bf EXCEPT ![g] = y]
<1>1. /\ bf1[g] = y /\ \A i \in Handles : i # g => bf1[i] = bf[i]
      /\ bf1 = [i \in Handles |-> bf1[i]] /\ h # g /\ bf1[h] = bf[h]
  BY DEF Owns, Shaped
<1>2. /\ y.block \in Allocations /\ y.cell \in Allocations
      /\ n[y.cell] = hp.count[y.cell] + 1 /\ \A c \in Allocations : c # y.cell => n[c] = hp.count[c]
      /\ n = [c \in Allocations |-> n[c]]
  BY DEF Owns, Shaped, Held
<1>3. Referenced(hp, bf[h]) = Heap(hp.mem, n)
  <2>1. hp = Heap(hp.mem, hp.count)
    BY DEF Owns, Shaped
  <2> QED
    BY <2>1 DEF Referenced, Heap
<1>4. \A c : Sharing(bf1, c) = IF c = y.cell THEN Sharing(bf, c) \cup {g} ELSE Sharing(bf, c)
  BY <1>1 DEF Sharing
<1>5. g \notin Sharing(bf, y.cell)
  BY DEF Sharing
<1> HIDE DEF n, bf1
<1>6. Shaped(Heap(hp.mem, n), bf1)
  BY <1>1, <1>2 DEF Owns, Shaped, Heap
<1>7. Held(Heap(hp.mem, n), bf1)
  <2> SUFFICES ASSUME NEW i \in Handles, Live(bf1[i])
               PROVE  /\ bf1[i].block \in Allocations /\ bf1[i].cell \in Allocations
                      /\ bf1[i].cap \in Nat \ {0} /\ hp.mem[bf1[i].block] \in [0 .. bf1[i].cap - 1 -> Int]
    BY DEF Held, Heap
  <2> QED
    BY <1>1 DEF Owns, Held
<1>8. OneCounter(bf1)
  BY <1>1 DEF Owns, OneCounter
<1>9. Counted(Heap(hp.mem, n), bf1)
  <2> SUFFICES ASSUME NEW c \in Allocations PROVE n[c] = Cardinality(Sharing(bf1, c))
    BY DEF Counted, Heap
  <2>1. hp.count[c] = Cardinality(Sharing(bf, c)) /\ IsFiniteSet(Sharing(bf, c))
    BY SharingFinite DEF Owns, Counted
  <2>2. g \notin Sharing(bf, c) => Cardinality(Sharing(bf, c) \cup {g}) = Cardinality(Sharing(bf, c)) + 1
    BY <2>1, FS_AddElement
  <2> QED
    BY <1>2, <1>4, <1>5, <2>1, <2>2
<1>10. NoLeak(Heap(hp.mem, n), bf1)
  <2> SUFFICES ASSUME NEW b \in Allocations, hp.mem[b] # Free
               PROVE  \E i \in Handles : Live(bf1[i]) /\ bf1[i].block = b
    BY DEF NoLeak, Heap
  <2>1. PICK i \in Handles : Live(bf[i]) /\ bf[i].block = b
    BY DEF Owns, NoLeak
  <2> QED
    BY <1>1, <2>1
<1>11. Owns(Heap(hp.mem, n), bf1)
  BY <1>6, <1>7, <1>8, <1>9, <1>10 DEF Owns
<1> QED
  BY <1>3, <1>11 DEF bf1

\* A move: one object takes the place of another.
LEMMA MovedOwns ==
  ASSUME NEW hp, NEW bf, Owns(hp, bf), NEW h \in Handles, Live(bf[h]),
         NEW g \in Handles, ~Live(bf[g]), NEW z, ~Live(z)
  PROVE  Owns(hp, [bf EXCEPT ![g] = bf[h], ![h] = z])
<1> DEFINE bf1 == [bf EXCEPT ![g] = bf[h], ![h] = z]
           x == bf[h]
<1>1. /\ bf1[g] = x /\ bf1[h] = z /\ g # h
      /\ \A i \in Handles : i # g /\ i # h => bf1[i] = bf[i]
      /\ bf1 = [i \in Handles |-> bf1[i]]
  BY DEF Owns, Shaped
<1>2. \A c : Sharing(bf1, c) = IF c = x.cell THEN (Sharing(bf, c) \ {h}) \cup {g} ELSE Sharing(bf, c)
  BY <1>1 DEF Sharing
<1>3. h \in Sharing(bf, x.cell) /\ g \notin Sharing(bf, x.cell)
  BY DEF Sharing
<1> HIDE DEF bf1
<1>4. Shaped(hp, bf1)
  BY <1>1 DEF Owns, Shaped
<1>5. Held(hp, bf1)
  <2> SUFFICES ASSUME NEW i \in Handles, Live(bf1[i])
               PROVE  /\ bf1[i].block \in Allocations /\ bf1[i].cell \in Allocations
                      /\ bf1[i].cap \in Nat \ {0} /\ hp.mem[bf1[i].block] \in [0 .. bf1[i].cap - 1 -> Int]
    BY DEF Held
  <2> QED
    BY <1>1 DEF Owns, Held
<1>6. OneCounter(bf1)
  BY <1>1 DEF Owns, OneCounter
<1>7. Counted(hp, bf1)
  <2> SUFFICES ASSUME NEW c \in Allocations PROVE hp.count[c] = Cardinality(Sharing(bf1, c))
    BY DEF Counted
  <2>1. hp.count[c] = Cardinality(Sharing(bf, c)) /\ IsFiniteSet(Sharing(bf, c))
        /\ Cardinality(Sharing(bf, c)) \in Nat
    BY SharingFinite DEF Owns, Counted
  <2>2. CASE c = x.cell
    <3>1. IsFiniteSet(Sharing(bf, c) \ {h})
          /\ Cardinality(Sharing(bf, c) \ {h}) = Cardinality(Sharing(bf, c)) - 1
      BY <1>3, <2>1, <2>2, FS_RemoveElement
    <3>2. Cardinality((Sharing(bf, c) \ {h}) \cup {g}) = Cardinality(Sharing(bf, c))
      <4> DEFINE T == Sharing(bf, c) \ {h}
      <4>1. IsFiniteSet(T) /\ Cardinality(T) = Cardinality(Sharing(bf, c)) - 1 /\ g \notin T
        BY <1>3, <2>2, <3>1
      <4> HIDE DEF T
      <4>2. Cardinality(T \cup {g}) = Cardinality(T) + 1
        BY <4>1, FS_AddElement
      <4> QED
        BY <2>1, <4>1, <4>2 DEF T
    <3> QED
      BY <1>2, <2>1, <2>2, <3>2
  <2>3. CASE c # x.cell
    BY <1>2, <2>1, <2>3
  <2> QED
    BY <2>2, <2>3
<1>8. NoLeak(hp, bf1)
  <2> SUFFICES ASSUME NEW b \in Allocations, hp.mem[b] # Free
               PROVE  \E i \in Handles : Live(bf1[i]) /\ bf1[i].block = b
    BY DEF NoLeak
  <2>1. PICK i \in Handles : Live(bf[i]) /\ bf[i].block = b
    BY DEF Owns, NoLeak
  <2>2. CASE i = h
    BY <1>1, <2>1, <2>2
  <2>3. CASE i # h
    BY <1>1, <2>1, <2>3
  <2> QED
    BY <2>2, <2>3
<1>9. Owns(hp, bf1)
  BY <1>4, <1>5, <1>6, <1>7, <1>8 DEF Owns
<1> QED
  BY <1>9 DEF bf1

\* makeSpace replaces memory that nobody shares.
LEMMA ReplacedOwns ==
  ASSUME NEW hp, NEW bf, Owns(hp, bf), NEW h \in Handles, Live(bf[h]), ~Shared(hp, bf[h]),
         NEW y, Live(y), y.cell = bf[h].cell, y.cap \in Nat \ {0},
         y.block \in Allocations, hp.mem[y.block] = Free,
         NEW v \in [0 .. y.cap - 1 -> Int]
  PROVE  Owns(Heap([[hp.mem EXCEPT ![y.block] = v] EXCEPT ![bf[h].block] = Free], hp.count),
              [bf EXCEPT ![h] = y])
<1> DEFINE x == bf[h]
           m == [[hp.mem EXCEPT ![y.block] = v] EXCEPT ![x.block] = Free]
           bf1 == [bf EXCEPT ![h] = y]
<1>1. /\ bf1[h] = y /\ \A g \in Handles : g # h => bf1[g] = bf[g]
      /\ bf1 = [g \in Handles |-> bf1[g]]
  BY DEF Owns, Shaped
<1>2. \A g \in Handles : Live(bf[g]) => bf[g].block # y.block
  <2> SUFFICES ASSUME NEW g \in Handles, Live(bf[g]) PROVE bf[g].block # y.block
    OBVIOUS
  <2>1. hp.mem[bf[g].block] \in [0 .. bf[g].cap - 1 -> Int] /\ bf[g].cap \in Nat \ {0}
    BY DEF Owns, Held
  <2>2. 0 \in DOMAIN hp.mem[bf[g].block]
    BY <2>1
  <2> QED
    BY <2>2 DEF Free
<1>3. /\ x.block \in Allocations /\ x.block # y.block
      /\ m[y.block] = v /\ m[x.block] = Free
      /\ \A b \in Allocations : b # y.block /\ b # x.block => m[b] = hp.mem[b]
      /\ m = [b \in Allocations |-> m[b]]
  BY <1>2 DEF Owns, Shaped, Held
<1>4. \A c : Sharing(bf1, c) = Sharing(bf, c)
  BY <1>1 DEF Sharing
<1>5. \A g \in Handles : Live(bf[g]) /\ g # h => bf[g].cell # x.cell /\ bf[g].block # x.block
  BY Alone
<1> HIDE DEF m, bf1
<1>6. Shaped(Heap(m, hp.count), bf1)
  BY <1>1, <1>3 DEF Owns, Shaped, Heap
<1>7. Held(Heap(m, hp.count), bf1)
  <2> SUFFICES ASSUME NEW g \in Handles, Live(bf1[g])
               PROVE  /\ bf1[g].block \in Allocations /\ bf1[g].cell \in Allocations
                      /\ bf1[g].cap \in Nat \ {0} /\ m[bf1[g].block] \in [0 .. bf1[g].cap - 1 -> Int]
    BY DEF Held, Heap
  <2>1. CASE g = h
    BY <1>1, <1>3, <2>1 DEF Owns, Held
  <2>2. CASE g # h
    BY <1>1, <1>2, <1>3, <1>5, <2>2 DEF Owns, Held
  <2> QED
    BY <2>1, <2>2
<1>8. OneCounter(bf1)
  <2> SUFFICES ASSUME NEW i \in Handles, NEW j \in Handles, Live(bf1[i]), Live(bf1[j])
               PROVE  bf1[i].block = bf1[j].block <=> bf1[i].cell = bf1[j].cell
    BY DEF OneCounter
  <2>1. CASE i = h /\ j = h
    BY <2>1
  <2>2. CASE i = h /\ j # h
    BY <1>1, <1>2, <1>5, <2>2
  <2>3. CASE i # h /\ j = h
    BY <1>1, <1>2, <1>5, <2>3
  <2>4. CASE i # h /\ j # h
    BY <1>1, <2>4 DEF Owns, OneCounter
  <2> QED
    BY <2>1, <2>2, <2>3, <2>4
<1>9. Counted(Heap(m, hp.count), bf1)
  BY <1>4 DEF Owns, Counted, Heap
<1>10. NoLeak(Heap(m, hp.count), bf1)
  <2> SUFFICES ASSUME NEW b \in Allocations, m[b] # Free
               PROVE  \E g \in Handles : Live(bf1[g]) /\ bf1[g].block = b
    BY DEF NoLeak, Heap
  <2>1. CASE b = y.block
    BY <1>1, <2>1
  <2>2. CASE b # y.block
    <3>1. PICK g \in Handles : Live(bf[g]) /\ bf[g].block = b
      BY <1>3, <2>2 DEF Owns, NoLeak
    <3>2. g # h
      BY <1>3, <3>1
    <3> QED
      BY <1>1, <3>1, <3>2
  <2> QED
    BY <2>1, <2>2
<1>11. Owns(Heap(m, hp.count), bf1)
  BY <1>6, <1>7, <1>8, <1>9, <1>10 DEF Owns
<1> QED
  BY <1>11 DEF m, bf1

\* swap of two objects whose memory nobody shares.
LEMMA SwappedOwns ==
  ASSUME NEW hp, NEW bf, Owns(hp, bf), NEW h \in Handles, NEW g \in Handles, h # g,
         Live(bf[h]), Live(bf[g]), ~Shared(hp, bf[h]), ~Shared(hp, bf[g]),
         NEW u, u.cell = bf[h].cell, u.block = bf[g].block, u.cap = bf[g].cap,
         NEW v, v.cell = bf[g].cell, v.block = bf[h].block, v.cap = bf[h].cap
  PROVE  Owns(hp, [bf EXCEPT ![h] = u, ![g] = v])
<1> DEFINE bf1 == [bf EXCEPT ![h] = u, ![g] = v]
<1>1. /\ bf1[h] = u /\ bf1[g] = v
      /\ \A i \in Handles : i # g /\ i # h => bf1[i] = bf[i]
      /\ bf1 = [i \in Handles |-> bf1[i]]
  BY DEF Owns, Shaped
<1>2. \A c : Sharing(bf1, c) = Sharing(bf, c)
  BY <1>1 DEF Sharing, Live
<1>3. /\ \A i \in Handles : Live(bf[i]) /\ i # h => bf[i].cell # bf[h].cell /\ bf[i].block # bf[h].block
      /\ \A i \in Handles : Live(bf[i]) /\ i # g => bf[i].cell # bf[g].cell /\ bf[i].block # bf[g].block
  BY Alone
<1> HIDE DEF bf1
<1>4. Shaped(hp, bf1)
  BY <1>1 DEF Owns, Shaped
<1>5. Held(hp, bf1)
  <2> SUFFICES ASSUME NEW i \in Handles, Live(bf1[i])
               PROVE  /\ bf1[i].block \in Allocations /\ bf1[i].cell \in Allocations
                      /\ bf1[i].cap \in Nat \ {0} /\ hp.mem[bf1[i].block] \in [0 .. bf1[i].cap - 1 -> Int]
    BY DEF Held
  <2>1. CASE i = h
    BY <1>1, <2>1 DEF Owns, Held
  <2>2. CASE i = g
    BY <1>1, <2>2 DEF Owns, Held
  <2>3. CASE i # h /\ i # g
    BY <1>1, <2>3 DEF Owns, Held
  <2> QED
    BY <2>1, <2>2, <2>3
<1>6. OneCounter(bf1)
  <2> SUFFICES ASSUME NEW i \in Handles, NEW j \in Handles, Live(bf1[i]), Live(bf1[j]), i # j
               PROVE  \/ bf1[i].block # bf1[j].block /\ bf1[i].cell # bf1[j].cell
                      \/ (bf1[i].block = bf1[j].block <=> bf1[i].cell = bf1[j].cell)
    BY DEF OneCounter
  <2>1. CASE i \in {g, h} \/ j \in {g, h}
    BY <1>1, <1>3, <2>1
  <2>2. CASE i \notin {g, h} /\ j \notin {g, h}
    BY <1>1, <2>2 DEF Owns, OneCounter
  <2> QED
    BY <2>1, <2>2
<1>7. Counted(hp, bf1)
  BY <1>2 DEF Owns, Counted
<1>8. NoLeak(hp, bf1)
  <2> SUFFICES ASSUME NEW b \in Allocations, hp.mem[b] # Free
               PROVE  \E i \in Handles : Live(bf1[i]) /\ bf1[i].block = b
    BY DEF NoLeak
  <2>1. PICK i \in Handles : Live(bf[i]) /\ bf[i].block = b
    BY DEF Owns, NoLeak
  <2>2. CASE i = h
    BY <1>1, <2>1, <2>2 DEF Live
  <2>3. CASE i = g
    BY <1>1, <2>1, <2>3 DEF Live
  <2>4. CASE i # g /\ i # h
    BY <1>1, <2>1, <2>4
  <2> QED
    BY <2>2, <2>3, <2>4
<1>9. Owns(hp, bf1)
  BY <1>4, <1>5, <1>6, <1>7, <1>8 DEF Owns
<1> QED
  BY <1>9 DEF bf1

-----------------------------------------------------------------------------
(* What the ways to make room and to write do to the bytes.                *)

\* memcpy to a block: the bytes copied are there, the others stay.
LEMMA CopiedIs ==
  ASSUME NEW cap \in Nat, NEW block \in [0 .. cap - 1 -> Int], NEW at \in Nat, NEW data \in Seq(Int)
  PROVE  /\ Copied(block, at, data) \in [0 .. cap - 1 -> Int]
         /\ \A i \in 0 .. cap - 1 :
              Copied(block, at, data)[i] =
                IF i \in at .. at + Len(data) - 1 THEN data[i - at + 1] ELSE block[i]
<1>1. \A i \in at .. at + Len(data) - 1 : data[i - at + 1] \in Int
  <2> SUFFICES ASSUME NEW i \in at .. at + Len(data) - 1 PROVE data[i - at + 1] \in Int
    OBVIOUS
  <2>1. Len(data) \in Nat /\ i - at + 1 \in 1 .. Len(data)
    BY LenProperties
  <2> QED
    BY <2>1, ElementOfSeq
<1>2. Len(data) \in Nat
  BY LenProperties
<1> QED
  BY <1>1, <1>2 DEF Copied

\* A new block, with the bytes behind those kept for prepending.
LEMMA AllocatedIs ==
  ASSUME NEW cap \in Nat, NEW data \in Seq(Int)
  PROVE  /\ Allocated(cap, data) \in [0 .. cap - 1 -> Int]
         /\ KPrependSize + Len(data) <= cap =>
              \A i \in 1 .. Len(data) : Allocated(cap, data)[KPrependSize + i - 1] = data[i]
<1> DEFINE f == [i \in 0 .. cap - 1 |-> Junk]
<1>1. f \in [0 .. cap - 1 -> Int] /\ KPrependSize \in Nat
  BY BufferAssumption DEF Junk
<1>2. Allocated(cap, data) = Copied(f, KPrependSize, data)
  BY DEF Allocated
<1> HIDE DEF f
<1>3. /\ Copied(f, KPrependSize, data) \in [0 .. cap - 1 -> Int]
      /\ \A i \in 0 .. cap - 1 :
           Copied(f, KPrependSize, data)[i] =
             IF i \in KPrependSize .. KPrependSize + Len(data) - 1
               THEN data[i - KPrependSize + 1] ELSE f[i]
  BY <1>1, CopiedIs
<1>4. ASSUME KPrependSize + Len(data) <= cap, NEW i \in 1 .. Len(data)
      PROVE  Copied(f, KPrependSize, data)[KPrependSize + i - 1] = data[i]
  <2>1. Len(data) \in Nat
    BY LenProperties
  <2> DEFINE j == KPrependSize + i - 1
  <2>2. j \in 0 .. cap - 1 /\ j \in KPrependSize .. KPrependSize + Len(data) - 1
        /\ j - KPrependSize + 1 = i
    BY <1>1, <1>4, <2>1
  <2> HIDE DEF j
  <2>3. Copied(f, KPrependSize, data)[j] = data[i]
    BY <1>3, <2>2
  <2> QED
    BY <2>3 DEF j
<1> QED
  BY <1>2, <1>3, <1>4

\* The bytes an object shows.
LEMMA BytesAre ==
  ASSUME NEW hp, NEW x, InMemory(x), hp.mem[x.block] \in [0 .. x.cap - 1 -> Int]
  PROVE  /\ Bytes(hp, x) \in Seq(Int) /\ Len(Bytes(hp, x)) = readableBytes(x)
         /\ \A i \in 1 .. readableBytes(x) : Bytes(hp, x)[i] = hp.mem[x.block][x.r + i - 1]
<1>1. readableBytes(x) \in Nat
  BY DEF InMemory, readableBytes
<1>2. \A i \in 1 .. readableBytes(x) : hp.mem[x.block][x.r + i - 1] \in Int
  <2> SUFFICES ASSUME NEW i \in 1 .. readableBytes(x) PROVE hp.mem[x.block][x.r + i - 1] \in Int
    OBVIOUS
  <2>1. x.r + i - 1 \in 0 .. x.cap - 1
    BY BufferAssumption DEF InMemory, readableBytes
  <2> QED
    BY <2>1
<1>3. Bytes(hp, x) \in [1 .. readableBytes(x) -> Int]
  BY <1>2 DEF Bytes
<1>4. Bytes(hp, x) \in Seq(Int) /\ Len(Bytes(hp, x)) = readableBytes(x)
  BY <1>1, <1>3
<1> QED
  BY <1>4 DEF Bytes

\* Two objects whose blocks agree where they point show the same bytes.
LEMMA SameBytes ==
  ASSUME NEW hp, NEW x, NEW hp1, NEW y, readableBytes(y) = readableBytes(x),
         \A i \in 1 .. readableBytes(x) : hp1.mem[y.block][y.r + i - 1] = hp.mem[x.block][x.r + i - 1]
  PROVE  Bytes(hp1, y) = Bytes(hp, x)
  BY DEF Bytes

\* The step from hp to hp1 changes no byte that an object other than h shows.
OthersKeep(hp, hp1, bf, h) ==
  \A g \in Handles : g # h /\ Live(bf[g]) => Bytes(hp1, bf[g]) = Bytes(hp, bf[g])

\* Two objects that share no block are of no concern to each other.
LEMMA OtherBlocks ==
  ASSUME NEW hp, NEW hp1, NEW bf, NEW h,
         \A g \in Handles : g # h /\ Live(bf[g]) => hp1.mem[bf[g].block] = hp.mem[bf[g].block]
  PROVE  OthersKeep(hp, hp1, bf, h)
  BY DEF OthersKeep, Bytes

\* makeOwnBuffer, of memory that is shared or not.
LEMMA MakeOwnKeeps ==
  ASSUME NEW hp, NEW bf, Owns(hp, bf), NEW h \in Handles, Live(bf[h]), InMemory(bf[h]),
         NEW len \in Nat
  PROVE  LET s == makeOwnBuffer(hp, bf[h], len)
         IN  /\ Owns(s.heap, [bf EXCEPT ![h] = s.buf]) /\ Live(s.buf) /\ ~Shared(s.heap, s.buf)
             /\ Bytes(s.heap, s.buf) = Bytes(hp, bf[h])
             /\ OthersKeep(hp, s.heap, bf, h)
             /\ s.buf.cell # bf[h].cell
<1> DEFINE x == bf[h]
           n == readableBytes(x)
           b == FreshBlock(hp)
           c == FreshCell(hp)
           cap == KPrependSize + n + len
           v == Allocated(cap, Bytes(hp, x))
           y == Fields(b, KPrependSize, KPrependSize + n, cap, TRUE, c)
           hp1 == Released(hp, x)
           bf1 == [bf EXCEPT ![h] = NoObject]
           hp2 == Heap([hp1.mem EXCEPT ![b] = v], [hp1.count EXCEPT ![c] = 1])
           s == makeOwnBuffer(hp, bf[h], len)
<1>1. /\ n \in Nat /\ cap \in Nat \ {0} /\ x.cap \in Nat
      /\ hp.mem[x.block] \in [0 .. x.cap - 1 -> Int]
      /\ x.block \in Allocations /\ x.cell \in Allocations
  BY BufferAssumption, SMTT(30) DEF InMemory, readableBytes, Owns, Held
<1>2. Bytes(hp, x) \in Seq(Int) /\ Len(Bytes(hp, x)) = n
      /\ \A i \in 1 .. n : Bytes(hp, x)[i] = hp.mem[x.block][x.r + i - 1]
  BY <1>1, BytesAre, SMTT(30)
<1>3. v \in [0 .. cap - 1 -> Int] /\ \A i \in 1 .. n : v[KPrependSize + i - 1] = Bytes(hp, x)[i]
  <2> HIDE DEF cap, n
  <2>1. KPrependSize + n <= cap
    BY <1>1, BufferAssumption DEF cap
  <2> QED
    BY <1>1, <1>2, <2>1, AllocatedIs
<1>4. /\ b \in Allocations /\ hp.mem[b] = Free /\ c \in Allocations /\ hp.count[c] = 0
  BY FreshIsFree
<1>5. b # x.block /\ c # x.cell
  <2>1. hp.count[x.cell] # 0
    BY CountIs
  <2>2. 0 \in DOMAIN hp.mem[x.block]
    BY <1>1 DEF Owns, Held
  <2> QED
    BY <1>4, <2>1, <2>2 DEF Free
<1>6. hp = Heap(hp.mem, hp.count) /\ hp.mem = [i \in Allocations |-> hp.mem[i]]
      /\ hp.count = [i \in Allocations |-> hp.count[i]] /\ bf = [g \in Handles |-> bf[g]]
  BY DEF Owns, Shaped
<1>7. Owns(hp1, bf1) /\ ~Live(bf1[h])
  <2>1. ~Live(NoObject)
    BY DEF NoObject, Fields, Live
  <2>2. Owns(hp1, bf1)
    BY <2>1, ReleasedOwns
  <2> QED
    BY <1>6, <2>1, <2>2
<1>8. y.block = b /\ y.cell = c /\ y.cap = cap /\ Live(y) /\ y.r = KPrependSize
      /\ readableBytes(y) = n
  <2>1. c # None
    BY <1>4, BufferAssumption DEF Allocations
  <2> HIDE DEF b, c, cap, n
  <2> QED
    BY <1>1, <2>1, BufferAssumption DEF Fields, Live, readableBytes
<1> HIDE DEF b, c, cap, v, y, n
<1>9. /\ hp1.mem = IF hp.count[x.cell] = 1 THEN [hp.mem EXCEPT ![x.block] = Free] ELSE hp.mem
      /\ hp1.count = [hp.count EXCEPT ![x.cell] = IF hp.count[x.cell] = 1 THEN 0 ELSE @ - 1]
  <2>1. x.cell # None
    BY DEF Live
  <2>2. CASE hp.count[x.cell] = 1
    BY <2>1, <2>2 DEF Released
  <2>3. CASE hp.count[x.cell] # 1
    <3>1. hp1 = [hp EXCEPT !.count[x.cell] = @ - 1]
      BY <2>1, <2>3 DEF Released
    <3> QED
      BY <1>6, <2>3, <3>1 DEF Heap
  <2> QED
    BY <2>2, <2>3
<1>10. /\ hp1.mem[b] = Free /\ hp1.count[c] = 0
       /\ hp1.mem = [i \in Allocations |-> hp1.mem[i]]
  BY <1>1, <1>4, <1>5, <1>6, <1>9
<1>11. Owns(hp2, [bf EXCEPT ![h] = y])
  <2> HIDE DEF hp1
  <2>1. [bf1 EXCEPT ![h] = y] = [bf EXCEPT ![h] = y]
    BY <1>6
  <2> HIDE DEF bf1
  <2>2. Owns(hp2, [bf1 EXCEPT ![h] = y])
    BY <1>1, <1>3, <1>4, <1>7, <1>8, <1>10, AllocatedOwns
  <2> QED
    BY <2>1, <2>2
<1>12. s.buf = y /\ s.heap = hp2
  <2> DEFINE m0 == [hp.mem EXCEPT ![b] = v]
             n0 == [hp.count EXCEPT ![c] = 1]
  <2>1. s.buf = y /\ s.heap = Released([mem |-> m0, count |-> n0], x)
    BY DEF makeOwnBuffer, b, c, cap, v, y, n
  <2>2. n0[x.cell] = hp.count[x.cell] /\ x.cell # None
    BY <1>1, <1>5, <1>6 DEF Live
  <2>3. CASE hp.count[x.cell] = 1
    <3>1. s.heap = [mem |-> [m0 EXCEPT ![x.block] = Free], count |-> [n0 EXCEPT ![x.cell] = 0]]
      BY <2>1, <2>2, <2>3 DEF Released
    <3>2. [m0 EXCEPT ![x.block] = Free] = [hp1.mem EXCEPT ![b] = v]
      BY <1>5, <1>9, <2>3
    <3>3. [n0 EXCEPT ![x.cell] = 0] = [hp1.count EXCEPT ![c] = 1]
      BY <1>5, <1>9, <2>3
    <3> QED
      BY <2>1, <3>1, <3>2, <3>3 DEF Heap
  <2>4. CASE hp.count[x.cell] # 1
    <3>1. s.heap = [mem |-> m0, count |-> [n0 EXCEPT ![x.cell] = @ - 1]]
      BY <2>1, <2>2, <2>4 DEF Released
    <3>2. m0 = [hp1.mem EXCEPT ![b] = v]
      BY <1>9, <2>4
    <3>3. [n0 EXCEPT ![x.cell] = @ - 1] = [hp1.count EXCEPT ![c] = 1]
      BY <1>5, <1>9, <2>4
    <3> QED
      BY <2>1, <3>1, <3>2, <3>3 DEF Heap
  <2> QED
    BY <2>3, <2>4
<1>13. hp2.mem[b] = v /\ hp2.count[c] = 1
       /\ \A i \in Allocations : i # b => hp2.mem[i] = hp1.mem[i]
  <2>1. hp1.count[c] = 0 /\ hp1.count = [i \in Allocations |-> hp1.count[i]]
    BY <1>10, <1>7 DEF Owns, Shaped
  <2> HIDE DEF hp1
  <2> QED
    BY <1>4, <1>10, <2>1 DEF Heap
<1> HIDE DEF hp1, bf1, s
<1>14. Bytes(hp2, y) = Bytes(hp, x)
  <2>1. readableBytes(x) = n
    BY DEF n
  <2> HIDE DEF hp2, x
  <2>2. \A i \in 1 .. n : hp2.mem[y.block][y.r + i - 1] = hp.mem[x.block][x.r + i - 1]
    BY <1>2, <1>3, <1>8, <1>13
  <2>3. readableBytes(y) = readableBytes(x)
    BY <1>8, <2>1
  <2> QED
    BY <2>1, <2>2, <2>3, SameBytes
<1>15. OthersKeep(hp, hp2, bf, h)
  <2>1. ASSUME NEW g \in Handles, g # h, Live(bf[g])
        PROVE  hp2.mem[bf[g].block] = hp.mem[bf[g].block]
    <3>1. bf[g].block \in Allocations /\ bf[g].block # b
      <4>1. bf[g].block \in Allocations /\ 0 \in DOMAIN hp.mem[bf[g].block]
        BY <2>1 DEF Owns, Held
      <4> QED
        BY <1>4, <4>1 DEF Free
    <3>2. hp1.mem[bf[g].block] = hp.mem[bf[g].block]
      <4>1. CASE hp.count[x.cell] = 1
        <5>1. ~Shared(hp, bf[h])
          BY <4>1, CountIs
        <5>2. bf[g].block # x.block
          BY <2>1, <5>1, Alone
        <5> QED
          BY <1>6, <1>9, <3>1, <4>1, <5>2
      <4>2. CASE hp.count[x.cell] # 1
        BY <1>9, <4>2
      <4> QED
        BY <4>1, <4>2
    <3> QED
      BY <1>13, <3>1, <3>2
  <2> HIDE DEF hp2
  <2> QED
    BY <2>1, OtherBlocks
<1>16. ~Shared(hp2, y)
  BY <1>8, <1>13 DEF Shared
<1> HIDE DEF hp2
<1> QED
  BY <1>5, <1>8, <1>11, <1>12, <1>14, <1>15, <1>16 DEF s

\* Every object has its indexes in memory.
Indexed(bf) == \A h \in Handles : Live(bf[h]) => InMemory(bf[h])

\* All that share memory with an object end where it ends, or before.
Below(bf, h) ==
  \A g \in Handles : Live(bf[g]) /\ bf[g].block = bf[h].block => bf[g].w <= bf[h].w

\* The fields of one object, and bytes behind others, by a name the provers do not look behind.
Put(bf, h, y) == [bf EXCEPT ![h] = y]

Joined(bytes, data) == bytes \o data

Window(bytes, a, b) == SubSeq(bytes, a, b)

\* Bytes written behind the last of an object.
LEMMA WrittenKeeps ==
  ASSUME NEW hp, NEW bf, Owns(hp, bf), Indexed(bf), NEW h \in Handles, Live(bf[h]),
         NEW s, s.heap = hp, s.buf = bf[h],
         NEW data \in Seq(Int), Len(data) <= writableBytes(bf[h])
  PROVE  LET t == Written(s, data)
         IN  /\ Owns(t.heap, Put(bf, h, t.buf)) /\ Live(t.buf)
             /\ t.heap.count = hp.count
             /\ Bytes(t.heap, t.buf) = Joined(Bytes(hp, bf[h]), data)
             /\ Below(bf, h) => OthersKeep(hp, t.heap, bf, h)
<1> DEFINE x == bf[h]
           L == Len(data)
           o == hp.mem[x.block]
           R == x.r
           W == x.w
           C == x.cap
           v == Copied(o, W, data)
           y == [x EXCEPT !.w = @ + L]
           hp1 == Heap([hp.mem EXCEPT ![x.block] = v], hp.count)
           t == Written(s, data)
<1>1. /\ InMemory(x) /\ L \in Nat /\ C \in Nat \ {0} /\ W + L <= C
      /\ o \in [0 .. C - 1 -> Int] /\ x.block \in Allocations
      /\ W \in Nat /\ R \in Nat /\ R <= W
  BY LenProperties DEF Indexed, InMemory, writableBytes, Owns, Held
<1>2. /\ v \in [0 .. C - 1 -> Int]
      /\ \A i \in 0 .. C - 1 :
           v[i] = IF i \in W .. W + L - 1 THEN data[i - W + 1] ELSE o[i]
  <2> HIDE DEF o, W, C
  <2> QED
    BY <1>1, CopiedIs
<1>3. /\ y = Fields(x.block, x.r, x.w + L, x.cap, x.own, x.cell)
      /\ y.block = x.block /\ y.r = x.r /\ y.w = x.w + L /\ y.cap = x.cap /\ y.cell = x.cell
  <2>1. x = Fields(x.block, x.r, x.w, x.cap, x.own, x.cell)
    BY <1>1 DEF InMemory, IsFields
  <2> HIDE DEF x, L
  <2> QED
    BY <2>1 DEF Fields
<1>4. hp.mem = [i \in Allocations |-> hp.mem[i]] /\ hp = Heap(hp.mem, hp.count)
  BY DEF Owns, Shaped
<1>5. t.buf = y /\ t.heap = hp1
  BY <1>4 DEF Written, Heap
<1>6. hp1.mem[x.block] = v /\ \A b \in Allocations : b # x.block => hp1.mem[b] = hp.mem[b]
  BY <1>1, <1>4 DEF Heap
<1>7. hp1.count = hp.count
  BY DEF Heap
<1> HIDE DEF y, v, t
<1>8. Owns(hp1, [bf EXCEPT ![h] = y])
  BY <1>2, <1>3, RewriteOwns DEF Live
<1> HIDE DEF hp1, L
<1>9. Bytes(hp1, y) = Joined(Bytes(hp, x), data)
  <2> DEFINE n == readableBytes(x)
             A == Bytes(hp1, y)
             B == Bytes(hp, x)
  <2>1. n \in Nat /\ readableBytes(y) = n + L /\ n = W - R
    BY <1>1, <1>3 DEF readableBytes
  <2>2. InMemory(y)
    BY <1>1, <1>3 DEF InMemory, IsFields, Fields
  <2>3. hp1.mem[y.block] = v /\ y.r = R /\ y.cap = C
    BY <1>3, <1>6
  <2>4. /\ A \in Seq(Int) /\ Len(A) = n + L
        /\ \A i \in 1 .. n + L : A[i] = v[R + i - 1]
    <3>1. hp1.mem[y.block] \in [0 .. y.cap - 1 -> Int]
      BY <1>2, <2>3
    <3> HIDE DEF R, C, n
    <3>2. /\ A \in Seq(Int) /\ Len(A) = readableBytes(y)
          /\ \A i \in 1 .. readableBytes(y) : A[i] = hp1.mem[y.block][y.r + i - 1]
      BY <2>2, <3>1, BytesAre
    <3> HIDE DEF A
    <3> QED
      BY <2>1, <2>3, <3>2
  <2>5. B \in Seq(Int) /\ Len(B) = n /\ \A i \in 1 .. n : B[i] = o[R + i - 1]
    <3>1. InMemory(x) /\ hp.mem[x.block] \in [0 .. x.cap - 1 -> Int]
      BY <1>1
    <3> HIDE DEF x
    <3>2. /\ B \in Seq(Int) /\ Len(B) = readableBytes(x)
          /\ \A i \in 1 .. readableBytes(x) : B[i] = hp.mem[x.block][x.r + i - 1]
      BY <3>1, BytesAre, SMTT(30)
    <3> HIDE DEF B
    <3> QED
      BY <3>2
  <2>6. B \o data \in Seq(Int) /\ Len(B \o data) = n + L
        /\ \A i \in 1 .. n + L : (B \o data)[i] = IF i <= n THEN B[i] ELSE data[i - n]
    <3> HIDE DEF B, n
    <3>1. /\ B \o data \in Seq(Int) /\ Len(B \o data) = Len(B) + Len(data)
          /\ \A i \in 1 .. Len(B) + Len(data) :
               (B \o data)[i] = IF i <= Len(B) THEN B[i] ELSE data[i - Len(B)]
      BY <2>5, ConcatProperties
    <3> QED
      BY <2>5, <3>1 DEF L
  <2> HIDE DEF A, B, n, o, R, W, C
  <2>7. ASSUME NEW i \in 1 .. n + L
        PROVE  A[i] = (B \o data)[i]
    <3>1. A[i] = v[R + i - 1] /\ R + i - 1 \in 0 .. C - 1
      BY <1>1, <2>1, <2>4
    <3>2. CASE i <= n
      <4>1. i \in 1 .. n /\ R + i - 1 \notin W .. W + L - 1
        BY <1>1, <2>1, <3>2
      <4> QED
        BY <1>2, <2>5, <2>6, <3>1, <3>2, <4>1
    <3>3. CASE i > n
      <4>1. R + i - 1 \in W .. W + L - 1 /\ (R + i - 1) - W + 1 = i - n /\ ~(i <= n)
        BY <1>1, <2>1, <3>3
      <4> QED
        BY <1>2, <2>6, <3>1, <4>1
    <3>4. i <= n \/ i > n
      BY <2>1
    <3> QED
      BY <3>2, <3>3, <3>4
  <2>8. A = B \o data
    <3> DEFINE D == B \o data
    <3>1. D \in Seq(Int) /\ Len(D) = Len(A) /\ \A i \in 1 .. Len(A) : A[i] = D[i]
      BY <2>4, <2>6, <2>7
    <3> HIDE DEF D
    <3>2. A = D
      BY <2>4, <3>1, SeqEqual
    <3> QED
      BY <3>2 DEF D
  <2> QED
    BY <2>8 DEF A, B, Joined
<1>10. ASSUME Below(bf, h) PROVE OthersKeep(hp, hp1, bf, h)
  <2> SUFFICES ASSUME NEW g \in Handles, g # h, Live(bf[g])
               PROVE  Bytes(hp1, bf[g]) = Bytes(hp, bf[g])
    BY DEF OthersKeep
  <2> DEFINE z == bf[g]
  <2>1. InMemory(z) /\ z.block \in Allocations
    BY DEF Indexed, Owns, Held
  <2>2. CASE z.block # x.block
    <3>1. hp1.mem[z.block] = hp.mem[z.block]
      BY <1>6, <2>1, <2>2
    <3> QED
      BY <3>1 DEF Bytes
  <2>3. CASE z.block = x.block
    <3>1. z.w <= W /\ z.cap = C
      BY <1>10, <2>3, SameCapacity DEF Below
    <3>2. ASSUME NEW i \in 1 .. readableBytes(z)
          PROVE  hp1.mem[z.block][z.r + i - 1] = hp.mem[z.block][z.r + i - 1]
      <4> DEFINE j == z.r + i - 1
      <4>0. z.r \in Nat /\ z.w \in Nat /\ z.w <= C
        BY <2>1, <3>1 DEF InMemory
      <4> HIDE DEF W, C, o, z, x
      <4>1. j \in 0 .. C - 1 /\ j \notin W .. W + L - 1
        <5>1. i \in Nat /\ 1 <= i /\ i <= z.w - z.r
          BY <4>0 DEF readableBytes
        <5>2. j \in Nat /\ j < z.w
          BY <4>0, <5>1
        <5> HIDE DEF j
        <5>3. C \in Nat /\ W \in Nat /\ L \in Nat /\ z.w <= W
          BY <1>1, <3>1
        <5> QED
          BY <4>0, <5>2, <5>3
      <4>2. v[j] = o[j]
        <5> HIDE DEF j
        <5> QED BY <1>2, <4>1
      <4>3. hp1.mem[z.block] = v /\ hp.mem[z.block] = o
        BY <1>6, <2>3 DEF o
      <4> QED
        BY <4>2, <4>3
    <3> HIDE DEF z, hp1
    <3>3. \A i \in 1 .. readableBytes(z) : hp1.mem[z.block][z.r + i - 1] = hp.mem[z.block][z.r + i - 1]
      BY <3>2
    <3>4. Bytes(hp1, z) = Bytes(hp, z)
      BY <3>3, SameBytes
    <3> QED
      BY <3>4 DEF z
  <2> QED
    BY <2>2, <2>3
<1> HIDE DEF x
<1>11. Live(y)
  BY <1>3 DEF Live, x
<1> QED
  BY <1>5, <1>7, <1>8, <1>9, <1>10, <1>11 DEF t, x, y, L, Put

\* makeSpace moves the bytes to the front of the same memory.
LEMMA CompactedKeeps ==
  ASSUME NEW hp, NEW bf, Owns(hp, bf), Indexed(bf), NEW h \in Handles, Live(bf[h])
  PROVE  LET s == Compacted(hp, bf[h])
         IN  /\ Owns(s.heap, [bf EXCEPT ![h] = s.buf]) /\ Live(s.buf)
             /\ s.buf.cell = bf[h].cell /\ s.heap.count = hp.count
             /\ Bytes(s.heap, s.buf) = Bytes(hp, bf[h])
             /\ ~Shared(hp, bf[h]) => OthersKeep(hp, s.heap, bf, h)
<1> DEFINE x == bf[h]
           o == hp.mem[x.block]
           B == Bytes(hp, x)
           n == readableBytes(x)
           C == x.cap
           v == Copied(o, KPrependSize, B)
           y == Fields(x.block, KPrependSize, KPrependSize + n, C, x.own, x.cell)
           hp1 == Heap([hp.mem EXCEPT ![x.block] = v], hp.count)
           s == Compacted(hp, x)
<1>1. /\ n \in Nat /\ C \in Nat \ {0} /\ KPrependSize + n <= C /\ KPrependSize \in Nat
      /\ o \in [0 .. C - 1 -> Int] /\ x.block \in Allocations
  BY BufferAssumption DEF Indexed, InMemory, readableBytes, Owns, Held
<1>2. B \in Seq(Int) /\ Len(B) = n /\ \A i \in 1 .. n : B[i] = hp.mem[x.block][x.r + i - 1]
  <2>1. InMemory(x) /\ hp.mem[x.block] \in [0 .. x.cap - 1 -> Int]
    BY <1>1 DEF Indexed
  <2> HIDE DEF x
  <2> QED
    BY <2>1, BytesAre
<1>3. /\ v \in [0 .. C - 1 -> Int]
      /\ \A i \in 1 .. n : v[KPrependSize + i - 1] = B[i]
  <2> HIDE DEF o, B, n, C
  <2>1. /\ v \in [0 .. C - 1 -> Int]
        /\ \A i \in 0 .. C - 1 :
             v[i] = IF i \in KPrependSize .. KPrependSize + Len(B) - 1
                      THEN B[i - KPrependSize + 1] ELSE o[i]
    BY <1>1, <1>2, CopiedIs
  <2> HIDE DEF v
  <2>2. ASSUME NEW i \in 1 .. n PROVE v[KPrependSize + i - 1] = B[i]
    <3> DEFINE j == KPrependSize + i - 1
    <3>1. /\ j \in 0 .. C - 1 /\ j \in KPrependSize .. KPrependSize + Len(B) - 1
          /\ j - KPrependSize + 1 = i
      BY <1>1, <1>2
    <3> HIDE DEF j
    <3>2. v[j] = B[i]
      BY <2>1, <3>1
    <3> QED
      BY <3>2 DEF j
  <2> QED
    BY <2>1, <2>2
<1>4. /\ y.block = x.block /\ y.r = KPrependSize /\ y.cap = C /\ y.cell = x.cell
      /\ readableBytes(y) = n /\ Live(y)
  <2>1. y.block = x.block /\ y.r = KPrependSize /\ y.cap = C /\ y.cell = x.cell
        /\ y.w = KPrependSize + n
    BY DEF Fields
  <2> HIDE DEF y, n
  <2> QED
    BY <1>1, <2>1 DEF readableBytes, Live
<1>5. hp = Heap(hp.mem, hp.count) /\ hp.mem = [i \in Allocations |-> hp.mem[i]]
  BY DEF Owns, Shaped
<1>6. s.buf = y /\ s.heap = hp1
  BY <1>5 DEF Compacted, Heap
<1>7. hp1.count = hp.count /\ hp1.mem[y.block] = v
      /\ \A b \in Allocations : b # x.block => hp1.mem[b] = hp.mem[b]
  BY <1>1, <1>4, <1>5 DEF Heap
<1> HIDE DEF y, v, s
<1>8. Owns(hp1, [bf EXCEPT ![h] = y])
  BY <1>3, <1>4, RewriteOwns
<1> HIDE DEF hp1
<1>9. Bytes(hp1, y) = Bytes(hp, x)
  <2>1. readableBytes(x) = n
    OBVIOUS
  <2> HIDE DEF x, n, B
  <2>2. \A i \in 1 .. n : hp1.mem[y.block][y.r + i - 1] = hp.mem[x.block][x.r + i - 1]
    BY <1>2, <1>3, <1>4, <1>7
  <2> QED
    BY <1>4, <2>1, <2>2, SameBytes
<1>10. ASSUME ~Shared(hp, bf[h]) PROVE OthersKeep(hp, hp1, bf, h)
  <2>1. ASSUME NEW g \in Handles, g # h, Live(bf[g])
        PROVE  hp1.mem[bf[g].block] = hp.mem[bf[g].block]
    <3>1. bf[g].block # x.block
      BY <1>10, <2>1, Alone
    <3>2. bf[g].block \in Allocations
      BY <2>1 DEF Owns, Held
    <3> QED
      BY <1>7, <3>1, <3>2
  <2> QED
    BY <2>1, OtherBlocks
<1> QED
  BY <1>4, <1>6, <1>7, <1>8, <1>9, <1>10 DEF s

\* makeSpace replaces memory that nobody shares.
LEMMA ReplacedKeeps ==
  ASSUME NEW hp, NEW bf, Owns(hp, bf), Indexed(bf), NEW h \in Handles, Live(bf[h]),
         ~Shared(hp, bf[h]), NEW len \in Nat
  PROVE  LET s == Replaced(hp, bf[h], len)
         IN  /\ Owns(s.heap, [bf EXCEPT ![h] = s.buf]) /\ Live(s.buf)
             /\ s.buf.cell = bf[h].cell /\ s.heap.count = hp.count
             /\ Bytes(s.heap, s.buf) = Bytes(hp, bf[h])
             /\ OthersKeep(hp, s.heap, bf, h)
<1> DEFINE x == bf[h]
           B == Bytes(hp, x)
           n == readableBytes(x)
           b == FreshBlock(hp)
           C == 2 * x.cap + len
           v == Allocated(C, B)
           y == Fields(b, KPrependSize, KPrependSize + n, C, x.own, x.cell)
           hp1 == Heap([[hp.mem EXCEPT ![b] = v] EXCEPT ![x.block] = Free], hp.count)
           s == Replaced(hp, x, len)
<1>1. /\ n \in Nat /\ C \in Nat \ {0} /\ KPrependSize + n <= C /\ KPrependSize \in Nat
      /\ InMemory(x) /\ hp.mem[x.block] \in [0 .. x.cap - 1 -> Int] /\ x.block \in Allocations
      /\ x.cap \in Nat \ {0}
  BY BufferAssumption, SMTT(30) DEF Indexed, InMemory, readableBytes, Owns, Held
<1>2. B \in Seq(Int) /\ Len(B) = n /\ \A i \in 1 .. n : B[i] = hp.mem[x.block][x.r + i - 1]
  <2>1. InMemory(x) /\ hp.mem[x.block] \in [0 .. x.cap - 1 -> Int]
    BY <1>1
  <2> HIDE DEF x
  <2> QED
    BY <2>1, BytesAre
<1>3. v \in [0 .. C - 1 -> Int] /\ \A i \in 1 .. n : v[KPrependSize + i - 1] = B[i]
  <2> HIDE DEF C, n, B
  <2> QED
    BY <1>1, <1>2, AllocatedIs
<1>4. b \in Allocations /\ hp.mem[b] = Free
  BY FreshIsFree
<1>5. b # x.block
  <2>1. 0 \in DOMAIN hp.mem[x.block]
    <3>1. hp.mem[x.block] \in [0 .. x.cap - 1 -> Int] /\ x.cap \in Nat \ {0}
      BY <1>1
    <3> HIDE DEF x
    <3> QED
      BY <3>1
  <2> QED
    BY <1>4, <2>1 DEF Free
<1>6. /\ y.block = b /\ y.r = KPrependSize /\ y.cap = C /\ y.cell = x.cell
      /\ readableBytes(y) = n /\ Live(y)
  <2>1. y.block = b /\ y.r = KPrependSize /\ y.cap = C /\ y.cell = x.cell
        /\ y.w = KPrependSize + n
    BY DEF Fields
  <2> HIDE DEF y, n
  <2> QED
    BY <1>1, <2>1 DEF readableBytes, Live
<1>7. hp = Heap(hp.mem, hp.count) /\ hp.mem = [i \in Allocations |-> hp.mem[i]]
  BY DEF Owns, Shaped
<1>8. s.buf = y /\ s.heap = hp1
  <2>1. s.heap = [hp EXCEPT !.mem = [@ EXCEPT ![b] = v, ![x.block] = Free]] /\ s.buf = y
    BY DEF Replaced
  <2> QED
    BY <1>7, <2>1 DEF Heap
<1> HIDE DEF b
<1>9. hp1.count = hp.count /\ hp1.mem[y.block] = v
      /\ \A i \in Allocations : i # x.block /\ i # b => hp1.mem[i] = hp.mem[i]
  BY <1>1, <1>4, <1>5, <1>6, <1>7 DEF Heap
<1> HIDE DEF y, v, s, C
<1>10. Owns(hp1, [bf EXCEPT ![h] = y])
  BY <1>1, <1>3, <1>4, <1>6, ReplacedOwns
<1> HIDE DEF hp1
<1>11. Bytes(hp1, y) = Bytes(hp, x)
  <2>1. readableBytes(x) = n
    OBVIOUS
  <2> HIDE DEF x, n, B
  <2>2. \A i \in 1 .. n : hp1.mem[y.block][y.r + i - 1] = hp.mem[x.block][x.r + i - 1]
    BY <1>2, <1>3, <1>6, <1>9
  <2> QED
    BY <1>6, <2>1, <2>2, SameBytes
<1>12. OthersKeep(hp, hp1, bf, h)
  <2>1. ASSUME NEW g \in Handles, g # h, Live(bf[g])
        PROVE  hp1.mem[bf[g].block] = hp.mem[bf[g].block]
    <3>1. bf[g].block # x.block
      BY <2>1, Alone
    <3>2. bf[g].block \in Allocations /\ 0 \in DOMAIN hp.mem[bf[g].block]
      BY <2>1 DEF Owns, Held
    <3>3. bf[g].block # b
      BY <1>4, <3>2 DEF Free
    <3> QED
      BY <1>9, <3>1, <3>2, <3>3
  <2> QED
    BY <2>1, OtherBlocks
<1> QED
  BY <1>6, <1>8, <1>9, <1>10, <1>11, <1>12 DEF s


-----------------------------------------------------------------------------
(* What the calls do, step by step of the code.                            *)

\* Steps that may disturb others, if the memory is shared.
Rewinds(x, y) == x.own /\ y.block = x.block /\ y.r < x.r
Writes(x, y)  == ~x.own /\ y.block = x.block /\ y.w > x.w
Moves(x, y)   == y.block # x.block /\ y.cell = x.cell

\* The first of two steps changes one object, and so does the second.
LEMMA OthersStillKeep ==
  ASSUME NEW hp, NEW hp1, NEW hp2, NEW bf, bf = [g \in Handles |-> bf[g]], NEW h \in Handles, NEW y,
         OthersKeep(hp, hp1, bf, h), OthersKeep(hp1, hp2, [bf EXCEPT ![h] = y], h)
  PROVE  OthersKeep(hp, hp2, bf, h)
  BY DEF OthersKeep

\* An object alone in its memory, or at its end, is below none.
LEMMA AloneBelow ==
  ASSUME NEW hp, NEW bf, Owns(hp, bf), Indexed(bf), NEW h \in Handles, Live(bf[h]),
         ~Shared(hp, bf[h]) \/ writableBytes(bf[h]) = 0
  PROVE  Below(bf, h)
<1> SUFFICES ASSUME NEW g \in Handles, Live(bf[g]), bf[g].block = bf[h].block
             PROVE  bf[g].w <= bf[h].w
  BY DEF Below
<1>1. /\ bf[g].w \in Nat /\ bf[h].w \in Nat /\ bf[h].cap \in Nat
      /\ bf[g].cap = bf[h].cap /\ bf[g].w <= bf[g].cap
  BY SameCapacity DEF Indexed, InMemory
<1>2. CASE ~Shared(hp, bf[h])
  <2>1. g = h
    BY <1>2, Alone
  <2> QED
    BY <1>1, <2>1
<1>3. CASE writableBytes(bf[h]) = 0
  BY <1>1, <1>3 DEF writableBytes
<1> QED
  BY <1>2, <1>3

\* ensureWriteableBytes keeps the bytes unless it moves memory that is shared, and those of
\* others unless it moves or rewinds such memory; it changes nothing, or leaves the
\* object alone in its memory.
LEMMA EnsureKeeps ==
  ASSUME NEW hp, NEW bf, Owns(hp, bf), Indexed(bf), NEW h \in Handles, Live(bf[h]),
         NEW len \in Nat
  PROVE  LET s == ensureWriteableBytes(hp, bf[h], len)
         IN  /\ \/ Shared(hp, bf[h]) /\ Moves(bf[h], s.buf)
                \/ /\ Owns(s.heap, [bf EXCEPT ![h] = s.buf]) /\ Live(s.buf)
                   /\ Bytes(s.heap, s.buf) = Bytes(hp, bf[h])
             /\ \/ Shared(hp, bf[h]) /\ (Moves(bf[h], s.buf) \/ Rewinds(bf[h], s.buf))
                \/ /\ OthersKeep(hp, s.heap, bf, h)
                   /\ (s.heap = hp /\ s.buf = bf[h]) \/ ~Shared(s.heap, s.buf)
<1> DEFINE x == bf[h]
           s == ensureWriteableBytes(hp, x, len)
           Own == /\ Owns(s.heap, [bf EXCEPT ![h] = s.buf]) /\ Live(s.buf)
                  /\ Bytes(s.heap, s.buf) = Bytes(hp, x)
           Others == OthersKeep(hp, s.heap, bf, h)
<1>1. /\ InMemory(x) /\ x.r \in Nat /\ x.w \in Nat /\ x.cap \in Nat /\ KPrependSize \in Nat
      /\ KPrependSize <= x.r /\ x.r <= x.w /\ x.w <= x.cap
  BY BufferAssumption DEF Indexed, InMemory
<1>2. CASE writableBytes(x) >= len
  <2>1. s.heap = hp /\ s.buf = x
    BY <1>2 DEF ensureWriteableBytes
  <2> HIDE DEF s
  <2>2. [bf EXCEPT ![h] = x] = bf
    BY DEF Owns, Shaped
  <2>3. Own
    BY <2>1, <2>2
  <2>4. Others
    BY <2>1 DEF OthersKeep
  <2> QED
    BY <2>1, <2>3, <2>4 DEF s
<1>3. CASE writableBytes(x) < len /\ x.own /\ writableBytes(x) + x.r < len + KPrependSize
  <2>1. s = Replaced(hp, x, len)
    BY <1>3, <1>1 DEF ensureWriteableBytes, makeSpace, writableBytes
  <2>2. CASE Shared(hp, x)
    <3>1. s.buf.block = FreshBlock(hp) /\ s.buf.cell = x.cell
      BY <2>1 DEF Replaced, Fields
    <3>2. FreshBlock(hp) # x.block
      <4>1. hp.mem[FreshBlock(hp)] = Free
        BY FreshIsFree
      <4>2. hp.mem[x.block] \in [0 .. x.cap - 1 -> Int] /\ x.cap \in Nat \ {0}
        BY DEF Owns, Held
      <4> HIDE DEF x
      <4>3. 0 \in DOMAIN hp.mem[x.block]
        BY <4>2
      <4> QED
        BY <4>1, <4>3 DEF Free
    <3>3. Moves(x, s.buf)
      BY <3>1, <3>2 DEF Moves
    <3> QED
      BY <2>2, <3>3
  <2>3. CASE ~Shared(hp, x)
    <3> HIDE DEF s
    <3>1. Own /\ Others /\ s.buf.cell = x.cell /\ s.heap.count = hp.count
      BY <2>1, <2>3, ReplacedKeeps
    <3>2. ~Shared(s.heap, s.buf)
      BY <2>3, <3>1 DEF Shared
    <3> QED
      BY <3>1, <3>2 DEF s
  <2> QED
    BY <2>2, <2>3
<1>4. CASE writableBytes(x) < len /\ x.own /\ ~(writableBytes(x) + x.r < len + KPrependSize)
  <2>1. s = Compacted(hp, x)
    BY <1>4, <1>1 DEF ensureWriteableBytes, makeSpace, writableBytes
  <2>2. Rewinds(x, s.buf)
    <3>1. s.buf.block = x.block /\ s.buf.r = KPrependSize
      BY <2>1 DEF Compacted, Fields
    <3>2. KPrependSize < x.r
      BY <1>1, <1>4 DEF writableBytes
    <3> QED
      BY <1>4, <3>1, <3>2 DEF Rewinds
  <2> HIDE DEF s
  <2>3. Own /\ (~Shared(hp, x) => Others) /\ s.buf.cell = x.cell /\ s.heap.count = hp.count
    BY <2>1, CompactedKeeps
  <2>4. ~Shared(hp, x) => ~Shared(s.heap, s.buf)
    BY <2>3 DEF Shared
  <2> QED
    BY <2>2, <2>3, <2>4 DEF s
<1>5. CASE writableBytes(x) < len /\ ~x.own
  <2>1. s = makeOwnBuffer(hp, x, len)
    BY <1>5, <1>1 DEF ensureWriteableBytes, writableBytes
  <2> HIDE DEF s
  <2>2. Own /\ Others /\ ~Shared(s.heap, s.buf)
    BY <1>1, <2>1, MakeOwnKeeps
  <2> QED
    BY <2>2 DEF s
<1>6. writableBytes(x) \in Int
  BY <1>1 DEF writableBytes
<1> HIDE DEF x, s
<1>7. \/ writableBytes(x) >= len
      \/ writableBytes(x) < len /\ x.own /\ writableBytes(x) + x.r < len + KPrependSize
      \/ writableBytes(x) < len /\ x.own /\ ~(writableBytes(x) + x.r < len + KPrependSize)
      \/ writableBytes(x) < len /\ ~x.own
  BY <1>6
<1> QED
  BY <1>2, <1>3, <1>4, <1>5, <1>7 DEF x, s

\* What is known of data, and of the pieces it is cut into.
LEMMA NatSeq ==
  ASSUME NEW data \in Seq(Nat)
  PROVE  data \in Seq(Int) /\ Len(data) \in Nat
<1>1. \A i \in 1 .. Len(data) : data[i] \in Int
  BY ElementOfSeq
<1>2. Len(data) \in Nat /\ data \in [1 .. Len(data) -> Nat]
  BY LenProperties
<1> DEFINE n == Len(data)
<1>3. data \in [1 .. n -> Int]
  BY <1>2
<1> HIDE DEF n
<1> QED
  BY <1>2, <1>3 DEF n

\* Indexed, when one object changes.
LEMMA OneIndexed ==
  ASSUME NEW bf, bf = [g \in Handles |-> bf[g]], Indexed(bf), NEW h \in Handles, NEW y, InMemory(y)
  PROVE  Indexed([bf EXCEPT ![h] = y])
<1> DEFINE bf1 == [bf EXCEPT ![h] = y]
<1>1. \A g \in Handles : bf1[g] = IF g = h THEN y ELSE bf[g]
  OBVIOUS
<1> HIDE DEF bf1
<1>2. Indexed(bf1)
  BY <1>1 DEF Indexed
<1> QED
  BY <1>2 DEF bf1

\* append keeps the object's own bytes and puts the new ones behind them unless it moves
\* memory that is shared, and the bytes of others unless it moves, rewinds or, not the
\* owner, writes such memory.
LEMMA AppendedKeeps ==
  ASSUME NEW hp, NEW bf, Owns(hp, bf), Indexed(bf), NEW h \in Handles, Live(bf[h]),
         NEW data \in Seq(Nat), data # <<>>
  PROVE  LET s == appended(hp, bf[h], data)
         IN  /\ \/ Shared(hp, bf[h]) /\ Moves(bf[h], s.buf)
                \/ /\ Owns(s.heap, Put(bf, h, s.buf)) /\ Live(s.buf)
                   /\ Bytes(s.heap, s.buf) = Joined(Bytes(hp, bf[h]), data)
             /\ \/ /\ Shared(hp, bf[h])
                   /\ Moves(bf[h], s.buf) \/ Rewinds(bf[h], s.buf) \/ Writes(bf[h], s.buf)
                \/ bf[h].own /\ ~Below(bf, h)
                \/ OthersKeep(hp, s.heap, bf, h)
<1> DEFINE x == bf[h]
           L == Len(data)
           e == ensureWriteableBytes(hp, x, L)
           s == appended(hp, x, data)
           bf1 == [bf EXCEPT ![h] = e.buf]
<1>1. data \in Seq(Int) /\ L \in Nat \ {0}
  BY NatSeq, EmptySeq
<1>2. InMemory(x) /\ x.w \in Nat
  BY DEF Indexed, InMemory
<1>3. InMemory(e.buf) /\ writableBytes(e.buf) >= L
  BY <1>1, <1>2, EnsureWriteableMakesRoom
<1>4. /\ \/ Shared(hp, x) /\ Moves(x, e.buf)
         \/ /\ Owns(e.heap, [bf EXCEPT ![h] = e.buf]) /\ Live(e.buf)
            /\ Bytes(e.heap, e.buf) = Bytes(hp, x)
      /\ \/ Shared(hp, x) /\ (Moves(x, e.buf) \/ Rewinds(x, e.buf))
         \/ /\ OthersKeep(hp, e.heap, bf, h)
            /\ (e.heap = hp /\ e.buf = x) \/ ~Shared(e.heap, e.buf)
  BY <1>1, EnsureKeeps
<1>5. s = Written(e, data)
  BY DEF appended
<1>6. bf = [g \in Handles |-> bf[g]]
  BY DEF Owns, Shaped
<1> HIDE DEF e, s, L
<1>7. /\ s.buf.block = e.buf.block /\ s.buf.cell = e.buf.cell /\ s.buf.r = e.buf.r
      /\ s.buf.own = e.buf.own /\ s.buf.w = e.buf.w + L
  <2> DEFINE y == e.buf
  <2>1. s.buf = [y EXCEPT !.w = @ + L] /\ IsFields(y)
    BY <1>3, <1>5 DEF Written, L, InMemory
  <2> HIDE DEF y
  <2>2. y = Fields(y.block, y.r, y.w, y.cap, y.own, y.cell)
    BY <2>1 DEF IsFields
  <2> QED
    BY <2>1, <2>2 DEF Fields, y
<1>8. /\ Moves(x, s.buf) <=> Moves(x, e.buf)
      /\ Rewinds(x, s.buf) <=> Rewinds(x, e.buf)
  BY <1>7 DEF Moves, Rewinds
<1>9. CASE Shared(hp, x) /\ Moves(x, e.buf)
  BY <1>8, <1>9 DEF s
<1>10. CASE ~(Shared(hp, x) /\ Moves(x, e.buf))
  <2>1. /\ Owns(e.heap, bf1) /\ bf1[h] = e.buf /\ Live(bf1[h])
        /\ bf1 = [g \in Handles |-> bf1[g]] /\ Bytes(e.heap, e.buf) = Bytes(hp, x)
    BY <1>4, <1>6, <1>10
  <2>2. Indexed(bf1)
    BY <1>3, <1>6, OneIndexed
  <2>3. Put(bf1, h, s.buf) = Put(bf, h, s.buf)
    BY <1>6 DEF Put
  <2> HIDE DEF bf1
  <2>4. Len(data) <= writableBytes(bf1[h])
    BY <1>1, <1>3, <2>1 DEF L, writableBytes, InMemory
  <2>5. /\ Owns(s.heap, Put(bf1, h, s.buf)) /\ Live(s.buf)
        /\ Bytes(s.heap, s.buf) = Joined(Bytes(e.heap, bf1[h]), data)
        /\ Below(bf1, h) => OthersKeep(e.heap, s.heap, bf1, h)
    <3> DEFINE t == Written(e, data)
    <3>1. Owns(e.heap, bf1) /\ e.buf = bf1[h] /\ Live(bf1[h])
      BY <2>1
    <3>2. Owns(t.heap, Put(bf1, h, t.buf)) /\ Live(t.buf)
      BY <1>1, <2>2, <2>4, <3>1, WrittenKeeps
    <3>3. Bytes(t.heap, t.buf) = Joined(Bytes(e.heap, bf1[h]), data)
      BY <1>1, <2>2, <2>4, <3>1, WrittenKeeps
    <3>4. Below(bf1, h) => OthersKeep(e.heap, t.heap, bf1, h)
      BY <1>1, <2>2, <2>4, <3>1, WrittenKeeps
    <3> QED
      BY <1>5, <3>2, <3>3, <3>4
  <2>6. /\ Owns(s.heap, Put(bf, h, s.buf)) /\ Live(s.buf)
        /\ Bytes(s.heap, s.buf) = Joined(Bytes(hp, x), data)
    BY <2>1, <2>3, <2>5
  <2>7. ASSUME ~(Shared(hp, x) /\ (Moves(x, s.buf) \/ Rewinds(x, s.buf) \/ Writes(x, s.buf))),
               ~(x.own /\ ~Below(bf, h))
        PROVE  OthersKeep(hp, s.heap, bf, h)
    <3>1. OthersKeep(hp, e.heap, bf, h) /\ ((e.heap = hp /\ e.buf = x) \/ ~Shared(e.heap, e.buf))
      BY <1>4, <1>8, <2>7
    <3>2. Below(bf1, h)
      <4>1. CASE ~Shared(e.heap, e.buf)
        BY <2>1, <2>2, <4>1, AloneBelow
      <4>2. CASE e.heap = hp /\ e.buf = x
        <5>1. bf1 = bf
          BY <1>6, <4>2 DEF bf1
        <5>2. CASE x.own
          BY <2>7, <5>1, <5>2
        <5>3. CASE ~x.own
          <6>1. Writes(x, s.buf)
            BY <1>1, <1>2, <1>7, <4>2, <5>3 DEF Writes
          <6>2. ~Shared(hp, x)
            BY <2>7, <6>1
          <6> QED
            BY <5>1, <6>2, AloneBelow
        <5> QED
          BY <5>2, <5>3
      <4> QED
        BY <3>1, <4>1, <4>2
    <3>3. OthersKeep(e.heap, s.heap, bf1, h)
      BY <2>5, <3>2
    <3> QED
      BY <1>6, <3>1, <3>3, OthersStillKeep DEF bf1
  <2> QED
    BY <2>6, <2>7 DEF s
<1> QED
  BY <1>9, <1>10

\* A write where there is room, by writeN or by readFd.
LEMMA InPlaceKeeps ==
  ASSUME NEW hp, NEW bf, Owns(hp, bf), Indexed(bf), NEW h \in Handles, Live(bf[h]),
         NEW s, s.heap = hp, s.buf = bf[h],
         NEW data \in Seq(Nat), data # <<>>, Len(data) <= writableBytes(bf[h])
  PROVE  LET t == Written(s, data)
         IN  /\ Owns(t.heap, Put(bf, h, t.buf)) /\ Live(t.buf)
             /\ Bytes(t.heap, t.buf) = Joined(Bytes(hp, bf[h]), data)
             /\ \/ Shared(hp, bf[h]) /\ Writes(bf[h], t.buf)
                \/ bf[h].own /\ ~Below(bf, h)
                \/ OthersKeep(hp, t.heap, bf, h)
<1> DEFINE x == bf[h]
           t == Written(s, data)
<1>1. data \in Seq(Int) /\ Len(data) \in Nat \ {0}
  BY NatSeq, EmptySeq
<1>2. IsFields(x) /\ x.w \in Nat
  BY DEF Indexed, InMemory
<1>3. /\ Owns(t.heap, Put(bf, h, t.buf)) /\ Live(t.buf)
      /\ Bytes(t.heap, t.buf) = Joined(Bytes(hp, bf[h]), data)
      /\ Below(bf, h) => OthersKeep(hp, t.heap, bf, h)
  BY <1>1, WrittenKeeps
<1>4. t.buf.block = x.block /\ t.buf.w = x.w + Len(data)
  <2>1. t.buf = [x EXCEPT !.w = @ + Len(data)]
    BY DEF Written
  <2> HIDE DEF x, t
  <2>2. x = Fields(x.block, x.r, x.w, x.cap, x.own, x.cell)
    BY <1>2 DEF IsFields
  <2> QED
    BY <2>1, <2>2 DEF Fields
<1> HIDE DEF t
<1>5. CASE ~x.own
  <2>1. Writes(x, t.buf)
    BY <1>1, <1>2, <1>4, <1>5 DEF Writes
  <2>2. ~Shared(hp, x) => Below(bf, h)
    BY AloneBelow
  <2> QED
    BY <1>3, <2>1, <2>2 DEF t
<1>6. CASE x.own
  BY <1>3, <1>6 DEF t
<1> QED
  BY <1>5, <1>6

\* readFd, by way of the spare memory or not.
LEMMA ReadKeeps ==
  ASSUME NEW hp, NEW bf, Owns(hp, bf), Indexed(bf), NEW h \in Handles, Live(bf[h]),
         NEW data \in Seq(Nat), data # <<>>
  PROVE  LET s == readFd(hp, bf[h], data)
         IN  /\ \/ Shared(hp, bf[h]) /\ Moves(bf[h], s.buf)
                \/ /\ Owns(s.heap, Put(bf, h, s.buf)) /\ Live(s.buf)
                   /\ Bytes(s.heap, s.buf) = Joined(Bytes(hp, bf[h]), data)
             /\ \/ /\ Shared(hp, bf[h])
                   /\ \/ Moves(bf[h], s.buf) \/ Rewinds(bf[h], s.buf) \/ Writes(bf[h], s.buf)
                      \/ Writes(bf[h], Filled(bf[h], Len(data)))
                \/ bf[h].own /\ ~Below(bf, h)
                \/ OthersKeep(hp, s.heap, bf, h)
<1> DEFINE x == bf[h]
           n == writableBytes(x)
           r == [heap |-> hp, buf |-> x]
           front == SubSeq(data, 1, n)
           rest == SubSeq(data, n + 1, Len(data))
           full == Written(r, front)
           x1 == full.buf
           bf1 == Put(bf, h, x1)
           s == readFd(hp, x, data)
<1>1. /\ InMemory(x) /\ x.w \in Nat /\ x.cap \in Nat /\ n \in Nat /\ n = x.cap - x.w
      /\ r.heap = hp /\ r.buf = x
  BY DEF Indexed, InMemory, writableBytes
<1>2. data \in Seq(Int) /\ Len(data) \in Nat
  BY NatSeq
<1>3. CASE Len(data) <= n
  <2>1. s = Written(r, data)
    BY <1>3 DEF readFd
  <2> HIDE DEF r, s, n
  <2>2. Len(data) <= writableBytes(bf[h])
    BY <1>3 DEF n
  <2>3. r.heap = hp /\ r.buf = bf[h]
    BY <1>1
  <2> DEFINE t == Written(r, data)
  <2>4. /\ Owns(t.heap, Put(bf, h, t.buf)) /\ Live(t.buf)
        /\ Bytes(t.heap, t.buf) = Joined(Bytes(hp, bf[h]), data)
        /\ \/ Shared(hp, bf[h]) /\ Writes(bf[h], t.buf)
           \/ bf[h].own /\ ~Below(bf, h)
           \/ OthersKeep(hp, t.heap, bf, h)
    BY <2>2, <2>3, InPlaceKeeps
  <2> QED
    BY <2>1, <2>4 DEF s
<1>4. CASE ~(Len(data) <= n)
  <2>1. s = appended(full.heap, x1, rest)
    BY <1>4 DEF readFd
  <2>2. /\ front \in Seq(Nat) /\ front \in Seq(Int) /\ Len(front) = n
        /\ rest \in Seq(Nat) /\ rest \in Seq(Int) /\ rest # <<>>
        /\ front \o rest = data
    <3> HIDE DEF n
    <3>1. front \in Seq(Nat) /\ Len(front) = n
      BY <1>1, <1>2, <1>4, SubSeqProperties, ElementOfSeq
    <3>2. rest \in Seq(Nat) /\ Len(rest) = Len(data) - n
      BY <1>1, <1>2, <1>4, SubSeqProperties, ElementOfSeq
    <3>3. rest # <<>>
      <4>1. Len(rest) # 0
        BY <1>1, <1>2, <1>4, <3>2
      <4> HIDE DEF rest
      <4> QED
        BY <4>1
    <3>4. front \o rest = data
      <4>1. 1 \in 1 .. Len(data) + 1 /\ n \in 1 - 1 .. Len(data) /\ Len(data) \in n .. Len(data)
        BY <1>1, <1>2, <1>4
      <4>2. front \o rest = SubSeq(data, 1, Len(data))
        BY <4>1, ConcatAdjacentSubSeq
      <4> QED
        BY <4>2, SubSeqFull
    <3> HIDE DEF front, rest
    <3> QED
      BY <3>1, <3>2, <3>3, <3>4, NatSeq
  <2>3. /\ x1.block = x.block /\ x1.cell = x.cell /\ x1.own = x.own /\ x1.r = x.r
        /\ x1.cap = x.cap /\ x1.w = x.cap
    <3>1. x1 = [x EXCEPT !.w = @ + Len(front)] /\ IsFields(x)
      BY <1>1 DEF Written, InMemory
    <3> HIDE DEF x, x1, front, n
    <3>2. x = Fields(x.block, x.r, x.w, x.cap, x.own, x.cell)
      BY <3>1 DEF IsFields
    <3>3. x.w + n = x.cap
      BY <1>1
    <3> QED
      BY <2>2, <3>1, <3>2, <3>3 DEF Fields
  <2> HIDE DEF r, s, n, front, rest, full
  <2>4. /\ Owns(full.heap, bf1) /\ Live(x1) /\ full.heap.count = hp.count
        /\ Bytes(full.heap, x1) = Joined(Bytes(hp, x), front)
        /\ Below(bf, h) => OthersKeep(hp, full.heap, bf, h)
    <3> DEFINE t == Written(r, front)
    <3>1. Len(front) <= writableBytes(bf[h]) /\ r.heap = hp /\ r.buf = bf[h]
      BY <1>1, <2>2 DEF n
    <3>2. /\ Owns(t.heap, Put(bf, h, t.buf)) /\ Live(t.buf) /\ t.heap.count = hp.count
          /\ Bytes(t.heap, t.buf) = Joined(Bytes(hp, bf[h]), front)
          /\ Below(bf, h) => OthersKeep(hp, t.heap, bf, h)
      BY <2>2, <3>1, WrittenKeeps
    <3> QED
      BY <3>2 DEF full
  <2>5. bf1 = [bf EXCEPT ![h] = x1] /\ bf = [g \in Handles |-> bf[g]] /\ bf1[h] = x1
    BY DEF Put, Owns, Shaped
  <2>6. InMemory(x1) /\ Indexed(bf1) /\ writableBytes(x1) = 0
    <3>1. Len(front) <= writableBytes(r.buf) /\ InMemory(r.buf)
      BY <1>1, <2>2 DEF n
    <3>2. InMemory(x1)
      BY <2>2, <3>1, WrittenInMemory DEF full
    <3> HIDE DEF x1, bf1
    <3>3. Indexed(bf1)
      BY <2>5, <3>2, OneIndexed
    <3> QED
      BY <1>1, <2>3, <3>2, <3>3 DEF writableBytes
  <2> HIDE DEF bf1
  <2>7. Live(bf1[h]) /\ s = appended(full.heap, bf1[h], rest)
    BY <2>1, <2>4, <2>5
  <2>8. /\ \/ Shared(full.heap, bf1[h]) /\ Moves(bf1[h], s.buf)
           \/ /\ Owns(s.heap, Put(bf1, h, s.buf)) /\ Live(s.buf)
              /\ Bytes(s.heap, s.buf) = Joined(Bytes(full.heap, bf1[h]), rest)
        /\ \/ /\ Shared(full.heap, bf1[h])
              /\ Moves(bf1[h], s.buf) \/ Rewinds(bf1[h], s.buf) \/ Writes(bf1[h], s.buf)
           \/ bf1[h].own /\ ~Below(bf1, h)
           \/ OthersKeep(full.heap, s.heap, bf1, h)
    <3> DEFINE a == appended(full.heap, bf1[h], rest)
    <3>1. /\ \/ Shared(full.heap, bf1[h]) /\ Moves(bf1[h], a.buf)
             \/ /\ Owns(a.heap, Put(bf1, h, a.buf)) /\ Live(a.buf)
                /\ Bytes(a.heap, a.buf) = Joined(Bytes(full.heap, bf1[h]), rest)
          /\ \/ /\ Shared(full.heap, bf1[h])
                /\ Moves(bf1[h], a.buf) \/ Rewinds(bf1[h], a.buf) \/ Writes(bf1[h], a.buf)
             \/ bf1[h].own /\ ~Below(bf1, h)
             \/ OthersKeep(full.heap, a.heap, bf1, h)
      BY <2>2, <2>4, <2>6, <2>7, AppendedKeeps
    <3> QED
      BY <2>7, <3>1
  <2> HIDE DEF x1
  <2>9. /\ Shared(full.heap, bf1[h]) <=> Shared(hp, x)
        /\ Moves(bf1[h], s.buf) <=> Moves(x, s.buf)
        /\ Rewinds(bf1[h], s.buf) <=> Rewinds(x, s.buf)
        /\ Writes(bf1[h], s.buf) => Writes(x, s.buf)
    <3>1. InMemory(s.buf)
      BY <2>1, <2>2, <2>6, AppendedInMemory
    <3>2. s.buf.w \in Nat /\ x.w <= x.cap
      BY <1>1, <3>1 DEF InMemory
    <3> QED
      BY <1>1, <2>3, <2>4, <2>5, <3>2 DEF Shared, Moves, Rewinds, Writes
  <2>10. ~Shared(hp, x) \/ ~Moves(x, s.buf)
         => /\ Owns(s.heap, Put(bf, h, s.buf)) /\ Live(s.buf)
            /\ Bytes(s.heap, s.buf) = Joined(Bytes(hp, bf[h]), data)
    <3>1. Put(bf1, h, s.buf) = Put(bf, h, s.buf)
      BY <2>5 DEF Put
    <3>2. Joined(Joined(Bytes(hp, x), front), rest) = Joined(Bytes(hp, x), data)
      <4>1. Bytes(hp, x) \in Seq(Int)
        <5>1. hp.mem[x.block] \in [0 .. x.cap - 1 -> Int]
          BY DEF Owns, Held
        <5> HIDE DEF x
        <5> QED
          BY <1>1, <5>1, BytesAre
      <4> DEFINE B == Bytes(hp, x)
      <4>2. B \in Seq(Int) /\ front \in Seq(Int) /\ rest \in Seq(Int)
        BY <2>2, <4>1
      <4> HIDE DEF B
      <4>3. (B \o front) \o rest = B \o (front \o rest)
        BY <4>2, ConcatAssociative, SMTT(30)
      <4>4. (B \o front) \o rest = B \o data
        BY <2>2, <4>3
      <4> QED
        BY <4>4 DEF Joined, B
    <3> QED
      BY <2>4, <2>5, <2>8, <2>9, <3>1, <3>2
  <2>11. ASSUME ~(/\ Shared(hp, x)
                  /\ \/ Moves(x, s.buf) \/ Rewinds(x, s.buf) \/ Writes(x, s.buf)
                     \/ Writes(x, Filled(x, Len(data)))),
                ~(x.own /\ ~Below(bf, h))
         PROVE  OthersKeep(hp, s.heap, bf, h)
    <3>1. Below(bf, h)
      <4>1. CASE x.own
        BY <2>11, <4>1
      <4>2. CASE ~x.own /\ n = 0
        <5>1. writableBytes(bf[h]) = 0
          BY <4>2 DEF n
        <5> QED
          BY <5>1, AloneBelow
      <4>3. CASE ~x.own /\ n # 0
        <5> DEFINE z == Filled(x, Len(data))
        <5>1. z.block = x.block /\ z.w = x.cap
          <6>1. z = [x EXCEPT !.w = x.cap] /\ IsFields(x)
            BY <1>1, <1>4 DEF Filled, n, InMemory
          <6> HIDE DEF x, z
          <6>2. x = Fields(x.block, x.r, x.w, x.cap, x.own, x.cell)
            BY <6>1 DEF IsFields
          <6> QED
            BY <6>1, <6>2 DEF Fields
        <5> HIDE DEF z
        <5>2. Writes(x, z)
          BY <1>1, <4>3, <5>1 DEF Writes
        <5>3. ~Shared(hp, x)
          BY <2>11, <5>2 DEF z
        <5> QED
          BY <5>3, AloneBelow
      <4> QED
        BY <4>1, <4>2, <4>3
    <3>2. OthersKeep(hp, full.heap, bf, h)
      BY <2>4, <3>1
    <3>3. Below(bf1, h)
      BY <2>4, <2>6, <2>7, <2>5, AloneBelow
    <3>4. OthersKeep(full.heap, s.heap, bf1, h)
      BY <2>8, <2>9, <2>11, <3>3
    <3> QED
      BY <2>5, <3>2, <3>4, OthersStillKeep
  <2> QED
    BY <2>10, <2>11 DEF s
<1> QED
  BY <1>3, <1>4

-----------------------------------------------------------------------------
(* The invariants.                                                         *)

\* Up to the first step that leaves the behaviour undefined, all memory is owned.
MemInv == Defined => Owns(heap, buf)

\* At most one object of those that share memory has m_ownMemory, and none has a byte
\* behind its last: it may write there.
OwnerLast(bf) ==
  \A h, g \in Handles :
    h # g /\ Live(bf[h]) /\ Live(bf[g]) /\ bf[h].cell = bf[g].cell /\ bf[h].own
    => ~bf[g].own /\ bf[g].w <= bf[h].w

Showing(hp, bf, hd) == \A h \in Handles : Live(bf[h]) => Bytes(hp, bf[h]) = hd[h]

ByteInv ==
  /\ holds = [h \in Handles |-> holds[h]]
  /\ misuse = {} => OwnerLast(buf) /\ Showing(heap, buf, holds)

Inv == BufInv /\ MemInv /\ ByteInv

\* Showing, when one object changes and no other sees a difference.
LEMMA ShowOne ==
  ASSUME NEW hp, NEW hp1, NEW bf, NEW hd, bf = [g \in Handles |-> bf[g]], hd = [g \in Handles |-> hd[g]],
         Showing(hp, bf, hd), NEW h \in Handles, OthersKeep(hp, hp1, bf, h),
         NEW y, NEW d, Live(y) => Bytes(hp1, y) = d
  PROVE  Showing(hp1, Put(bf, h, y), [hd EXCEPT ![h] = d])
<1> DEFINE bf1 == Put(bf, h, y)
           hd1 == [hd EXCEPT ![h] = d]
<1>1. /\ bf1[h] = y /\ hd1[h] = d
      /\ \A g \in Handles : g # h => bf1[g] = bf[g] /\ hd1[g] = hd[g]
  BY DEF Put
<1> HIDE DEF bf1, hd1
<1> SUFFICES ASSUME NEW g \in Handles, Live(bf1[g])
             PROVE  Bytes(hp1, bf1[g]) = hd1[g]
  BY DEF Showing, bf1, hd1
<1>2. CASE g = h
  BY <1>1, <1>2
<1>3. CASE g # h
  BY <1>1, <1>3 DEF Showing, OthersKeep
<1> QED
  BY <1>2, <1>3

\* OwnerLast, when one object changes.
LEMMA LastOne ==
  ASSUME NEW bf, bf = [g \in Handles |-> bf[g]], OwnerLast(bf), NEW h \in Handles, NEW y,
         \A g \in Handles : g # h /\ Live(bf[g]) /\ Live(y) /\ bf[g].cell = y.cell =>
           /\ y.own => ~bf[g].own /\ bf[g].w <= y.w
           /\ bf[g].own => ~y.own /\ y.w <= bf[g].w
  PROVE  OwnerLast(Put(bf, h, y))
<1> DEFINE bf1 == Put(bf, h, y)
<1>1. bf1[h] = y /\ \A g \in Handles : g # h => bf1[g] = bf[g]
  BY DEF Put
<1> HIDE DEF bf1
<1>2. OwnerLast(bf1)
  <2> SUFFICES ASSUME NEW i \in Handles, NEW j \in Handles, i # j, Live(bf1[i]), Live(bf1[j]),
                      bf1[i].cell = bf1[j].cell, bf1[i].own
               PROVE  ~bf1[j].own /\ bf1[j].w <= bf1[i].w
    BY DEF OwnerLast
  <2>1. CASE i = h
    BY <1>1, <2>1
  <2>2. CASE j = h
    BY <1>1, <2>2
  <2>3. CASE i # h /\ j # h
    BY <1>1, <2>3 DEF OwnerLast
  <2> QED
    BY <2>1, <2>2, <2>3
<1> QED
  BY <1>2 DEF bf1

\* Behind the bytes of the owner there are none of the others.
LEMMA OwnerBelow ==
  ASSUME NEW hp, NEW bf, Owns(hp, bf), Indexed(bf), OwnerLast(bf), NEW h \in Handles, Live(bf[h]),
         bf[h].own
  PROVE  Below(bf, h)
<1> SUFFICES ASSUME NEW g \in Handles, Live(bf[g]), bf[g].block = bf[h].block
             PROVE  bf[g].w <= bf[h].w
  BY DEF Below
<1>1. bf[g].cell = bf[h].cell
  BY DEF Owns, OneCounter
<1>2. bf[h].w \in Nat
  BY DEF Indexed, InMemory
<1> QED
  BY <1>1, <1>2 DEF OwnerLast

\* An object either stays where it was, or is alone.
Follows(hp, x, s) ==
  \/ s.buf.cell = x.cell /\ s.buf.own = x.own /\ s.heap.count = hp.count
  \/ ~Shared(s.heap, s.buf)

\* OwnerLast after a step of one object: it has left the others, or has moved its end the
\* way its m_ownMemory allows.
LEMMA OwnerStays ==
  ASSUME NEW hp, NEW bf, Owns(hp, bf), Indexed(bf), OwnerLast(bf), NEW h \in Handles, Live(bf[h]),
         NEW s, Owns(s.heap, Put(bf, h, s.buf)), Live(s.buf), InMemory(s.buf), Follows(hp, bf[h], s),
         Shared(hp, bf[h]) /\ s.buf.cell = bf[h].cell =>
           IF bf[h].own THEN s.buf.w >= bf[h].w ELSE s.buf.w <= bf[h].w
  PROVE  OwnerLast(Put(bf, h, s.buf))
<1> DEFINE y == s.buf
           x == bf[h]
           bf1 == Put(bf, h, y)
<1>1. bf = [g \in Handles |-> bf[g]]
  BY DEF Owns, Shaped
<1>2. bf1[h] = y /\ \A g \in Handles : g # h => bf1[g] = bf[g]
  BY <1>1 DEF Put
<1>3. x.w \in Nat /\ y.w \in Nat /\ \A g \in Handles : Live(bf[g]) => bf[g].w \in Nat
  BY DEF InMemory, Indexed
<1> HIDE DEF bf1
<1>4. ASSUME NEW g \in Handles, g # h, Live(bf[g]), bf[g].cell = y.cell
      PROVE  /\ y.own => ~bf[g].own /\ bf[g].w <= y.w
             /\ bf[g].own => ~y.own /\ y.w <= bf[g].w
  <2>1. Shared(s.heap, y)
    <3>1. Owns(s.heap, bf1) /\ Live(bf1[h]) /\ Live(bf1[g]) /\ bf1[g].cell = bf1[h].cell
      BY <1>2, <1>4 DEF bf1
    <3>2. Shared(s.heap, bf1[h])
      BY <1>4, <3>1, Alone
    <3> QED
      BY <1>2, <3>2
  <2>2. y.cell = x.cell /\ y.own = x.own /\ Shared(hp, x)
    BY <2>1 DEF Follows, Shared
  <2>3. CASE x.own
    <3>1. ~bf[g].own /\ bf[g].w <= x.w
      BY <1>4, <2>2, <2>3 DEF OwnerLast
    <3>2. x.w <= y.w
      BY <1>3, <2>2, <2>3
    <3> QED
      BY <1>3, <1>4, <2>2, <2>3, <3>1, <3>2
  <2>4. CASE ~x.own
    <3>1. bf[g].own => x.w <= bf[g].w
      BY <1>4, <2>2 DEF OwnerLast
    <3>2. y.w <= x.w
      BY <1>3, <2>2, <2>4
    <3> QED
      BY <1>3, <1>4, <2>2, <2>4, <3>1, <3>2
  <2> QED
    BY <2>3, <2>4
<1> HIDE DEF y
<1>5. OwnerLast(bf1)
  BY <1>1, <1>4, LastOne DEF bf1
<1> QED
  BY <1>5 DEF bf1, y

\* The three kinds of step below do what Follows says.
LEMMA EnsureFollows ==
  ASSUME NEW hp, NEW bf, Owns(hp, bf), Indexed(bf), NEW h \in Handles, Live(bf[h]),
         NEW len \in Nat
  PROVE  Follows(hp, bf[h], ensureWriteableBytes(hp, bf[h], len))
<1> DEFINE x == bf[h]
           s == ensureWriteableBytes(hp, x, len)
<1>1. CASE writableBytes(x) >= len
  BY <1>1 DEF ensureWriteableBytes, Follows
<1>2. CASE ~(writableBytes(x) >= len) /\ x.own
  <2>1. s = Replaced(hp, x, len) \/ s = Compacted(hp, x)
    BY <1>2 DEF ensureWriteableBytes, makeSpace
  <2>2. s.buf.cell = x.cell /\ s.buf.own = x.own
    BY <2>1 DEF Replaced, Compacted, Fields
  <2>3. s.heap.count = hp.count
    <3>1. hp = Heap(hp.mem, hp.count)
      BY DEF Owns, Shaped
    <3> QED
      BY <2>1, <3>1 DEF Replaced, Compacted, Heap
  <2> QED
    BY <2>2, <2>3 DEF Follows
<1>3. CASE ~(writableBytes(x) >= len) /\ ~x.own
  <2>1. s = makeOwnBuffer(hp, x, len)
    BY <1>3 DEF ensureWriteableBytes
  <2>2. InMemory(x)
    BY DEF Indexed
  <2> HIDE DEF s
  <2>3. ~Shared(s.heap, s.buf)
    BY <2>1, <2>2, MakeOwnKeeps
  <2> QED
    BY <2>3 DEF Follows, s
<1> QED
  BY <1>1, <1>2, <1>3

\* Bytes that are written change neither counters nor who has which.
LEMMA WrittenFollows ==
  ASSUME NEW hp, NEW x, NEW s, Follows(hp, x, s), s.heap = Heap(s.heap.mem, s.heap.count),
         IsFields(s.buf), NEW data
  PROVE  Follows(hp, x, Written(s, data))
<1> DEFINE t == Written(s, data)
<1>1. t.heap.count = s.heap.count
  BY DEF Written, Heap
<1>2. t.buf.cell = s.buf.cell /\ t.buf.own = s.buf.own
  <2> DEFINE y == s.buf
  <2>1. t.buf = [y EXCEPT !.w = @ + Len(data)]
    BY DEF Written
  <2>2. y = Fields(y.block, y.r, y.w, y.cap, y.own, y.cell)
    BY DEF IsFields
  <2> HIDE DEF y, t
  <2> QED
    BY <2>1, <2>2 DEF Fields, y
<1> HIDE DEF t
<1> QED
  BY <1>1, <1>2 DEF Follows, Shared, t

\* append.
LEMMA AppendedFollows ==
  ASSUME NEW hp, NEW bf, Owns(hp, bf), Indexed(bf), NEW h \in Handles, Live(bf[h]),
         NEW data \in Seq(Nat)
  PROVE  Follows(hp, bf[h], appended(hp, bf[h], data))
<1> DEFINE e == ensureWriteableBytes(hp, bf[h], Len(data))
<1>1. Len(data) \in Nat
  BY NatSeq
<1>2. Follows(hp, bf[h], e)
  BY <1>1, EnsureFollows
<1>3. IsFields(e.buf)
  <2>1. InMemory(bf[h])
    BY DEF Indexed
  <2>2. InMemory(e.buf)
    BY <1>1, <2>1, EnsureWriteableMakesRoom
  <2> QED
    BY <2>2 DEF InMemory
<1>4. e.heap = Heap(e.heap.mem, e.heap.count)
  <2> DEFINE x == bf[h]
             R == Replaced(hp, x, Len(data))
             C == Compacted(hp, x)
             M == makeOwnBuffer(hp, x, Len(data))
  <2>1. e = [heap |-> hp, buf |-> x] \/ e = R \/ e = C \/ e = M
    BY DEF ensureWriteableBytes, makeSpace
  <2>2. hp = Heap(hp.mem, hp.count)
    BY DEF Owns, Shaped
  <2>3. R.heap = Heap(R.heap.mem, R.heap.count) /\ C.heap = Heap(C.heap.mem, C.heap.count)
    BY <2>2 DEF Replaced, Compacted, Heap
  <2>4. M.heap = Heap(M.heap.mem, M.heap.count)
    <3>1. Owns(M.heap, [bf EXCEPT ![h] = M.buf])
      <4>1. InMemory(bf[h])
        BY DEF Indexed
      <4> QED
        BY <1>1, <4>1, MakeOwnKeeps
    <3> HIDE DEF M
    <3> QED
      BY <3>1 DEF Owns, Shaped
  <2> HIDE DEF e, R, C, M
  <2> QED
    BY <2>1, <2>2, <2>3, <2>4
<1> HIDE DEF e
<1>5. Follows(hp, bf[h], Written(e, data))
  BY <1>2, <1>3, <1>4, WrittenFollows
<1> QED
  BY <1>5 DEF appended, e

\* readFd, with and without extraBuf.
LEMMA ReadFollows ==
  ASSUME NEW hp, NEW bf, Owns(hp, bf), Indexed(bf), NEW h \in Handles, Live(bf[h]),
         NEW data \in Seq(Nat)
  PROVE  Follows(hp, bf[h], readFd(hp, bf[h], data))
<1> DEFINE x == bf[h]
           n == writableBytes(x)
           r == [heap |-> hp, buf |-> x]
           front == SubSeq(data, 1, n)
           full == Written(r, front)
           rest == SubSeq(data, n + 1, Len(data))
           s == readFd(hp, x, data)
<1>1. InMemory(x) /\ IsFields(x) /\ n \in Nat /\ hp = Heap(hp.mem, hp.count)
  <2>1. InMemory(x) /\ IsFields(x) /\ x.w \in Nat /\ x.cap \in Nat /\ x.w <= x.cap
    BY DEF Indexed, InMemory
  <2>2. n \in Nat
    BY <2>1 DEF writableBytes
  <2> QED
    BY <2>1, <2>2 DEF Owns, Shaped
<1>2. r.heap = hp /\ r.buf = x
  OBVIOUS
<1> HIDE DEF r
<1>3. Follows(hp, x, r) /\ r.heap = Heap(r.heap.mem, r.heap.count) /\ IsFields(r.buf)
  BY <1>1, <1>2 DEF Follows
<1>4. CASE Len(data) <= n
  <2>1. s = Written(r, data)
    BY <1>4 DEF readFd, r
  <2> QED
    BY <1>3, <2>1, WrittenFollows
<1>5. CASE ~(Len(data) <= n)
  <2>1. s = appended(full.heap, full.buf, rest)
    BY <1>5 DEF readFd, r
  <2>2. front \in Seq(Nat) /\ Len(front) = n /\ rest \in Seq(Nat) /\ front \in Seq(Int)
    <3> HIDE DEF n
    <3>1. front \in Seq(Nat) /\ Len(front) = n
      BY <1>1, <1>5, NatSeq, SubSeqProperties, ElementOfSeq
    <3>2. rest \in Seq(Nat)
      BY <1>1, <1>5, NatSeq, SubSeqProperties, ElementOfSeq
    <3> QED
      BY <3>1, <3>2, NatSeq
  <2> DEFINE bf1 == Put(bf, h, full.buf)
  <2>3. bf1[h] = full.buf
    BY DEF Put, Owns, Shaped
  <2> HIDE DEF bf1, front, rest
  <2>4. Owns(full.heap, bf1) /\ Live(full.buf)
    <3>1. Len(front) <= writableBytes(bf[h]) /\ r.heap = hp /\ r.buf = bf[h]
      BY <1>1, <1>2, <2>2
    <3> QED
      BY <2>2, <3>1, WrittenKeeps DEF bf1
  <2>5. Indexed(bf1)
    <3>1. InMemory(full.buf)
      <4>1. InMemory(r.buf) /\ Len(front) <= writableBytes(r.buf)
        BY <1>1, <1>2, <2>2
      <4> HIDE DEF n
      <4> QED
        BY <2>2, <4>1, WrittenInMemory
    <3> HIDE DEF full
    <3>2. bf = [g \in Handles |-> bf[g]]
      BY DEF Owns, Shaped
    <3> QED
      BY <3>1, <3>2, OneIndexed DEF bf1, Put
  <2>6. Follows(hp, x, full)
    BY <1>3, WrittenFollows
  <2> HIDE DEF full
  <2>7. Follows(full.heap, full.buf, s)
    BY <2>1, <2>2, <2>3, <2>4, <2>5, AppendedFollows
  <2> HIDE DEF s
  <2>8. Follows(hp, x, s)
    <3>1. full.buf.cell = x.cell /\ full.buf.own = x.own /\ full.heap.count = hp.count
      <4>1. full.buf = [x EXCEPT !.w = @ + Len(front)] /\ full.heap.count = hp.count
        BY <1>1, <1>2 DEF full, Written, Heap
      <4> HIDE DEF x
      <4>2. x = Fields(x.block, x.r, x.w, x.cap, x.own, x.cell)
        BY <1>1 DEF IsFields
      <4> QED
        BY <4>1, <4>2 DEF Fields
    <3> QED
      BY <2>7, <3>1 DEF Follows
  <2> QED
    BY <2>8 DEF s
<1> QED
  BY <1>4, <1>5

\* The harms one by one.
LEMMA HarmIs ==
  ASSUME NEW x, NEW y
  PROVE  /\ Shared(heap, x) /\ Moves(x, y) => "moved" \in Harm(x, y)
         /\ Shared(heap, x) /\ Rewinds(x, y) => "rewound" \in Harm(x, y)
         /\ Shared(heap, x) /\ Writes(x, y) => "written" \in Harm(x, y)
         /\ Shared(heap, x) /\ x.own /\ y.block = x.block /\ y.w < x.w => "rewound" \in Harm(x, y)
         /\ "swapped" \notin Harm(x, y)
  BY DEF Harm, Rewinds, Writes, Moves

\* Every object of the state has its indexes in memory, and the functions are functions.
LEMMA StateIs ==
  ASSUME BufInv
  PROVE  Indexed(buf) /\ buf = [h \in Handles |-> buf[h]] /\ total \in Nat
  BY UsableInMemory DEF BufInv, Indexed, Usable, Live

\* An object takes bytes, gets room for some or skips some; after that it is to show d.
LEMMA ObjectStep ==
  ASSUME Inv, Defined, NEW h \in Handles, Usable(h), NEW s, NEW harm, NEW d,
         heap' = s.heap, buf' = Put(buf, h, s.buf), misuse' = misuse \cup harm,
         holds' = [holds EXCEPT ![h] = d],
         InMemory(s.buf), Follows(heap, buf[h], s),
         Harm(buf[h], s.buf) \subseteq harm, "swapped" \notin harm,
         "moved" \notin harm => /\ Owns(s.heap, Put(buf, h, s.buf)) /\ Live(s.buf)
                                /\ Bytes(heap, buf[h]) = holds[h] => Bytes(s.heap, s.buf) = d,
         harm = {} => \/ buf[h].own /\ ~Below(buf, h)
                      \/ OthersKeep(heap, s.heap, buf, h)
  PROVE  MemInv' /\ ByteInv'
<1> DEFINE x == buf[h]
           y == s.buf
           bf1 == Put(buf, h, y)
<1>1. /\ Owns(heap, buf) /\ Indexed(buf) /\ Live(buf[h]) /\ InMemory(x)
      /\ buf = [g \in Handles |-> buf[g]] /\ holds = [g \in Handles |-> holds[g]]
  BY StateIs DEF Inv, MemInv, ByteInv, Usable, Live, Indexed
<1>2. MemInv'
  <2>1. SUFFICES ASSUME Defined' PROVE Owns(heap', buf')
    BY DEF MemInv
  <2>2. "moved" \notin harm
    BY <2>1 DEF Defined
  <2> QED
    BY <2>2
<1>3. ByteInv'
  <2>1. holds' = [g \in Handles |-> holds'[g]]
    BY <1>1
  <2>2. ASSUME misuse' = {} PROVE OwnerLast(buf') /\ Showing(heap', buf', holds')
    <3>1. harm = {} /\ misuse = {}
      BY <2>2
    <3>2. OwnerLast(buf) /\ Showing(heap, buf, holds)
      BY <3>1 DEF Inv, ByteInv
    <3>3. Owns(s.heap, bf1) /\ Live(y) /\ (Bytes(heap, x) = holds[h] => Bytes(s.heap, y) = d)
      BY <3>1
    <3>4. Shared(heap, x) => ~Moves(x, y) /\ ~Rewinds(x, y) /\ ~Writes(x, y)
                             /\ ~(x.own /\ y.block = x.block /\ y.w < x.w)
      BY <3>1, HarmIs
    <3>5. OwnerLast(bf1)
      <4>1. ASSUME Shared(heap, x), y.cell = x.cell
            PROVE  IF x.own THEN y.w >= x.w ELSE y.w <= x.w
        <5>1. y.block = x.block
          BY <3>4, <4>1 DEF Moves
        <5>2. x.w \in Nat /\ y.w \in Nat
          BY <1>1 DEF InMemory
        <5> QED
          BY <3>4, <4>1, <5>1, <5>2 DEF Writes
      <4> QED
        BY <1>1, <3>2, <3>3, <4>1, OwnerStays
    <3>6. OthersKeep(heap, s.heap, buf, h)
      BY <1>1, <3>1, <3>2, OwnerBelow
    <3>7. Bytes(heap, x) = holds[h]
      BY <1>1, <3>2 DEF Showing
    <3>8. Bytes(s.heap, y) = d
      BY <3>3, <3>7
    <3> HIDE DEF bf1, y
    <3>9. Showing(s.heap, bf1, [holds EXCEPT ![h] = d])
      BY <1>1, <3>2, <3>6, <3>8, ShowOne DEF bf1
    <3> QED
      BY <3>5, <3>9 DEF bf1, y
  <2> QED
    BY <2>1, <2>2 DEF ByteInv
<1> QED
  BY <1>2, <1>3

\* An object whose indexes alone change has its memory as before.
LEMMA WindowOwns ==
  ASSUME NEW hp, NEW bf, Owns(hp, bf), NEW h \in Handles, Live(bf[h]),
         NEW y, y.block = bf[h].block, y.cell = bf[h].cell, y.cap = bf[h].cap
  PROVE  Owns(hp, Put(bf, h, y)) /\ Live(y)
<1> DEFINE v == hp.mem[y.block]
<1>1. Live(y) /\ v \in [0 .. y.cap - 1 -> Int]
  BY DEF Live, Owns, Held
<1>2. Heap([hp.mem EXCEPT ![y.block] = v], hp.count) = hp
  <2>1. hp = Heap(hp.mem, hp.count) /\ hp.mem = [b \in Allocations |-> hp.mem[b]]
    BY DEF Owns, Shaped
  <2>2. [hp.mem EXCEPT ![y.block] = v] = hp.mem
    BY <2>1
  <2> QED
    BY <2>1, <2>2
<1> HIDE DEF v
<1>3. Owns(Heap([hp.mem EXCEPT ![y.block] = v], hp.count), [bf EXCEPT ![h] = y])
  BY <1>1, RewriteOwns
<1> QED
  BY <1>1, <1>2, <1>3 DEF Put

\* The bytes from the a-th to the b-th of an object, as those of another in its memory.
LEMMA WindowShows ==
  ASSUME NEW hp, NEW x, InMemory(x), hp.mem[x.block] \in [0 .. x.cap - 1 -> Int],
         NEW a \in Nat \ {0}, NEW b \in Nat, a <= b + 1, b <= readableBytes(x),
         NEW y, y.block = x.block, y.r = x.r + a - 1, y.w = x.r + b
  PROVE  Bytes(hp, y) = Window(Bytes(hp, x), a, b)
<1> DEFINE B == Bytes(hp, x)
           n == readableBytes(x)
<1>1. n \in Nat /\ x.r \in Nat /\ x.w \in Nat /\ x.cap \in Nat /\ x.w <= x.cap /\ n = x.w - x.r
  BY DEF InMemory, readableBytes
<1>2. B \in Seq(Int) /\ Len(B) = n /\ \A i \in 1 .. n : B[i] = hp.mem[x.block][x.r + i - 1]
  BY BytesAre
<1> DEFINE m == b - a + 1
<1>3. m \in Nat /\ readableBytes(y) = m
  BY <1>1 DEF readableBytes
<1>4. \A i \in a .. b : B[i] \in Int
  <2> HIDE DEF B
  <2>1. \A i \in a .. b : i \in 1 .. Len(B)
    BY <1>1, <1>2
  <2> QED
    BY <1>2, <2>1, ElementOfSeq
<1>5. /\ SubSeq(B, a, b) \in Seq(Int) /\ Len(SubSeq(B, a, b)) = m
      /\ \A i \in 1 .. m : SubSeq(B, a, b)[i] = B[a + i - 1]
  <2> HIDE DEF B
  <2> QED
    BY <1>3, <1>4, SubSeqProperties
<1>6. \A i \in 1 .. m : hp.mem[y.block][y.r + i - 1] = B[a + i - 1]
  <2> HIDE DEF B
  <2> SUFFICES ASSUME NEW i \in 1 .. m PROVE hp.mem[y.block][y.r + i - 1] = B[a + i - 1]
    OBVIOUS
  <2>1. a + i - 1 \in 1 .. n /\ y.r + i - 1 = x.r + (a + i - 1) - 1
    BY <1>1
  <2> QED
    BY <1>2, <2>1
<1>7. SubSeq(B, a, b) = [i \in 1 .. m |-> SubSeq(B, a, b)[i]]
  <2> DEFINE C == SubSeq(B, a, b)
  <2>1. C \in Seq(Int) /\ Len(C) = m
    BY <1>5
  <2> HIDE DEF C, m
  <2>2. C \in [1 .. m -> Int]
    BY <2>1, LenProperties
  <2>3. C = [i \in 1 .. m |-> C[i]]
    BY <2>2
  <2> QED
    BY <2>3 DEF C
<1> HIDE DEF B, m
<1>8. Bytes(hp, y) = [i \in 1 .. m |-> hp.mem[y.block][y.r + i - 1]]
  BY <1>3 DEF Bytes
<1> QED
  BY <1>5, <1>6, <1>7, <1>8 DEF B, Window

\* The steps of one object.
LEMMA WriteSteps ==
  ASSUME Inv, NEW h \in Handles, NEW len \in 1 .. MaxLen,
         Appends(h, len) \/ ReadFd(h, len) \/ WriteN(h, len)
  PROVE  MemInv' /\ ByteInv'
<1> DEFINE x == buf[h]
           data == Data(len)
<1>1. /\ Defined /\ Usable(h) /\ Live(buf[h]) /\ Owns(heap, buf) /\ Indexed(buf) /\ InMemory(buf[h])
      /\ holds = [g \in Handles |-> holds[g]]
  <2>1. Defined /\ Usable(h)
    BY DEF Appends, ReadFd, WriteN, Fills
  <2> QED
    BY <2>1, StateIs DEF Inv, MemInv, ByteInv, Usable, Live, Indexed
<1>2. data \in Seq(Nat) /\ Len(data) = len /\ data # <<>>
  <2>1. data \in Seq(Nat) /\ Len(data) = len
    BY BufferAssumption, DataIsSeq DEF Inv, BufInv
  <2> HIDE DEF data
  <2>2. Len(data) # 0
    BY <2>1
  <2> QED
    BY <2>1, <2>2
<1>3. ASSUME NEW s, NEW harm, Fills(h, len, s, harm),
             InMemory(s.buf), Follows(heap, buf[h], s),
             Harm(buf[h], s.buf) \subseteq harm, "swapped" \notin harm,
             "moved" \notin harm => /\ Owns(s.heap, Put(buf, h, s.buf)) /\ Live(s.buf)
                                    /\ Bytes(s.heap, s.buf) = Joined(Bytes(heap, buf[h]), data),
             harm = {} => \/ buf[h].own /\ ~Below(buf, h)
                          \/ OthersKeep(heap, s.heap, buf, h)
      PROVE  MemInv' /\ ByteInv'
  <2> DEFINE d == Joined(holds[h], data)
  <2>1. /\ heap' = s.heap /\ buf' = Put(buf, h, s.buf) /\ misuse' = misuse \cup harm
        /\ holds' = [holds EXCEPT ![h] = d]
    BY <1>3 DEF Fills, Put, Joined
  <2>2. "moved" \notin harm => /\ Owns(s.heap, Put(buf, h, s.buf)) /\ Live(s.buf)
                               /\ Bytes(heap, buf[h]) = holds[h] => Bytes(s.heap, s.buf) = d
    BY <1>3
  <2> HIDE DEF d
  <2> QED
    BY <1>1, <1>3, <2>1, <2>2, ObjectStep
<1>4. CASE Appends(h, len)
  <2> DEFINE s == appended(heap, x, data)
  <2>1. Fills(h, len, s, Harm(x, s.buf))
    BY <1>4 DEF Appends
  <2>2. InMemory(s.buf)
    BY <1>1, <1>2, AppendedInMemory
  <2>3. Follows(heap, x, s)
    BY <1>1, <1>2, AppendedFollows
  <2>4. /\ \/ Shared(heap, x) /\ Moves(x, s.buf)
           \/ /\ Owns(s.heap, Put(buf, h, s.buf)) /\ Live(s.buf)
              /\ Bytes(s.heap, s.buf) = Joined(Bytes(heap, x), data)
        /\ \/ /\ Shared(heap, x)
              /\ Moves(x, s.buf) \/ Rewinds(x, s.buf) \/ Writes(x, s.buf)
           \/ x.own /\ ~Below(buf, h)
           \/ OthersKeep(heap, s.heap, buf, h)
    BY <1>1, <1>2, AppendedKeeps
  <2> HIDE DEF s, data
  <2> QED
    BY <1>3, <2>1, <2>2, <2>3, <2>4, HarmIs
<1>5. CASE ReadFd(h, len)
  <2> DEFINE s == readFd(heap, x, data)
             z == Filled(x, len)
             harm == Harm(x, z) \cup Harm(x, s.buf)
  <2>1. Fills(h, len, s, harm)
    BY <1>5 DEF ReadFd
  <2>2. InMemory(s.buf)
    BY <1>1, <1>2, ReadInMemory
  <2>3. Follows(heap, x, s)
    BY <1>1, <1>2, ReadFollows
  <2>4. /\ \/ Shared(heap, x) /\ Moves(x, s.buf)
           \/ /\ Owns(s.heap, Put(buf, h, s.buf)) /\ Live(s.buf)
              /\ Bytes(s.heap, s.buf) = Joined(Bytes(heap, x), data)
        /\ \/ /\ Shared(heap, x)
              /\ \/ Moves(x, s.buf) \/ Rewinds(x, s.buf) \/ Writes(x, s.buf)
                 \/ Writes(x, Filled(x, Len(data)))
           \/ x.own /\ ~Below(buf, h)
           \/ OthersKeep(heap, s.heap, buf, h)
    BY <1>1, <1>2, ReadKeeps
  <2>5. Writes(x, Filled(x, Len(data))) <=> Writes(x, z)
    BY <1>2
  <2> HIDE DEF s, data, z
  <2>6. "swapped" \notin harm /\ Harm(x, s.buf) \subseteq harm
    BY HarmIs
  <2>7. "moved" \notin harm => ~(Shared(heap, x) /\ Moves(x, s.buf))
    BY HarmIs
  <2>8. harm = {} => ~(/\ Shared(heap, x)
                       /\ \/ Moves(x, s.buf) \/ Rewinds(x, s.buf) \/ Writes(x, s.buf)
                          \/ Writes(x, z))
    BY HarmIs
  <2> HIDE DEF harm
  <2> QED
    BY <1>3, <2>1, <2>2, <2>3, <2>4, <2>5, <2>6, <2>7, <2>8
<1>6. CASE WriteN(h, len)
  <2> DEFINE r == [heap |-> heap, buf |-> x]
             s == Written(r, data)
  <2>1. Fills(h, len, s, Harm(x, s.buf)) /\ len <= writableBytes(buf[h])
    BY <1>6 DEF WriteN
  <2>2. r.heap = heap /\ r.buf = buf[h] /\ Len(data) <= writableBytes(buf[h])
    BY <1>2, <2>1
  <2> HIDE DEF r, data
  <2>3. InMemory(s.buf)
    BY <1>1, <1>2, <2>2, WrittenInMemory
  <2>4. Follows(heap, x, s)
    <3>1. Follows(heap, x, r) /\ r.heap = Heap(r.heap.mem, r.heap.count) /\ IsFields(r.buf)
      BY <1>1, <2>2 DEF Follows, Owns, Shaped, InMemory
    <3> QED
      BY <3>1, WrittenFollows
  <2>5. /\ Owns(s.heap, Put(buf, h, s.buf)) /\ Live(s.buf)
        /\ Bytes(s.heap, s.buf) = Joined(Bytes(heap, buf[h]), data)
        /\ \/ Shared(heap, buf[h]) /\ Writes(buf[h], s.buf)
           \/ buf[h].own /\ ~Below(buf, h)
           \/ OthersKeep(heap, s.heap, buf, h)
    BY <1>1, <1>2, <2>2, InPlaceKeeps
  <2> HIDE DEF s
  <2> QED
    BY <1>3, <2>1, <2>3, <2>4, <2>5, HarmIs
<1> QED
  BY <1>4, <1>5, <1>6

\* ensureWriteableBytes and makeOwnBuffer.
LEMMA RoomSteps ==
  ASSUME Inv, NEW h \in Handles, NEW len \in 1 .. MaxLen,
         EnsureWriteable(h, len) \/ MakeOwn(h, len)
  PROVE  MemInv' /\ ByteInv'
<1> DEFINE x == buf[h]
<1>1. /\ Defined /\ Usable(h) /\ Live(buf[h]) /\ Owns(heap, buf) /\ Indexed(buf) /\ InMemory(buf[h])
      /\ holds = [g \in Handles |-> holds[g]] /\ len \in Nat
  <2>1. Defined /\ Usable(h)
    BY DEF EnsureWriteable, MakeOwn, MakesRoom
  <2> QED
    BY <2>1, StateIs, BufferAssumption DEF Inv, MemInv, ByteInv, Usable, Live, Indexed
<1>2. ASSUME NEW s, MakesRoom(h, len, s), InMemory(s.buf), Follows(heap, buf[h], s),
             \/ Shared(heap, x) /\ Moves(x, s.buf)
             \/ /\ Owns(s.heap, [buf EXCEPT ![h] = s.buf]) /\ Live(s.buf)
                /\ Bytes(s.heap, s.buf) = Bytes(heap, x),
             \/ Shared(heap, x) /\ (Moves(x, s.buf) \/ Rewinds(x, s.buf))
             \/ OthersKeep(heap, s.heap, buf, h)
      PROVE  MemInv' /\ ByteInv'
  <2> DEFINE d == holds[h]
             harm == Harm(x, s.buf)
  <2>1. /\ heap' = s.heap /\ buf' = Put(buf, h, s.buf) /\ misuse' = misuse \cup harm
        /\ holds' = [holds EXCEPT ![h] = d]
    BY <1>1, <1>2 DEF MakesRoom, Put
  <2>2. "moved" \notin harm => /\ Owns(s.heap, Put(buf, h, s.buf)) /\ Live(s.buf)
                               /\ Bytes(heap, buf[h]) = holds[h] => Bytes(s.heap, s.buf) = d
    BY <1>2, HarmIs DEF Put
  <2>3. harm = {} => OthersKeep(heap, s.heap, buf, h)
    BY <1>2, HarmIs
  <2>4. "swapped" \notin harm /\ Harm(buf[h], s.buf) \subseteq harm
    BY HarmIs
  <2> HIDE DEF d, harm
  <2> QED
    BY <1>1, <1>2, <2>1, <2>2, <2>3, <2>4, ObjectStep
<1>3. CASE EnsureWriteable(h, len)
  <2> DEFINE s == ensureWriteableBytes(heap, x, len)
  <2>1. MakesRoom(h, len, s)
    BY <1>3 DEF EnsureWriteable
  <2>2. InMemory(s.buf) /\ Follows(heap, x, s)
    BY <1>1, EnsureWriteableMakesRoom, EnsureFollows
  <2>3. /\ \/ Shared(heap, x) /\ Moves(x, s.buf)
           \/ /\ Owns(s.heap, [buf EXCEPT ![h] = s.buf]) /\ Live(s.buf)
              /\ Bytes(s.heap, s.buf) = Bytes(heap, x)
        /\ \/ Shared(heap, x) /\ (Moves(x, s.buf) \/ Rewinds(x, s.buf))
           \/ OthersKeep(heap, s.heap, buf, h)
    BY <1>1, EnsureKeeps
  <2> HIDE DEF s
  <2> QED
    BY <1>2, <2>1, <2>2, <2>3
<1>4. CASE MakeOwn(h, len)
  <2> DEFINE s == makeOwnBuffer(heap, x, len)
  <2>1. MakesRoom(h, len, s)
    BY <1>4 DEF MakeOwn
  <2>2. InMemory(s.buf)
    BY <1>1, OwnInMemory
  <2>3. /\ Owns(s.heap, [buf EXCEPT ![h] = s.buf]) /\ Live(s.buf) /\ ~Shared(s.heap, s.buf)
        /\ Bytes(s.heap, s.buf) = Bytes(heap, x) /\ OthersKeep(heap, s.heap, buf, h)
    BY <1>1, MakeOwnKeeps
  <2> HIDE DEF s
  <2>4. Follows(heap, x, s)
    BY <2>3 DEF Follows
  <2> QED
    BY <1>2, <2>1, <2>2, <2>3, <2>4
<1> QED
  BY <1>3, <1>4

\* skip.
LEMMA SkipStep ==
  ASSUME Inv, NEW h \in Handles, NEW len \in 0 .. MaxLen, Skip(h, len)
  PROVE  MemInv' /\ ByteInv'
<1> DEFINE x == buf[h]
           y == skip(x, len)
           n == readableBytes(x)
           s == [heap |-> heap, buf |-> y]
           d == SubSeq(holds[h], len + 1, Len(holds[h]))
           harm == Harm(x, y)
<1>1. /\ Defined /\ Usable(h) /\ Live(x) /\ Owns(heap, buf) /\ Indexed(buf) /\ InMemory(x)
      /\ holds = [g \in Handles |-> holds[g]] /\ buf = [g \in Handles |-> buf[g]] /\ len \in Nat
      /\ heap.mem[x.block] \in [0 .. x.cap - 1 -> Int]
  <2>1. Defined /\ Usable(h)
    BY DEF Skip
  <2>2. Live(x) /\ Owns(heap, buf) /\ Indexed(buf)
    BY <2>1, StateIs DEF Inv, MemInv, Usable, Live
  <2> QED
    BY <2>1, <2>2, StateIs, BufferAssumption DEF Inv, ByteInv, Indexed, Owns, Held
<1>2. /\ heap' = heap /\ buf' = Put(buf, h, y) /\ holds' = [holds EXCEPT ![h] = d]
      /\ misuse' = misuse \cup harm
  <2>1. buf'[h] = y
    BY <1>1 DEF Skip
  <2> QED
    BY <2>1 DEF Skip, Put
<1>3. /\ y = IF len < n THEN Fields(x.block, x.r + len, x.w, x.cap, x.own, x.cell)
                        ELSE Fields(x.block, KPrependSize, KPrependSize, x.cap, x.own, x.cell)
      /\ x.r \in Nat /\ x.w \in Nat /\ x.cap \in Nat /\ KPrependSize <= x.r /\ x.r <= x.w
      /\ x.w <= x.cap /\ n = x.w - x.r /\ n \in Nat
  <2>1. x = Fields(x.block, x.r, x.w, x.cap, x.own, x.cell)
    BY <1>1 DEF InMemory, IsFields
  <2> HIDE DEF x
  <2>2. [x EXCEPT !.r = @ + len] = Fields(x.block, x.r + len, x.w, x.cap, x.own, x.cell)
    BY <2>1 DEF Fields
  <2> QED
    BY <1>1, <2>2 DEF skip, InMemory, readableBytes
<1> HIDE DEF y, d
<1>4. /\ y.block = x.block /\ y.cell = x.cell /\ y.cap = x.cap /\ y.own = x.own
      /\ y.r = (IF len < n THEN x.r + len ELSE KPrependSize)
      /\ y.w = (IF len < n THEN x.w ELSE KPrependSize)
  <2> HIDE DEF x, n
  <2> QED
    BY <1>3 DEF Fields
<1>5. InMemory(y)
  <2> HIDE DEF x, n
  <2> QED
    BY <1>1, <1>3, BufferAssumption DEF InMemory, IsFields, Fields
<1>6. Owns(heap, Put(buf, h, y)) /\ Live(y)
  BY <1>1, <1>4, WindowOwns
<1>7. Bytes(heap, x) = holds[h] => Bytes(heap, y) = d
  <2> SUFFICES ASSUME Bytes(heap, x) = holds[h] PROVE Bytes(heap, y) = d
    OBVIOUS
  <2> DEFINE B == Bytes(heap, x)
  <2>1. d = SubSeq(B, len + 1, n)
    <3>1. Len(B) = n
      BY <1>1, BytesAre
    <3> QED
      BY <3>1 DEF d
  <2>2. CASE len < n
    <3> HIDE DEF x
    <3>1. y.r = x.r + (len + 1) - 1 /\ y.w = x.r + n
      BY <1>1, <1>3, <1>4, <2>2
    <3> HIDE DEF n
    <3>2. n <= readableBytes(x)
      BY <1>3 DEF n
    <3>3. len + 1 \in Nat \ {0} /\ len + 1 <= n + 1
      BY <1>1, <1>3, <2>2
    <3> DEFINE a == len + 1
    <3>4. InMemory(x) /\ heap.mem[x.block] \in [0 .. x.cap - 1 -> Int] /\ y.block = x.block
          /\ a \in Nat \ {0} /\ n \in Nat /\ a <= n + 1 /\ y.r = x.r + a - 1
      BY <1>1, <1>3, <1>4, <3>1, <3>3
    <3> HIDE DEF a
    <3>5. Bytes(heap, y) = Window(Bytes(heap, x), a, n)
      BY <3>1, <3>2, <3>4, WindowShows
    <3> QED
      BY <2>1, <3>5 DEF a, Window
  <2>3. CASE ~(len < n)
    <3>1. readableBytes(y) = 0
      BY <1>4, <2>3, BufferAssumption DEF readableBytes
    <3>2. Bytes(heap, y) = <<>>
      BY <3>1 DEF Bytes
    <3>3. SubSeq(B, len + 1, n) = <<>>
      <4> HIDE DEF B, n
      <4> QED
        BY <1>1, <1>3, <2>3, SubSeqEmpty
    <3> QED
      BY <2>1, <3>2, <3>3
  <2> QED
    BY <2>2, <2>3
<1>8. Follows(heap, x, s) /\ s.heap = heap /\ s.buf = y
  BY <1>4 DEF Follows
<1>9. OthersKeep(heap, s.heap, buf, h)
  BY DEF OthersKeep
<1>10. "swapped" \notin harm
  BY HarmIs
<1> HIDE DEF s
<1>11. Harm(buf[h], s.buf) \subseteq harm
  BY <1>8
<1> HIDE DEF harm
<1> QED
  BY <1>1, <1>2, <1>5, <1>6, <1>7, <1>8, <1>9, <1>10, <1>11, ObjectStep

-----------------------------------------------------------------------------
(* Slices, copies, moves, construction and destruction.                     *)

\* The bytes of all objects stay when memory is counted or given up.
LEMMA ReferencedKeeps ==
  ASSUME NEW hp, NEW bf, Owns(hp, bf), NEW x
  PROVE  /\ Referenced(hp, x).mem = hp.mem
         /\ \A z : Bytes(Referenced(hp, x), z) = Bytes(hp, z)
<1>1. hp = Heap(hp.mem, hp.count)
  BY DEF Owns, Shaped
<1>2. Referenced(hp, x).mem = hp.mem
  BY <1>1 DEF Referenced, Heap
<1> QED
  BY <1>2 DEF Bytes

\* The destructor's part of a destruction or an assignment, whether the object has
\* memory or not.
LEMMA GivenUp ==
  ASSUME NEW hp, NEW bf, Owns(hp, bf), NEW h \in Handles, NEW z, ~Live(z)
  PROVE  /\ Owns(Released(hp, bf[h]), Put(bf, h, z))
         /\ OthersKeep(hp, Released(hp, bf[h]), bf, h)
<1>1. bf = [g \in Handles |-> bf[g]] /\ hp.mem = [b \in Allocations |-> hp.mem[b]]
  BY DEF Owns, Shaped
<1>2. CASE Live(bf[h])
  <2>1. Owns(Released(hp, bf[h]), Put(bf, h, z))
    BY <1>2, ReleasedOwns DEF Put
  <2>2. ASSUME NEW g \in Handles, g # h, Live(bf[g])
        PROVE  Released(hp, bf[h]).mem[bf[g].block] = hp.mem[bf[g].block]
    <3>1. CASE hp.count[bf[h].cell] = 1
      <4>1. Released(hp, bf[h]).mem = [hp.mem EXCEPT ![bf[h].block] = Free]
        BY <1>2, <3>1 DEF Released, Live
      <4>2. bf[g].block # bf[h].block
        BY <1>2, <2>2, <3>1, CountIs, Alone
      <4>3. bf[g].block \in Allocations
        BY <2>2 DEF Owns, Held
      <4> QED
        BY <1>1, <4>1, <4>2, <4>3
    <3>2. CASE hp.count[bf[h].cell] # 1
      <4>1. hp = Heap(hp.mem, hp.count)
        BY DEF Owns, Shaped
      <4>2. Released(hp, bf[h]).mem = hp.mem
        BY <1>2, <3>2, <4>1 DEF Released, Live, Heap
      <4> QED
        BY <4>2
    <3> QED
      BY <3>1, <3>2
  <2> DEFINE hp1 == Released(hp, bf[h])
  <2> HIDE DEF hp1
  <2>3. OthersKeep(hp, hp1, bf, h)
    BY <2>2, OtherBlocks DEF hp1
  <2> QED
    BY <2>1, <2>3 DEF hp1
<1>3. CASE ~Live(bf[h])
  <2>1. Released(hp, bf[h]) = hp
    BY <1>3 DEF Released, Live
  <2> DEFINE bf1 == Put(bf, h, z)
  <2>2. /\ bf1[h] = z /\ \A g \in Handles : g # h => bf1[g] = bf[g]
        /\ bf1 = [g \in Handles |-> bf1[g]]
    BY <1>1 DEF Put
  <2>3. \A g \in Handles : /\ Live(bf1[g]) <=> Live(bf[g])
                           /\ Live(bf[g]) => bf1[g] = bf[g]
    BY <1>3, <2>2
  <2> HIDE DEF bf1
  <2>4. \A c : Sharing(bf1, c) = Sharing(bf, c)
    BY <2>3 DEF Sharing
  <2>5. Shaped(hp, bf1) /\ Held(hp, bf1) /\ OneCounter(bf1)
    <3>1. Shaped(hp, bf1)
      BY <2>2 DEF Owns, Shaped
    <3>2. Held(hp, bf1)
      BY <2>3 DEF Owns, Held
    <3>3. OneCounter(bf)
      BY DEF Owns
    <3>4. OneCounter(bf1)
      BY <2>3, <3>3 DEF OneCounter
    <3> QED
      BY <3>1, <3>2, <3>4
  <2>6. Counted(hp, bf1)
    BY <2>4 DEF Owns, Counted
  <2>7. NoLeak(hp, bf1)
    BY <2>3 DEF Owns, NoLeak
  <2>8. Owns(hp, bf1)
    BY <2>5, <2>6, <2>7 DEF Owns
  <2>9. OthersKeep(hp, hp, bf, h)
    BY DEF OthersKeep
  <2> QED
    BY <2>1, <2>8, <2>9 DEF bf1
<1> QED
  BY <1>2, <1>3

\* A slice or a copy of an object, taken by one without memory.
LEMMA ShareKeeps ==
  ASSUME NEW hp, NEW bf, Owns(hp, bf), Indexed(bf), NEW h \in Handles, Live(bf[h]),
         NEW g \in Handles, ~Live(bf[g]),
         NEW y, y.block = bf[h].block, y.cell = bf[h].cell, y.cap = bf[h].cap,
         y.own = FALSE, y.w \in Nat, y.w <= bf[h].w
  PROVE  /\ Owns(Referenced(hp, bf[h]), Put(bf, g, y)) /\ Live(y)
         /\ OwnerLast(bf) => OwnerLast(Put(bf, g, y))
<1>1. Live(y)
  BY DEF Live
<1>2. Owns(Referenced(hp, bf[h]), [bf EXCEPT ![g] = y])
  BY <1>1, ReferencedOwns
<1>3. ASSUME OwnerLast(bf) PROVE OwnerLast(Put(bf, g, y))
  <2>1. ASSUME NEW i \in Handles, i # g, Live(bf[i]), bf[i].cell = y.cell
        PROVE  bf[i].own => y.w <= bf[i].w
    <3>1. bf[i].own => bf[h].w <= bf[i].w
      <4>1. bf[i].w \in Nat
        BY <2>1 DEF Indexed, InMemory
      <4> QED
        BY <1>3, <2>1, <4>1 DEF OwnerLast
    <3>2. bf[i].w \in Nat /\ bf[h].w \in Nat
      BY <2>1 DEF Indexed, InMemory
    <3> QED
      BY <3>1, <3>2
  <2>2. bf = [i \in Handles |-> bf[i]]
    BY DEF Owns, Shaped
  <2> QED
    BY <1>3, <2>1, <2>2, LastOne
<1> QED
  BY <1>1, <1>2, <1>3 DEF Put

\* One object takes its place or leaves; the others keep what they show.
LEMMA PlaceTaken ==
  ASSUME ByteInv, buf = [g \in Handles |-> buf[g]], NEW h \in Handles, NEW hp, NEW y, NEW d,
         heap' = hp, buf' = Put(buf, h, y), holds' = [holds EXCEPT ![h] = d], misuse' = misuse,
         OwnerLast(buf) => OwnerLast(Put(buf, h, y)),
         OthersKeep(heap, hp, buf, h), Live(y) /\ Showing(heap, buf, holds) => Bytes(hp, y) = d
  PROVE  ByteInv'
<1>1. holds' = [g \in Handles |-> holds'[g]]
  BY DEF ByteInv
<1>2. ASSUME misuse' = {} PROVE OwnerLast(buf') /\ Showing(heap', buf', holds')
  <2>1. OwnerLast(buf) /\ Showing(heap, buf, holds)
    BY <1>2 DEF ByteInv
  <2>2. Showing(hp, Put(buf, h, y), [holds EXCEPT ![h] = d])
    BY <2>1, ShowOne DEF ByteInv
  <2> QED
    BY <2>1, <2>2
<1> QED
  BY <1>1, <1>2 DEF ByteInv

\* slice.
LEMMA SliceStep ==
  ASSUME Inv, NEW h \in Handles, NEW g \in Handles, NEW offset \in 0 .. MaxLen, NEW length \in 0 .. MaxLen,
         Slice(h, offset, length, g)
  PROVE  MemInv' /\ ByteInv'
<1> DEFINE x == buf[h]
           n == readableBytes(x)
           a == offset + 1
           b == offset + length
           y == Fields(x.block, x.r + offset, x.r + offset + length, x.cap, FALSE, x.cell)
           hp1 == Referenced(heap, x)
           d == SubSeq(holds[h], a, b)
<1>1. /\ Defined /\ Usable(h) /\ Live(buf[h]) /\ Owns(heap, buf) /\ Indexed(buf) /\ InMemory(buf[h])
      /\ buf = [i \in Handles |-> buf[i]] /\ MaxLen \in Nat
      /\ heap.mem[x.block] \in [0 .. x.cap - 1 -> Int]
  <2>1. Defined /\ Usable(h)
    BY DEF Slice
  <2>2. Live(x) /\ Owns(heap, buf) /\ Indexed(buf)
    BY <2>1, StateIs DEF Inv, MemInv, Usable, Live
  <2> QED
    BY <2>1, <2>2, StateIs, BufferAssumption DEF Inv, Indexed, Owns, Held
<1>2. /\ buf[g] = NoObject /\ offset + length <= n
      /\ heap' = hp1 /\ buf' = Put(buf, g, y) /\ holds' = [holds EXCEPT ![g] = d] /\ misuse' = misuse
  BY DEF Slice, Put
<1>3. ~Live(buf[g])
  BY <1>2 DEF NoObject, Fields, Live
<1>4. /\ x.r \in Nat /\ x.w \in Nat /\ x.r <= x.w /\ n = x.w - x.r /\ n \in Nat
      /\ offset \in Nat /\ length \in Nat
      /\ a \in Nat \ {0} /\ b \in Nat /\ a <= b + 1 /\ b <= n
  BY <1>1, <1>2, SMTT(30) DEF InMemory, readableBytes
<1>5. /\ y.block = x.block /\ y.cell = x.cell /\ y.cap = x.cap /\ y.own = FALSE
      /\ y.r = x.r + a - 1 /\ y.w = x.r + b /\ y.w \in Nat /\ y.w <= x.w
  <2>1. /\ y.block = x.block /\ y.cell = x.cell /\ y.cap = x.cap /\ y.own = FALSE
        /\ y.r = x.r + offset /\ y.w = x.r + offset + length
    BY DEF Fields
  <2> HIDE DEF x, y, n
  <2> QED
    BY <1>4, <2>1
<1> HIDE DEF y, a, b
<1>6. Owns(hp1, Put(buf, g, y)) /\ (OwnerLast(buf) => OwnerLast(Put(buf, g, y)))
  BY <1>1, <1>3, <1>5, ShareKeeps
<1>7. ASSUME Showing(heap, buf, holds) PROVE Bytes(hp1, y) = d
  <2>1. Bytes(heap, y) = Window(Bytes(heap, x), a, b)
    <3>1. /\ InMemory(x) /\ heap.mem[x.block] \in [0 .. x.cap - 1 -> Int]
          /\ y.block = x.block /\ y.r = x.r + a - 1 /\ y.w = x.r + b
          /\ a \in Nat \ {0} /\ b \in Nat /\ a <= b + 1 /\ b <= readableBytes(x)
      BY <1>1, <1>4, <1>5
    <3> HIDE DEF x
    <3> QED
      BY <3>1, WindowShows
  <2>2. Bytes(heap, x) = holds[h] /\ Bytes(hp1, y) = Bytes(heap, y)
    BY <1>1, <1>7, ReferencedKeeps DEF Showing
  <2> QED
    BY <2>1, <2>2 DEF Window
<1>8. OthersKeep(heap, hp1, buf, g)
  BY <1>1, ReferencedKeeps DEF OthersKeep
<1> HIDE DEF d, hp1
<1>9. ByteInv'
  BY <1>1, <1>2, <1>6, <1>7, <1>8, PlaceTaken DEF Inv
<1>10. MemInv'
  BY <1>2, <1>6 DEF MemInv
<1> QED
  BY <1>9, <1>10

\* The constructor.
LEMMA ConstructStep ==
  ASSUME Inv, NEW h \in Handles, NEW size \in InitialSizes, Construct(h, size)
  PROVE  MemInv' /\ ByteInv'
<1> DEFINE b == FreshBlock(heap)
           c == FreshCell(heap)
           cap == KPrependSize + size
           v == Allocated(cap, <<>>)
           y == Fields(b, KPrependSize, KPrependSize, cap, TRUE, c)
           hp1 == Heap([heap.mem EXCEPT ![b] = v], [heap.count EXCEPT ![c] = 1])
<1>1. /\ Defined /\ Owns(heap, buf) /\ buf = [i \in Handles |-> buf[i]] /\ size \in Nat
      /\ cap \in Nat \ {0} /\ KPrependSize \in Nat
  <2>1. Defined /\ size \in Nat /\ KPrependSize \in Nat \ {0}
    BY BufferAssumption DEF Construct
  <2> QED
    BY <2>1, StateIs DEF Inv, MemInv
<1>2. /\ buf[h] = NoObject /\ heap' = hp1 /\ buf' = Put(buf, h, y)
      /\ holds' = [holds EXCEPT ![h] = <<>>] /\ misuse' = misuse
  BY DEF Construct, Heap, Put
<1>3. ~Live(buf[h])
  BY <1>2 DEF NoObject, Fields, Live
<1>4. b \in Allocations /\ heap.mem[b] = Free /\ c \in Allocations /\ heap.count[c] = 0
  BY <1>1, FreshIsFree
<1>5. c # None
  BY <1>4, BufferAssumption DEF Allocations
<1>6. v \in [0 .. cap - 1 -> Int]
  <2>1. <<>> \in Seq(Int)
    OBVIOUS
  <2> HIDE DEF cap
  <2> QED
    BY <1>1, <2>1, AllocatedIs
<1>7. heap.mem = [i \in Allocations |-> heap.mem[i]]
  BY <1>1 DEF Owns, Shaped
<1> HIDE DEF b, c, v, cap
<1>8. /\ y.block = b /\ y.cell = c /\ y.cap = cap /\ y.own = TRUE /\ Live(y)
      /\ y.r = KPrependSize /\ y.w = KPrependSize
  BY <1>5 DEF Fields, Live
<1>9. Bytes(hp1, y) = <<>>
  <2> HIDE DEF hp1, y
  <2>1. readableBytes(y) = 0
    BY <1>1, <1>8 DEF readableBytes
  <2> QED
    BY <2>1 DEF Bytes
<1> HIDE DEF y
<1>10. Owns(hp1, Put(buf, h, y))
  BY <1>1, <1>3, <1>4, <1>6, <1>8, AllocatedOwns DEF Put
<1>11. ASSUME NEW g \in Handles, Live(buf[g])
       PROVE  buf[g].cell # c /\ hp1.mem[buf[g].block] = heap.mem[buf[g].block]
  <2>1. heap.count[buf[g].cell] # 0
    BY <1>1, <1>11, CountIs
  <2>2. buf[g].block \in Allocations /\ 0 \in DOMAIN heap.mem[buf[g].block]
    BY <1>1, <1>11 DEF Owns, Held
  <2>3. buf[g].block # b
    BY <1>4, <2>2 DEF Free
  <2> QED
    BY <1>4, <1>7, <2>1, <2>2, <2>3 DEF Heap
<1> HIDE DEF hp1
<1>12. OwnerLast(buf) => OwnerLast(Put(buf, h, y))
  BY <1>1, <1>8, <1>11, LastOne
<1>13. OthersKeep(heap, hp1, buf, h)
  BY <1>11, OtherBlocks
<1>14. ByteInv'
  BY <1>1, <1>2, <1>9, <1>12, <1>13, PlaceTaken DEF Inv
<1>15. MemInv'
  BY <1>2, <1>10 DEF MemInv
<1> QED
  BY <1>14, <1>15

\* The destructor.
LEMMA DestroyStep ==
  ASSUME Inv, NEW h \in Handles, Destroy(h)
  PROVE  MemInv' /\ ByteInv'
<1> DEFINE hp1 == Released(heap, buf[h])
<1>1. /\ Owns(heap, buf) /\ buf = [i \in Handles |-> buf[i]] /\ ~Live(NoObject)
      /\ heap' = hp1 /\ buf' = Put(buf, h, NoObject)
      /\ holds' = [holds EXCEPT ![h] = <<>>] /\ misuse' = misuse
  BY StateIs DEF Destroy, Put, Inv, MemInv, NoObject, Fields, Live
<1>2. Owns(hp1, Put(buf, h, NoObject)) /\ OthersKeep(heap, hp1, buf, h)
  BY <1>1, GivenUp
<1>3. OwnerLast(buf) => OwnerLast(Put(buf, h, NoObject))
  BY <1>1, LastOne
<1> HIDE DEF hp1
<1>4. ByteInv'
  BY <1>1, <1>2, <1>3, PlaceTaken DEF Inv
<1>5. MemInv'
  BY <1>1, <1>2 DEF MemInv
<1> QED
  BY <1>4, <1>5

\* slicePacket: the packet is a window of the front of the bytes, its buffer keeps the rest.
LEMMA SlicePacketStep ==
  ASSUME Inv, NEW h \in Handles, NEW g \in Handles, NEW length \in Nat,
         SlicePacket(h, length, g)
  PROVE  MemInv' /\ ByteInv'
<1> DEFINE x == buf[h]
           n == readableBytes(x)
           a == length + 1
           y == Fields(x.block, x.r, x.r + length, x.cap, FALSE, x.cell)
           z == Fields(x.block, x.r + length, x.w, x.cap, x.own, x.cell)
           hp1 == Referenced(heap, x)
           bf1 == Put(buf, g, y)
           d == SubSeq(holds[h], 1, length)
           e == SubSeq(holds[h], a, Len(holds[h]))
           hd1 == [holds EXCEPT ![g] = d]
<1>1. /\ Defined /\ Usable(h) /\ Live(buf[h]) /\ Owns(heap, buf) /\ Indexed(buf) /\ InMemory(buf[h])
      /\ buf = [i \in Handles |-> buf[i]] /\ MaxLen \in Nat
      /\ heap.mem[x.block] \in [0 .. x.cap - 1 -> Int]
      /\ holds = [i \in Handles |-> holds[i]]
  <2>1. Defined /\ Usable(h)
    BY DEF SlicePacket
  <2>2. Live(x) /\ Owns(heap, buf) /\ Indexed(buf)
    BY <2>1, StateIs DEF Inv, MemInv, Usable, Live
  <2> QED
    BY <2>1, <2>2, StateIs, BufferAssumption DEF Inv, Indexed, Owns, Held, ByteInv
<1>2. buf[g] = NoObject /\ length <= n
  BY DEF SlicePacket
<1>3. ~Live(buf[g]) /\ g # h
  BY <1>1, <1>2 DEF NoObject, Fields, Live
<1>4. /\ heap' = hp1 /\ buf' = Put(bf1, h, z) /\ holds' = [hd1 EXCEPT ![h] = e] /\ misuse' = misuse
  <2>1. [x EXCEPT !.r = @ + length] = z
    <3>1. x = Fields(x.block, x.r, x.w, x.cap, x.own, x.cell)
      BY <1>1 DEF InMemory, IsFields
    <3> HIDE DEF x
    <3> QED
      BY <3>1 DEF Fields
  <2>2. buf' = [buf EXCEPT ![g] = y, ![h] = [x EXCEPT !.r = @ + length]]
    BY <1>1, <1>3 DEF SlicePacket
  <2>3. holds' = [holds EXCEPT ![g] = d, ![h] = e]
    BY <1>1, <1>3 DEF SlicePacket
  <2> HIDE DEF y, z
  <2> QED
    BY <1>1, <1>3, <2>1, <2>2, <2>3 DEF SlicePacket, Put
<1>5. /\ x.r \in Nat /\ x.w \in Nat /\ x.r <= x.w /\ n = x.w - x.r /\ n \in Nat
      /\ length \in Nat /\ length <= n
  BY <1>1, <1>2 DEF InMemory, readableBytes
<1>6. /\ y.block = x.block /\ y.cell = x.cell /\ y.cap = x.cap /\ y.own = FALSE
      /\ y.r = x.r /\ y.w = x.r + length /\ y.w \in Nat /\ y.w <= x.w
      /\ z.block = x.block /\ z.cell = x.cell /\ z.cap = x.cap /\ z.own = x.own
      /\ z.r = x.r + length /\ z.w = x.w
  <2>1. /\ y.block = x.block /\ y.cell = x.cell /\ y.cap = x.cap /\ y.own = FALSE
        /\ y.r = x.r /\ y.w = x.r + length
        /\ z.block = x.block /\ z.cell = x.cell /\ z.cap = x.cap /\ z.own = x.own
        /\ z.r = x.r + length /\ z.w = x.w
    BY DEF Fields
  <2> HIDE DEF x, y, z, n
  <2> QED
    BY <1>5, <2>1
<1> HIDE DEF y, z, a
<1>7. Owns(hp1, bf1) /\ Live(y) /\ (OwnerLast(buf) => OwnerLast(bf1))
  BY <1>1, <1>3, <1>6, ShareKeeps
<1>8. bf1 = [i \in Handles |-> bf1[i]] /\ bf1[h] = x /\ hd1 = [i \in Handles |-> hd1[i]]
  BY <1>1, <1>3 DEF Put
<1>9. OthersKeep(heap, hp1, buf, g) /\ OthersKeep(hp1, hp1, bf1, h)
      /\ Bytes(hp1, y) = Bytes(heap, y) /\ Bytes(hp1, z) = Bytes(heap, z)
  BY <1>1, ReferencedKeeps DEF OthersKeep
<1> HIDE DEF bf1, hp1
<1>10. Owns(hp1, Put(bf1, h, z))
  BY <1>1, <1>6, <1>7, <1>8, WindowOwns
<1>11. ASSUME Showing(heap, buf, holds) PROVE Bytes(hp1, y) = d /\ Bytes(hp1, z) = e
  <2>1. Bytes(heap, x) = holds[h] /\ Len(holds[h]) = n
    <3>1. Bytes(heap, x) = holds[h]
      BY <1>1, <1>11 DEF Showing
    <3>2. Len(Bytes(heap, x)) = n
      BY <1>1, BytesAre
    <3> QED
      BY <3>1, <3>2
  <2>2. Bytes(heap, y) = Window(Bytes(heap, x), 1, length)
    <3> DEFINE i == 1
    <3>1. /\ InMemory(x) /\ heap.mem[x.block] \in [0 .. x.cap - 1 -> Int]
          /\ y.block = x.block /\ y.r = x.r + i - 1 /\ y.w = x.r + length
          /\ i \in Nat \ {0} /\ length \in Nat /\ i <= length + 1 /\ length <= readableBytes(x)
      BY <1>1, <1>5, <1>6
    <3> HIDE DEF x, i
    <3>2. Bytes(heap, y) = Window(Bytes(heap, x), i, length)
      BY <3>1, WindowShows
    <3> QED
      BY <3>2 DEF i
  <2>3. Bytes(heap, z) = Window(Bytes(heap, x), a, n)
    <3>1. /\ InMemory(x) /\ heap.mem[x.block] \in [0 .. x.cap - 1 -> Int]
          /\ z.block = x.block /\ z.r = x.r + a - 1 /\ z.w = x.r + n
          /\ a \in Nat \ {0} /\ n \in Nat /\ a <= n + 1 /\ n <= readableBytes(x)
      BY <1>1, <1>5, <1>6, SMTT(30) DEF a
    <3> HIDE DEF x, n, d, e
    <3>2. ASSUME NEW j \in Nat, z.w = x.r + j, a <= j + 1, j <= readableBytes(x)
          PROVE  Bytes(heap, z) = Window(Bytes(heap, x), a, j)
      BY <3>1, <3>2, WindowShows
    <3> QED
      BY <3>1, <3>2
  <2> QED
    BY <1>9, <2>1, <2>2, <2>3 DEF Window
<1>12. OwnerLast(bf1) => OwnerLast(Put(bf1, h, z))
  <2> SUFFICES ASSUME OwnerLast(bf1) PROVE OwnerLast(Put(bf1, h, z))
    OBVIOUS
  <2>1. ASSUME NEW i \in Handles, i # h, Live(bf1[i]), bf1[i].cell = z.cell
        PROVE  /\ z.own => ~bf1[i].own /\ bf1[i].w <= z.w
               /\ bf1[i].own => ~z.own /\ z.w <= bf1[i].w
    BY <1>1, <1>6, <1>8, <2>1 DEF OwnerLast
  <2> QED
    BY <1>8, <2>1, LastOne
<1>13. ByteInv'
  <2>1. holds' = [i \in Handles |-> holds'[i]]
    BY <1>4, <1>8
  <2>2. ASSUME misuse' = {} PROVE OwnerLast(buf') /\ Showing(heap', buf', holds')
    <3>1. OwnerLast(buf) /\ Showing(heap, buf, holds)
      BY <1>4, <2>2 DEF Inv, ByteInv
    <3>2. Bytes(hp1, y) = d /\ Bytes(hp1, z) = e
      BY <1>11, <3>1
    <3> HIDE DEF d, e
    <3>3. Showing(hp1, bf1, hd1)
      BY <1>1, <1>9, <3>1, <3>2, ShowOne DEF bf1
    <3> HIDE DEF hd1
    <3>4. Showing(hp1, Put(bf1, h, z), [hd1 EXCEPT ![h] = e])
      BY <1>8, <1>9, <3>2, <3>3, ShowOne
    <3> QED
      BY <1>4, <1>7, <1>12, <3>1, <3>4
  <2> QED
    BY <2>1, <2>2 DEF ByteInv
<1>14. MemInv'
  BY <1>4, <1>10 DEF MemInv
<1> QED
  BY <1>13, <1>14

\* The copy constructor and the copy assignment.
LEMMA CopyStep ==
  ASSUME Inv, NEW h \in Handles, NEW g \in Handles, Copy(h, g)
  PROVE  MemInv' /\ ByteInv'
<1> DEFINE x == buf[h]
           y == Fields(x.block, x.r, x.w, x.cap, FALSE, x.cell)
           hp0 == Released(heap, buf[g])
           bf0 == Put(buf, g, NoObject)
           hp1 == Referenced(hp0, x)
<1>1. /\ Defined /\ Usable(h) /\ Live(buf[h]) /\ Owns(heap, buf) /\ Indexed(buf) /\ InMemory(buf[h])
      /\ buf = [i \in Handles |-> buf[i]] /\ g # h /\ ~Live(NoObject)
  <2>1. Defined /\ Usable(h) /\ g # h /\ ~Live(NoObject)
    BY DEF Copy, NoObject, Fields, Live
  <2>2. Live(x) /\ Owns(heap, buf) /\ Indexed(buf)
    BY <2>1, StateIs DEF Inv, MemInv, Usable, Live
  <2> QED
    BY <2>1, <2>2, StateIs DEF Inv, Indexed
<1>2. /\ heap' = hp1 /\ buf' = Put(buf, g, y) /\ holds' = [holds EXCEPT ![g] = holds[h]] /\ misuse' = misuse
  BY DEF Copy, Put
<1>3. /\ y.block = x.block /\ y.cell = x.cell /\ y.cap = x.cap /\ y.own = FALSE
      /\ y.r = x.r /\ y.w = x.w /\ x.w \in Nat
  BY <1>1 DEF Fields, InMemory
<1> HIDE DEF y
<1>4. Owns(hp0, bf0) /\ OthersKeep(heap, hp0, buf, g)
  BY <1>1, GivenUp
<1>5. OwnerLast(buf) => OwnerLast(bf0)
  BY <1>1, LastOne
<1>6. bf0[h] = x /\ bf0[g] = NoObject /\ Put(bf0, g, y) = Put(buf, g, y)
      /\ bf0 = [i \in Handles |-> bf0[i]]
      /\ \A i \in Handles : Live(bf0[i]) => bf0[i] = buf[i]
  BY <1>1 DEF Put
<1> HIDE DEF hp0, bf0
<1>7. Indexed(bf0)
  BY <1>1, <1>6 DEF Indexed
<1>8. Owns(hp1, Put(bf0, g, y)) /\ (OwnerLast(bf0) => OwnerLast(Put(bf0, g, y)))
  <2>1. /\ Live(bf0[h]) /\ ~Live(bf0[g]) /\ y.block = bf0[h].block /\ y.cell = bf0[h].cell
        /\ y.cap = bf0[h].cap /\ y.own = FALSE /\ y.w \in Nat /\ y.w <= bf0[h].w
    BY <1>1, <1>3, <1>6
  <2>2. hp1 = Referenced(hp0, bf0[h])
    BY <1>6
  <2> HIDE DEF x, hp1
  <2>3. /\ Owns(Referenced(hp0, bf0[h]), Put(bf0, g, y))
        /\ OwnerLast(bf0) => OwnerLast(Put(bf0, g, y))
    BY <1>4, <1>7, <2>1, ShareKeeps
  <2> QED
    BY <2>2, <2>3
<1>9. OthersKeep(heap, hp1, buf, g)
  BY <1>4, ReferencedKeeps DEF OthersKeep
<1>10. ASSUME Showing(heap, buf, holds) PROVE Bytes(hp1, y) = holds[h]
  <2>1. Bytes(hp1, y) = Bytes(hp0, y) /\ Bytes(hp0, x) = Bytes(heap, x)
    BY <1>1, <1>4, ReferencedKeeps DEF OthersKeep
  <2>2. Bytes(hp0, y) = Bytes(hp0, x)
    BY <1>3, SameBytes DEF readableBytes
  <2> QED
    BY <1>1, <1>10, <2>1, <2>2 DEF Showing
<1> HIDE DEF hp1
<1>11. ByteInv'
  BY <1>1, <1>2, <1>5, <1>6, <1>8, <1>9, <1>10, PlaceTaken DEF Inv
<1>12. MemInv'
  BY <1>2, <1>6, <1>8 DEF MemInv
<1> QED
  BY <1>11, <1>12

\* The move constructor and the move assignment.
LEMMA MoveStep ==
  ASSUME Inv, NEW h \in Handles, NEW g \in Handles, MoveTo(h, g)
  PROVE  MemInv' /\ ByteInv'
<1> DEFINE x == buf[h]
           z == Fields(None, KPrependSize, KPrependSize, 0, x.own, None)
           hp1 == Released(heap, buf[g])
           bf0 == Put(buf, g, NoObject)
           bf1 == Put(bf0, h, z)
           hd0 == [holds EXCEPT ![g] = <<>>]
           hd1 == [hd0 EXCEPT ![h] = <<>>]
           d == holds[h]
<1>1. /\ Defined /\ Usable(h) /\ Live(buf[h]) /\ Owns(heap, buf)
      /\ buf = [i \in Handles |-> buf[i]] /\ g # h /\ ~Live(NoObject) /\ ~Live(z)
      /\ holds = [i \in Handles |-> holds[i]]
  <2>1. Defined /\ Usable(h) /\ g # h /\ ~Live(NoObject) /\ ~Live(z)
    BY DEF MoveTo, NoObject, Fields, Live
  <2>2. Live(x) /\ Owns(heap, buf)
    BY <2>1 DEF Inv, MemInv, Usable, Live
  <2> QED
    BY <2>1, <2>2, StateIs DEF Inv, ByteInv
<1>2. /\ heap' = hp1 /\ buf' = [buf EXCEPT ![g] = x, ![h] = z]
      /\ holds' = [holds EXCEPT ![g] = d, ![h] = <<>>] /\ misuse' = misuse
  <2>1. buf' = [buf EXCEPT ![g] = buf[h], ![h] = Fields(None, KPrependSize, KPrependSize, 0, @.own, None)]
    BY DEF MoveTo
  <2>2. buf' = [buf EXCEPT ![g] = x, ![h] = z]
    BY <1>1, <2>1
  <2> QED
    BY <2>2 DEF MoveTo
<1> HIDE DEF z
<1>3. /\ bf0 = [i \in Handles |-> bf0[i]] /\ bf0[h] = x /\ bf0[g] = NoObject
      /\ \A i \in Handles : Live(bf0[i]) => i # g /\ bf0[i] = buf[i]
      /\ bf1 = [i \in Handles |-> bf1[i]] /\ bf1[g] = NoObject
      /\ \A i \in Handles : Live(bf1[i]) => i # h /\ i # g /\ bf1[i] = buf[i]
  BY <1>1 DEF Put
<1>4. buf' = Put(bf1, g, x) /\ buf' = [bf0 EXCEPT ![g] = bf0[h], ![h] = z]
  BY <1>1, <1>2 DEF Put
<1>5. hd0 = [i \in Handles |-> hd0[i]] /\ hd1 = [i \in Handles |-> hd1[i]]
      /\ holds' = [hd1 EXCEPT ![g] = d]
  BY <1>1, <1>2
<1>6. Owns(hp1, bf0) /\ OthersKeep(heap, hp1, buf, g)
  BY <1>1, GivenUp
<1> HIDE DEF hp1
<1>7. OwnerLast(buf) => OwnerLast(bf0)
  BY <1>1, LastOne
<1>8. Owns(hp1, buf')
  <2> HIDE DEF bf0
  <2>1. Live(bf0[h]) /\ ~Live(bf0[g])
    BY <1>1, <1>3
  <2>2. Owns(hp1, [bf0 EXCEPT ![g] = bf0[h], ![h] = z])
    BY <1>1, <1>6, <2>1, MovedOwns
  <2> QED
    BY <1>4, <2>2
<1>9. OwnerLast(buf) => OwnerLast(Put(bf1, g, x))
  <2> SUFFICES ASSUME OwnerLast(buf) PROVE OwnerLast(Put(bf1, g, x))
    OBVIOUS
  <2>1. OwnerLast(bf1)
    <3> HIDE DEF bf0
    <3> QED
      BY <1>1, <1>3, <1>7, LastOne
  <2> HIDE DEF bf1
  <2>2. ASSUME NEW i \in Handles, i # g, Live(bf1[i]), bf1[i].cell = x.cell
        PROVE  /\ x.own => ~bf1[i].own /\ bf1[i].w <= x.w
               /\ bf1[i].own => ~x.own /\ x.w <= bf1[i].w
    <3>1. i # h /\ bf1[i] = buf[i]
      BY <1>3, <2>2
    <3> QED
      BY <1>1, <2>2, <3>1 DEF OwnerLast
  <2> HIDE DEF x
  <2> QED
    BY <1>3, <2>1, <2>2, LastOne
<1>10. ByteInv'
  <2>1. holds' = [i \in Handles |-> holds'[i]]
    BY <1>2, <1>1
  <2>2. ASSUME misuse' = {} PROVE OwnerLast(buf') /\ Showing(heap', buf', holds')
    <3>1. OwnerLast(buf) /\ Showing(heap, buf, holds)
      BY <1>2, <2>2 DEF Inv, ByteInv
    <3>2. Bytes(hp1, x) = d
      BY <1>1, <1>6, <3>1 DEF Showing, OthersKeep
    <3>3. Showing(hp1, bf0, hd0)
      BY <1>1, <1>6, <3>1, ShowOne
    <3> HIDE DEF bf0, hd0
    <3>4. OthersKeep(hp1, hp1, bf0, h)
      BY DEF OthersKeep
    <3>5. Showing(hp1, bf1, hd1)
      BY <1>1, <1>3, <1>5, <3>3, <3>4, ShowOne
    <3> HIDE DEF bf1, hd1, x, d
    <3>6. OthersKeep(hp1, hp1, bf1, g)
      BY DEF OthersKeep
    <3>7. Showing(hp1, Put(bf1, g, x), [hd1 EXCEPT ![g] = d])
      BY <1>3, <1>5, <3>2, <3>5, <3>6, ShowOne
    <3> QED
      BY <1>2, <1>4, <1>5, <1>9, <3>1, <3>7
  <2> QED
    BY <2>1, <2>2 DEF ByteInv
<1>11. MemInv'
  BY <1>2, <1>8 DEF MemInv
<1> QED
  BY <1>10, <1>11

\* swap.
LEMMA SwapStep ==
  ASSUME Inv, NEW h \in Handles, NEW g \in Handles, Swap(h, g)
  PROVE  MemInv' /\ ByteInv'
<1> DEFINE x == buf[h]
           y == buf[g]
           u == Fields(y.block, y.r, y.w, y.cap, x.own, x.cell)
           v == Fields(x.block, x.r, x.w, x.cap, y.own, y.cell)
           alone == ~Shared(heap, x) /\ ~Shared(heap, y)
           bf1 == Put(buf, h, u)
           hd1 == [holds EXCEPT ![h] = holds[g]]
<1>1. /\ Defined /\ Live(buf[h]) /\ Live(buf[g]) /\ Owns(heap, buf) /\ h # g
      /\ buf = [i \in Handles |-> buf[i]] /\ holds = [i \in Handles |-> holds[i]]
  <2>1. Defined /\ Live(x) /\ Live(y) /\ h # g
    BY DEF Swap, Usable, Live
  <2> QED
    BY <2>1, StateIs DEF Inv, MemInv, ByteInv
<1>2. /\ heap' = heap /\ buf' = [buf EXCEPT ![h] = u, ![g] = v]
      /\ holds' = [holds EXCEPT ![h] = holds[g], ![g] = holds[h]]
      /\ misuse' = IF alone THEN misuse ELSE misuse \cup {"swapped"}
  BY DEF Swap
<1>3. /\ u.cell = x.cell /\ u.block = y.block /\ u.cap = y.cap /\ u.r = y.r /\ u.w = y.w
      /\ v.cell = y.cell /\ v.block = x.block /\ v.cap = x.cap /\ v.r = x.r /\ v.w = x.w
  BY DEF Fields
<1> HIDE DEF u, v
<1>4. Defined' => alone
  BY <1>2 DEF Defined
<1>5. MemInv'
  <2> SUFFICES ASSUME alone PROVE Owns(heap, buf')
    BY <1>2, <1>4 DEF MemInv
  <2>1. ~Shared(heap, buf[h]) /\ ~Shared(heap, buf[g])
    OBVIOUS
  <2>2. Owns(heap, [buf EXCEPT ![h] = u, ![g] = v])
    BY <1>1, <1>3, <2>1, SwappedOwns
  <2> QED
    BY <1>2, <2>2
<1>6. ByteInv'
  <2>1. holds' = [i \in Handles |-> holds'[i]]
    BY <1>2, <1>1
  <2>2. ASSUME misuse' = {} PROVE OwnerLast(buf') /\ Showing(heap', buf', holds')
    <3>1. OwnerLast(buf) /\ Showing(heap, buf, holds) /\ ~Shared(heap, buf[h]) /\ ~Shared(heap, buf[g])
      BY <1>2, <2>2 DEF Inv, ByteInv
    <3>2. /\ \A i \in Handles : Live(buf[i]) /\ i # h => buf[i].cell # x.cell
          /\ \A i \in Handles : Live(buf[i]) /\ i # g => buf[i].cell # y.cell
      BY <1>1, <3>1, Alone
    <3>3. bf1[h] = u /\ bf1 = [i \in Handles |-> bf1[i]] /\ \A i \in Handles : i # h => bf1[i] = buf[i]
      BY <1>1 DEF Put
    <3>4. buf' = Put(bf1, g, v) /\ holds' = [hd1 EXCEPT ![g] = holds[h]]
          /\ hd1 = [i \in Handles |-> hd1[i]]
      BY <1>1, <1>2 DEF Put
    <3>5. OwnerLast(bf1)
      BY <1>1, <1>3, <3>1, <3>2, LastOne
    <3>6. OthersKeep(heap, heap, buf, h) /\ OthersKeep(heap, heap, bf1, g)
      BY DEF OthersKeep
    <3>7. Bytes(heap, u) = holds[g] /\ Bytes(heap, v) = holds[h]
      <4>1. Bytes(heap, u) = Bytes(heap, y) /\ Bytes(heap, v) = Bytes(heap, x)
        BY <1>3, SameBytes DEF readableBytes
      <4> QED
        BY <1>1, <3>1, <4>1 DEF Showing
    <3> DEFINE d == holds[g]
               e == holds[h]
    <3>8. Bytes(heap, u) = d /\ Bytes(heap, v) = e
      BY <3>7
    <3> HIDE DEF d, e
    <3>9. Showing(heap, bf1, [holds EXCEPT ![h] = d])
      BY <1>1, <3>1, <3>6, <3>8, ShowOne
    <3>10. Showing(heap, bf1, hd1)
      BY <3>9 DEF d
    <3> HIDE DEF bf1, hd1
    <3>11. OwnerLast(Put(bf1, g, v))
      <4>1. ASSUME NEW i \in Handles, i # g, Live(bf1[i]) PROVE bf1[i].cell # v.cell
        BY <1>1, <1>3, <3>2, <3>3, <4>1
      <4> QED
        BY <3>3, <3>5, <4>1, LastOne
    <3>12. Showing(heap, Put(bf1, g, v), [hd1 EXCEPT ![g] = e])
      BY <3>3, <3>4, <3>6, <3>8, <3>10, ShowOne
    <3> QED
      BY <1>2, <3>4, <3>11, <3>12 DEF e
  <2> QED
    BY <2>1, <2>2 DEF ByteInv
<1> QED
  BY <1>5, <1>6

\* Every step keeps the invariant.
LEMMA InvStep ==
  ASSUME Inv, [Next]_vars
  PROVE  Inv'
<1>1. BufInv'
  BY IndexStep DEF Inv
<1>2. MemInv' /\ ByteInv'
  <2>1. CASE UNCHANGED vars
    <3>1. heap' = heap /\ buf' = buf /\ holds' = holds /\ misuse' = misuse
      BY <2>1 DEF vars
    <3> QED
      BY <3>1 DEF Inv, MemInv, ByteInv, Defined
  <2>2. ASSUME NEW h \in Handles, NEW len \in 1 .. MaxLen,
               \/ Appends(h, len) \/ ReadFd(h, len) \/ WriteN(h, len)
               \/ EnsureWriteable(h, len) \/ MakeOwn(h, len)
        PROVE  MemInv' /\ ByteInv'
    BY <2>2, WriteSteps, RoomSteps
  <2>3. ASSUME NEW h \in Handles, NEW len \in 0 .. MaxLen, Skip(h, len)
        PROVE  MemInv' /\ ByteInv'
    BY <2>3, SkipStep
  <2>4. ASSUME NEW h \in Handles, NEW size \in InitialSizes, Construct(h, size)
        PROVE  MemInv' /\ ByteInv'
    BY <2>4, ConstructStep
  <2>5. ASSUME NEW h \in Handles, Destroy(h)
        PROVE  MemInv' /\ ByteInv'
    BY <2>5, DestroyStep
  <2>6. ASSUME NEW h \in Handles, NEW g \in Handles, NEW offset \in 0 .. MaxLen, NEW length \in 0 .. MaxLen,
               Slice(h, offset, length, g) \/ SlicePacket(h, length, g)
        PROVE  MemInv' /\ ByteInv'
    BY <2>6, SliceStep, SlicePacketStep
  <2>7. ASSUME NEW h \in Handles, NEW g \in Handles, Copy(h, g) \/ MoveTo(h, g) \/ Swap(h, g)
        PROVE  MemInv' /\ ByteInv'
    BY <2>7, CopyStep, MoveStep, SwapStep
  <2>8. ASSUME NEW h \in Handles, NEW g \in Handles, NEW length \in 0 .. MaxLen, SlicePacket(h, length, g)
        PROVE  MemInv' /\ ByteInv'
    BY <2>8, SlicePacketStep
  <2> QED
    BY <2>1, <2>2, <2>3, <2>4, <2>5, <2>6, <2>7, <2>8 DEF Next
<1> QED
  BY <1>1, <1>2 DEF Inv

\* No object, no memory.
LEMMA InitInv == Init => Inv
<1> SUFFICES ASSUME Init PROVE Inv
  OBVIOUS
<1>1. /\ buf = [h \in Handles |-> NoObject] /\ holds = [h \in Handles |-> <<>>]
      /\ heap.mem = [b \in Allocations |-> Free] /\ heap.count = [c \in Allocations |-> 0]
      /\ heap = Heap(heap.mem, heap.count)
  BY DEF Init, Heap
<1>2. \A h \in Handles : ~Live(buf[h]) /\ Ordered(buf[h])
  BY <1>1, BufferAssumption DEF Live, Ordered, IsFields, NoObject, Fields
<1>3. BufInv
  BY <1>1, <1>2 DEF BufInv, Init
<1>4. Counted(heap, buf)
  <2>1. \A c : Sharing(buf, c) = {}
    BY <1>2 DEF Sharing
  <2> QED
    BY <1>1, <2>1, FS_EmptySet DEF Counted
<1>5. Owns(heap, buf)
  <2>1. Shaped(heap, buf)
    <3> DEFINE m == heap.mem
               n == heap.count
    <3>1. m = [b \in Allocations |-> m[b]] /\ n = [c \in Allocations |-> n[c]]
      BY <1>1
    <3> QED
      BY <1>1, <3>1 DEF Shaped
  <2> QED
    BY <1>1, <1>2, <1>4, <2>1 DEF Owns, Held, OneCounter, NoLeak
<1>6. ByteInv
  BY <1>1, <1>2 DEF ByteInv, OwnerLast, Showing
<1> QED
  BY <1>3, <1>5, <1>6 DEF Inv, MemInv

\* The invariant says of the memory what the property asks.
LEMMA OwnedIs ==
  ASSUME Inv
  PROVE  MemoryOwned
<1> DEFINE Users == {h \in Handles : Usable(h)}
<1> SUFFICES ASSUME Defined
             PROVE
    /\ IndexesInMemory
    /\ \A h \in Users :
         /\ heap.mem[buf[h].block] # Free
         /\ DOMAIN heap.mem[buf[h].block] = 0..(buf[h].cap - 1)
         /\ heap.count[buf[h].cell] = Cardinality({g \in Users : buf[g].cell = buf[h].cell})
    /\ \A h, g \in Users : buf[h].block = buf[g].block <=> buf[h].cell = buf[g].cell
    /\ {b \in Allocations : heap.mem[b] # Free} = {buf[h].block : h \in Users}
    /\ {c \in Allocations : heap.count[c] # 0} = {buf[h].cell : h \in Users}
  BY DEF MemoryOwned
<1>1. Owns(heap, buf)
  BY DEF Inv, MemInv
<1>2. \A h \in Handles : h \in Users <=> Live(buf[h])
  BY DEF Usable, Live
<1>3. IndexesInMemory
  BY UsableInMemory DEF Inv, IndexesInMemory, InMemory
<1>4. ASSUME NEW h \in Users
      PROVE  /\ heap.mem[buf[h].block] # Free
             /\ DOMAIN heap.mem[buf[h].block] = 0..(buf[h].cap - 1)
             /\ heap.count[buf[h].cell] = Cardinality({g \in Users : buf[g].cell = buf[h].cell})
             /\ buf[h].block \in Allocations /\ buf[h].cell \in Allocations
  <2> DEFINE cap == buf[h].cap
             m == heap.mem[buf[h].block]
  <2>1. /\ buf[h].block \in Allocations /\ buf[h].cell \in Allocations /\ cap \in Nat \ {0}
        /\ m \in [0 .. cap - 1 -> Int]
    BY <1>1, <1>2 DEF Owns, Held
  <2>2. m # Free
    <3> HIDE DEF m, cap
    <3>1. DOMAIN m = 0 .. cap - 1 /\ 0 \in 0 .. cap - 1
      BY <2>1
    <3>2. 0 \in DOMAIN m
      BY <3>1
    <3>3. 0 \notin DOMAIN Free
      BY DEF Free
    <3> QED
      BY <3>2, <3>3
  <2>3. {g \in Users : buf[g].cell = buf[h].cell} = Sharing(buf, buf[h].cell)
    BY <1>2 DEF Sharing
  <2> QED
    BY <1>1, <2>1, <2>2, <2>3 DEF Owns, Counted
<1>5. \A h, g \in Users : buf[h].block = buf[g].block <=> buf[h].cell = buf[g].cell
  BY <1>1, <1>2 DEF Owns, OneCounter
<1>6. {b \in Allocations : heap.mem[b] # Free} = {buf[h].block : h \in Users}
  BY <1>1, <1>2, <1>4 DEF Owns, NoLeak
<1>7. {c \in Allocations : heap.count[c] # 0} = {buf[h].cell : h \in Users}
  <2>1. ASSUME NEW c \in Allocations, heap.count[c] # 0 PROVE \E h \in Users : buf[h].cell = c
    <3>1. Sharing(buf, c) # {}
      BY <1>1, <2>1, FS_EmptySet DEF Owns, Counted
    <3> QED
      BY <1>2, <3>1 DEF Sharing
  <2>2. ASSUME NEW h \in Users PROVE heap.count[buf[h].cell] # 0
    BY <1>1, <1>2, CountIs
  <2> HIDE DEF Users
  <2> QED
    BY <1>4, <2>1, <2>2, ZenonT(30)
<1> HIDE DEF Users
<1> QED
  BY <1>3, <1>4, <1>5, <1>6, <1>7

-----------------------------------------------------------------------------
(* The decoder on such a buffer: what it reads in the memory is the field    *)
(* that the sender wrote, because the buffer shows the bytes it holds.       *)

\* A buffer in step with a stream begins with a frame of it, and the byte that a user of
\* the memory finds at an offset is the stream's byte at that offset of the frame.
LEMMA InStepReads ==
  ASSUME Inv, NEW c \in Cases, NEW h \in Handles, InStep(c, h)
  PROVE  /\ Len(holds[h]) = readableBytes(buf[h]) /\ readableBytes(buf[h]) \in Nat
         /\ \A i \in Nat : i < readableBytes(buf[h]) =>
              heap.mem[buf[h].block][buf[h].r + i] = Head(holds[h]) + i
<1> DEFINE x == buf[h]
           n == readableBytes(x)
           B == Bytes(heap, x)
<1>1. B = holds[h] /\ InMemory(x) /\ Len(B) = n
  <2>1. misuse = {} /\ Defined /\ Live(x) /\ Usable(h)
    BY DEF InStep, Usable, Live, Defined
  <2>2. B = holds[h] /\ InMemory(x)
    BY <2>1, UsableInMemory DEF Inv, ByteInv, Showing
  <2>3. heap.mem[x.block] \in [0 .. x.cap - 1 -> Int]
    BY <2>1 DEF Inv, MemInv, Owns, Held
  <2> QED
    BY <2>2, <2>3, BytesAre
<1>2. n \in Nat /\ x.r \in Nat
  BY <1>1 DEF InMemory, readableBytes
<1>3. B = [i \in 1 .. n |-> heap.mem[x.block][x.r + i - 1]]
  BY DEF Bytes
<1> HIDE DEF B, x, n
<1>4. \A i \in 1 .. n : holds[h][i] = heap.mem[x.block][x.r + i - 1]
  BY <1>1, <1>3
<1>5. Len(holds[h]) = n /\ DOMAIN holds[h] = 1 .. n
  <2>1. DOMAIN B = 1 .. n
    BY <1>3
  <2> QED
    BY <1>1, <2>1
<1>6. \A i \in 1 .. n : holds[h][i] = Head(holds[h]) + i - 1
  BY <1>5 DEF InStep
<1>7. ASSUME NEW i \in Nat, i < n
      PROVE  heap.mem[x.block][x.r + i] = Head(holds[h]) + i
  <2> DEFINE j == i + 1
  <2>1. j \in 1 .. n /\ x.r + j - 1 = x.r + i
    BY <1>2, <1>7
  <2>2. holds[h][j] = heap.mem[x.block][x.r + j - 1] /\ holds[h][j] = Head(holds[h]) + j - 1
    BY <1>4, <1>6, <2>1
  <2>3. Head(holds[h]) \in Nat
    BY CaseAssumption DEF InStep, FrameStarts, WellFramed
  <2>4. Head(holds[h]) + j - 1 = Head(holds[h]) + i
    BY <2>3
  <2> QED
    BY <2>1, <2>2, <2>4
<1> QED
  BY <1>2, <1>5, <1>7 DEF n, x

\* The length that decode computes from the memory is that of the frame.
LEMMA DecodesFrame ==
  ASSUME Inv, NEW c \in Cases, NEW h \in Handles, InStep(c, h)
  PROVE  LET n == Len(NextFrame(c, h))
         IN  n \in Nat /\ decode(c, h) = IF n <= c.max /\ Len(holds[h]) >= n THEN n ELSE None
<1> DEFINE first == Head(holds[h])
           k == CHOOSE i \in DOMAIN c.frames : FrameStart(c, i) = first
           size == Len(c.frames[k])
           n == readableBytes(buf[h])
           at == buf[h].r + c.offset
           m == heap.mem[buf[h].block]
           field == [i \in 0 .. (c.length - 1) |-> Value(c, FrameStart(c, k) + c.offset + i)]
           read == [i \in 0 .. (c.length - 1) |-> Value(c, m[at + i])]
<1>1. k \in DOMAIN c.frames /\ FrameStart(c, k) = first
  BY DEF InStep, FrameStarts
<1>2. Len(NextFrame(c, h)) = size
  BY DEF NextFrame
<1> HIDE DEF k
<1>3. /\ c.offset \in Nat /\ c.length \in {1, 2, 4, 8} /\ c.max \in Nat
      /\ size \in Nat /\ first \in Nat /\ size >= c.length + c.offset
      /\ size = (c.offset + c.length + Worth(field) + c.adjustment) % SizeMod
  BY <1>1, CaseAssumption DEF WellFramed
<1>4. /\ Len(holds[h]) = n /\ n \in Nat
      /\ \A i \in Nat : i < n => m[buf[h].r + i] = first + i
  BY InStepReads
<1>5. buf[h].r \in Nat
  BY UsableInMemory DEF Inv, InStep, InMemory
<1>6. CASE n < c.length + c.offset
  <2>1. decode(c, h) = None
    BY <1>6 DEF decode
  <2>2. ~(Len(holds[h]) >= size)
    BY <1>3, <1>4, <1>6
  <2> QED
    BY <1>2, <1>3, <2>1, <2>2
<1>7. CASE ~(n < c.length + c.offset)
  <2>1. ASSUME NEW i \in 0 .. (c.length - 1)
        PROVE  m[at + i] = FrameStart(c, k) + c.offset + i
    <3> DEFINE j == c.offset + i
    <3>1. j \in Nat /\ j < n /\ buf[h].r + j = at + i
      <4>1. c.offset \in Nat /\ c.length \in Nat /\ i \in Nat /\ i < c.length
        BY <1>3
      <4> HIDE DEF n
      <4> QED
        BY <1>4, <1>5, <1>7, <4>1
    <3>2. first + j = FrameStart(c, k) + c.offset + i
      BY <1>1, <1>3
    <3> HIDE DEF j, m, n, at, first
    <3> QED
      BY <1>4, <3>1, <3>2
  <2>2. read = field
    <3> HIDE DEF m, at
    <3> QED
      BY <2>1
  <2>3. FrameLength(c, h) = size
    BY <1>3, <2>2 DEF FrameLength, LengthField
  <2>4. decode(c, h) = IF size > c.max \/ n < size THEN None ELSE size
    BY <1>3, <1>7, <2>3 DEF decode
  <2> QED
    BY <1>2, <1>3, <1>4, <2>4
<1> QED
  BY <1>6, <1>7

\* So what it cuts off is a packet of the buffer, however long.
LEMMA DecoderStep ==
  ASSUME Inv, [DecoderNext]_vars
  PROVE  Inv'
<1>1. ASSUME NEW c \in Cases, NEW h \in Handles, NEW g \in Handles, Decode(c, h, g)
      PROVE  Inv'
  <2>1. InStep(c, h) /\ decode(c, h) # None /\ SlicePacket(h, decode(c, h), g)
    BY <1>1 DEF Decode
  <2>2. decode(c, h) \in Nat
    BY <2>1, DecodesFrame
  <2>3. BufInv' /\ MemInv' /\ ByteInv'
    BY <2>1, <2>2, PacketIndexes, SlicePacketStep DEF Inv
  <2> QED
    BY <2>3 DEF Inv
<1>2. CASE [Next]_vars
  BY <1>2, InvStep
<1> QED
  BY <1>1, <1>2 DEF DecoderNext

\* No sequence of calls, shared memory or not, brings an index of a usable buffer out of
\* its memory or before the bytes kept for prepending.
THEOREM IndexesStayInMemory == DecoderSpec => []IndexesInMemory
<1>1. Inv /\ [DecoderNext]_vars => Inv'
  BY DecoderStep
<1>2. Inv => IndexesInMemory
  BY UsableInMemory DEF Inv, IndexesInMemory, InMemory
<1> QED
  BY InitInv, <1>1, <1>2, PTL DEF DecoderSpec

\* Whatever is constructed, copied, cut, moved and destroyed, and wherever the bytes are
\* moved to make room for more: until a step whose behaviour is undefined, every object has
\* its memory, which is counted once for each that shows it and freed with the last.
THEOREM MemoryIsOwned == DecoderSpec => []MemoryOwned
<1>1. Inv /\ [DecoderNext]_vars => Inv'
  BY DecoderStep
<1>2. Inv => MemoryOwned
  BY OwnedIs
<1> QED
  BY InitInv, <1>1, <1>2, PTL DEF DecoderSpec

\* Until an object is rewound, moved or written into while it shares its memory, every object
\* shows the bytes its callers put there, and no append of another shows through.
THEOREM BytesAreHeld == DecoderSpec => []HoldsItsBytes
<1>1. Inv /\ [DecoderNext]_vars => Inv'
  BY DecoderStep
<1>2. Inv => HoldsItsBytes
  BY DEF Inv, ByteInv, Showing, HoldsItsBytes, Usable, Live
<1> QED
  BY InitInv, <1>1, <1>2, PTL DEF DecoderSpec

\* Whatever the stream, the limits and the wrapping of the sum that the adjustment relies
\* on: as long as nobody spoils the memory the buffers share, a decoder whose buffer
\* begins with a frame cuts off that frame, all of it and no more, exactly when all of it
\* is there and it is not too long; and nothing otherwise.
THEOREM FramesAreDecoded == DecoderSpec => []DecodesFrames
<1>1. Inv /\ [DecoderNext]_vars => Inv'
  BY DecoderStep
<1>2. Inv => DecodesFrames
  BY DecodesFrame DEF DecodesFrames
<1> QED
  BY InitInv, <1>1, <1>2, PTL DEF DecoderSpec
=============================================================================
