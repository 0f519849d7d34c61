------------------------------- MODULE Buffer -------------------------------
(***************************************************************************)
(* The byte buffers of src/src/base/Buffer.h and Buffer.cpp: objects that  *)
(* are windows on memory which a reference count lets several of them      *)
(* share.  A slice or a copy shares the memory of the buffer it was made   *)
(* from and has m_ownMemory = false; the first buffer keeps its            *)
(* m_ownMemory and goes on filling, compacting and replacing that memory.  *)
(*                                                                         *)
(* Nothing in the class keeps such a step from disturbing the others.      *)
(* The variable misuse records the steps that may, so that the properties  *)
(* say what a program must avoid for its buffers to be safe:               *)
(*   "rewound"  the owner gave up or moved bytes that others may show      *)
(*   "written"  a slice or copy wrote into memory that is shared           *)
(*   "moved"    makeSpace deleted memory that is shared                    *)
(*   "swapped"  swap exchanged memory that is shared, and not its count    *)
(***************************************************************************)
EXTENDS Integers, Sequences, FiniteSets

CONSTANTS
  Handles,       \* the Buffer objects there can be
  None,          \* a null pointer
  KPrependSize,  \* kPrependSize, 8 in the code
  InitialSizes,  \* sizes given to the constructor
  ExtraBuf,      \* sizeof extraBuf in readFd, 65536 in the code
  MaxLen,        \* bound: bytes one call appends, skips or asks room for
  MaxBytes       \* bound: bytes appended or asked room for in all

ASSUME BufferAssumption ==
  /\ None \notin Nat /\ IsFiniteSet(Handles)
  /\ KPrependSize \in Nat \ {0} /\ ExtraBuf \in Nat /\ MaxLen \in Nat /\ MaxBytes \in Nat
  /\ InitialSizes \subseteq Nat

\* Memory that new[] returns is not initialised.
Junk == -1

\* A step allocates before it deletes, so one block more than there are objects is enough.
Allocations == 1..(Cardinality(Handles) + 1)

VARIABLES
  buf,     \* buf[h]: the fields of the object, or NoObject
  heap,    \* heap.mem[b]: the bytes of block b, heap.count[c]: the counter c (Free, 0: deleted)
  holds,   \* ghost, holds[h]: the bytes the object's user put there or was given
  misuse,  \* ghost, see above
  total    \* bound: bytes appended or asked room for

vars == <<buf, heap, holds, misuse, total>>

-----------------------------------------------------------------------------
readableBytes(x) == x.w - x.r
writableBytes(x) == x.cap - x.w

\* The fields of a buffer: m_buffer, m_readIndex, m_writeIndex, m_capacity,
\* m_ownMemory and m_refCount.
Fields(block, r, w, cap, own, cell) ==
  [block |-> block, r |-> r, w |-> w, cap |-> cap, own |-> own, cell |-> cell]

NoObject == Fields(None, 0, 0, 0, FALSE, None)

\* Memory that nobody has: no bytes.
Free == <<>>

\* A moved from object has no memory and no counter: only an assignment or the
\* destructor may follow.
Usable(h) == buf[h].cell # None

Bytes(hp, x) == [i \in 1..readableBytes(x) |-> hp.mem[x.block][x.r + i - 1]]

\* memcpy of data to the offset at of a block.
Copied(block, at, data) ==
  [i \in DOMAIN block |-> IF i \in at..(at + Len(data) - 1) THEN data[i - at + 1] ELSE block[i]]

FreshBlock(hp) == CHOOSE b \in Allocations : hp.mem[b] = Free
FreshCell(hp)  == CHOOSE c \in Allocations : hp.count[c] = 0

\* new char[cap], with data at kPrependSize.
Allocated(cap, data) == Copied([i \in 0..(cap - 1) |-> Junk], KPrependSize, data)

\* The constructor's increment, and the decrement that deletes at the last reference.
Referenced(hp, x) == [hp EXCEPT !.count[x.cell] = @ + 1]

\* Mutant: the last reference does not delete, as if fetch_sub returned the new count.
ReleasedLate(hp, x) ==
  IF x.cell = None THEN hp ELSE [hp EXCEPT !.count[x.cell] = @ - 1]

Released(hp, x) ==
  IF x.cell = None THEN hp
  ELSE IF hp.count[x.cell] = 1
       THEN [mem |-> [hp.mem EXCEPT ![x.block] = Free], count |-> [hp.count EXCEPT ![x.cell] = 0]]
       ELSE [hp EXCEPT !.count[x.cell] = @ - 1]

Shared(hp, x) == hp.count[x.cell] > 1

-----------------------------------------------------------------------------
(* Making room: each operator returns the heap and the fields after it.      *)
makeOwnBuffer(hp, x, additional) ==
  LET b   == FreshBlock(hp)
      c   == FreshCell(hp)
      cap == KPrependSize + readableBytes(x) + additional
      new == [mem   |-> [hp.mem EXCEPT ![b] = Allocated(cap, Bytes(hp, x))],
              count |-> [hp.count EXCEPT ![c] = 1]]
  IN [heap |-> Released(new, x),
      buf  |-> Fields(b, KPrependSize, KPrependSize + readableBytes(x), cap, TRUE, c)]

\* The two branches of makeSpace: new memory, or the bytes moved to the front.
Replaced(hp, x, len) ==
  LET b   == FreshBlock(hp)
      cap == 2 * x.cap + len
  IN [heap |-> [hp EXCEPT !.mem = [@ EXCEPT ![b] = Allocated(cap, Bytes(hp, x)), ![x.block] = Free]],
      buf  |-> Fields(b, KPrependSize, KPrependSize + readableBytes(x), cap, x.own, x.cell)]

\* Mutant: the indexes move and the bytes do not.
CompactedIndexes(hp, x) ==
  [heap |-> hp,
   buf  |-> Fields(x.block, KPrependSize, KPrependSize + readableBytes(x), x.cap, x.own, x.cell)]

Compacted(hp, x) ==
  [heap |-> [hp EXCEPT !.mem[x.block] = Copied(@, KPrependSize, Bytes(hp, x))],
   buf  |-> Fields(x.block, KPrependSize, KPrependSize + readableBytes(x), x.cap, x.own, x.cell)]

makeSpace(hp, x, len) ==
  IF writableBytes(x) + x.r < len + KPrependSize THEN Replaced(hp, x, len) ELSE Compacted(hp, x)

ensureWriteableBytes(hp, x, len) ==
  IF writableBytes(x) >= len THEN [heap |-> hp, buf |-> x]
  ELSE IF x.own THEN makeSpace(hp, x, len) ELSE makeOwnBuffer(hp, x, len)

\* memcpy to beginWrite(), and m_writeIndex += len.
Written(s, data) ==
  [heap |-> [s.heap EXCEPT !.mem[s.buf.block] = Copied(@, s.buf.w, data)],
   buf  |-> [s.buf EXCEPT !.w = @ + Len(data)]]

appended(hp, x, data) == Written(ensureWriteableBytes(hp, x, Len(data)), data)

\* readv into the free space and then extraBuf.
readFd(hp, x, data) ==
  LET n == writableBytes(x)
      s == [heap |-> hp, buf |-> x]
  IN IF Len(data) <= n THEN Written(s, data)
     ELSE LET full == Written(s, SubSeq(data, 1, n))
          IN appended(full.heap, full.buf, SubSeq(data, n + 1, Len(data)))

skip(x, len) ==
  IF len < readableBytes(x) THEN [x EXCEPT !.r = @ + len]
  ELSE Fields(x.block, KPrependSize, KPrependSize, x.cap, x.own, x.cell)

-----------------------------------------------------------------------------
\* What the step of object h from the fields x to y may do to the objects it shares with.
Harm(x, y) ==
  IF ~Shared(heap, x) THEN {}
  ELSE {k \in {"rewound", "written", "moved"} :
          \/ k = "rewound" /\ x.own /\ y.block = x.block /\ (y.r < x.r \/ y.w < x.w)
          \/ k = "written" /\ y.block = x.block /\ ~x.own /\ y.w > x.w
          \/ k = "moved"   /\ y.block # x.block /\ y.cell = x.cell}

\* A makeSpace or a swap of shared memory leaves a count that does not belong to it:
\* the program's behaviour is undefined from there on, and the model ends.
Defined == misuse \cap {"moved", "swapped"} = {}

\* Data a caller appends or a peer sends.  The class never looks at a byte, so
\* each is named by the total it brings about, and so told from the others.
Data(len) == [i \in 1..len |-> total + i]

\* Object h takes len bytes, with the result s, which may do harm.
Fills(h, len, s, harm) ==
  /\ Defined
  /\ total + len <= MaxBytes
  /\ total' = total + len
  /\ heap' = s.heap
  /\ buf' = [buf EXCEPT ![h] = s.buf]
  /\ holds' = [holds EXCEPT ![h] = @ \o Data(len)]
  /\ misuse' = misuse \cup harm

Appends(h, len) ==
  /\ Usable(h)
  /\ LET s == appended(heap, buf[h], Data(len)) IN Fills(h, len, s, Harm(buf[h], s.buf))

\* The fields once readv has filled the free space.
Filled(x, len) == [x EXCEPT !.w = IF len < writableBytes(x) THEN @ + len ELSE x.cap]

\* readFd that reads len bytes; one that fails or reads nothing changes nothing.
ReadFd(h, len) ==
  /\ Usable(h)
  /\ LET n == writableBytes(buf[h])
     IN len <= (IF n < ExtraBuf THEN n + ExtraBuf ELSE n)
  /\ LET s == readFd(heap, buf[h], Data(len))
     IN  Fills(h, len, s, Harm(buf[h], Filled(buf[h], len)) \cup Harm(buf[h], s.buf))

\* writeN by a caller who has copied len bytes to beginWrite(), where there is room.
WriteN(h, len) ==
  /\ Usable(h) /\ len <= writableBytes(buf[h])
  /\ LET s == Written([heap |-> heap, buf |-> buf[h]], Data(len))
     IN  Fills(h, len, s, Harm(buf[h], s.buf))

\* A caller asks for room, by ensureWriteableBytes or by makeOwnBuffer itself.
MakesRoom(h, len, s) ==
  /\ Defined
  /\ total + len <= MaxBytes
  /\ total' = total + len
  /\ heap' = s.heap
  /\ buf' = [buf EXCEPT ![h] = s.buf]
  /\ misuse' = misuse \cup Harm(buf[h], s.buf)
  /\ UNCHANGED holds

EnsureWriteable(h, len) == Usable(h) /\ MakesRoom(h, len, ensureWriteableBytes(heap, buf[h], len))

MakeOwn(h, len) == Usable(h) /\ MakesRoom(h, len, makeOwnBuffer(heap, buf[h], len))

\* skip, and with it readAsString, readU8, readU16LE and the like, which only look at
\* the bytes before; len beyond the readable bytes is readAll.
Skip(h, len) ==
  /\ Defined /\ Usable(h)
  /\ buf' = [buf EXCEPT ![h] = skip(buf[h], len)]
  /\ holds' = [holds EXCEPT ![h] = SubSeq(@, len + 1, Len(@))]
  /\ misuse' = misuse \cup Harm(buf[h], buf'[h])
  /\ UNCHANGED <<heap, total>>

\* slice(offset, length): g is the new object; nullptr, which changes nothing, when
\* the bytes are not there.  The arguments are so small that their sum does not wrap.
Slice(h, offset, length, g) ==
  LET x == buf[h] IN
  /\ Defined /\ Usable(h) /\ buf[g] = NoObject
  /\ offset <= readableBytes(x) /\ offset + length <= readableBytes(x)
  /\ buf' = [buf EXCEPT ![g] = Fields(x.block, x.r + offset, x.r + offset + length, x.cap, FALSE, x.cell)]
  /\ heap' = Referenced(heap, x)
  /\ holds' = [holds EXCEPT ![g] = SubSeq(holds[h], offset + 1, offset + length)]
  /\ UNCHANGED <<misuse, total>>

\* slicePacket(length), which readBuffer calls, too: the packet leaves h.
SlicePacket(h, length, g) ==
  LET x == buf[h] IN
  /\ Defined /\ Usable(h) /\ buf[g] = NoObject
  /\ length <= readableBytes(x)
  /\ buf' = [buf EXCEPT ![g] = Fields(x.block, x.r, x.r + length, x.cap, FALSE, x.cell),
                        ![h].r = @ + length]
  /\ heap' = Referenced(heap, x)
  /\ holds' = [holds EXCEPT ![g] = SubSeq(holds[h], 1, length),
                            ![h] = SubSeq(@, length + 1, Len(@))]
  /\ UNCHANGED <<misuse, total>>

-----------------------------------------------------------------------------
(* Construction, assignment and destruction.                                 *)
Construct(h, size) ==
  LET b == FreshBlock(heap)
      c == FreshCell(heap)
  IN
  /\ Defined /\ buf[h] = NoObject
  /\ buf' = [buf EXCEPT ![h] = Fields(b, KPrependSize, KPrependSize, KPrependSize + size, TRUE, c)]
  /\ heap' = [mem   |-> [heap.mem EXCEPT ![b] = Allocated(KPrependSize + size, <<>>)],
              count |-> [heap.count EXCEPT ![c] = 1]]
  /\ holds' = [holds EXCEPT ![h] = <<>>]
  /\ UNCHANGED <<misuse, total>>

Destroy(h) ==
  /\ Defined /\ buf[h] # NoObject
  /\ heap' = Released(heap, buf[h])
  /\ buf' = [buf EXCEPT ![h] = NoObject]
  /\ holds' = [holds EXCEPT ![h] = <<>>]
  /\ UNCHANGED <<misuse, total>>

\* The copy constructor (buf[g] = NoObject) and the copy assignment.
Copy(h, g) ==
  LET x == buf[h] IN
  /\ Defined /\ Usable(h) /\ h # g
  /\ heap' = Referenced(Released(heap, buf[g]), x)
  /\ buf' = [buf EXCEPT ![g] = Fields(x.block, x.r, x.w, x.cap, FALSE, x.cell)]
  /\ holds' = [holds EXCEPT ![g] = holds[h]]
  /\ UNCHANGED <<misuse, total>>

\* The move constructor and the move assignment: h is left without memory.
MoveTo(h, g) ==
  /\ Defined /\ Usable(h) /\ h # g
  /\ heap' = Released(heap, buf[g])
  /\ buf' = [buf EXCEPT ![g] = buf[h],
                        ![h] = Fields(None, KPrependSize, KPrependSize, 0, @.own, None)]
  /\ holds' = [holds EXCEPT ![g] = holds[h], ![h] = <<>>]
  /\ UNCHANGED <<misuse, total>>

\* swap leaves m_refCount and m_ownMemory where they are.
Swap(h, g) ==
  LET Takes(x, y) == Fields(y.block, y.r, y.w, y.cap, x.own, x.cell) IN
  /\ Defined /\ Usable(h) /\ Usable(g) /\ h # g
  /\ buf' = [buf EXCEPT ![h] = Takes(buf[h], buf[g]), ![g] = Takes(buf[g], buf[h])]
  /\ holds' = [holds EXCEPT ![h] = holds[g], ![g] = holds[h]]
  /\ misuse' = IF Shared(heap, buf[h]) \/ Shared(heap, buf[g]) THEN misuse \cup {"swapped"} ELSE misuse
  /\ UNCHANGED <<heap, total>>

-----------------------------------------------------------------------------
Init ==
  /\ buf = [h \in Handles |-> NoObject]
  /\ heap = [mem |-> [b \in Allocations |-> Free], count |-> [c \in Allocations |-> 0]]
  /\ holds = [h \in Handles |-> <<>>]
  /\ misuse = {}
  /\ total = 0

Next ==
  \E h \in Handles :
    \/ \E len \in 1..MaxLen : Appends(h, len) \/ ReadFd(h, len) \/ WriteN(h, len)
    \/ \E len \in 1..MaxLen : EnsureWriteable(h, len) \/ MakeOwn(h, len)
    \/ \E len \in 0..MaxLen : Skip(h, len)
    \/ \E size \in InitialSizes : Construct(h, size)
    \/ Destroy(h)
    \/ \E g \in Handles :
         \/ \E offset, length \in 0..MaxLen : Slice(h, offset, length, g)
         \/ \E length \in 0..MaxLen : SlicePacket(h, length, g)
         \/ Copy(h, g)
         \/ MoveTo(h, g)
         \/ Swap(h, g)

Spec == Init /\ [][Next]_vars

-----------------------------------------------------------------------------
(* Properties                                                                *)

\* Every buffer shows the bytes that were appended to it and not read yet, or that
\* it was cut or copied from, whatever its neighbours in the same memory do and
\* however often the memory is replaced, as long as no shared buffer is rewound,
\* compacted or replaced and no slice or copy writes into shared memory.
HoldsItsBytes ==
  misuse = {} => \A h \in Handles : Usable(h) => Bytes(heap, buf[h]) = holds[h]

\* The indexes of every buffer stay inside its memory, behind the bytes kept for
\* prepending, so that no memcpy and no memmove leaves it.
IndexesInMemory ==
  \A h \in Handles : Usable(h) =>
    KPrependSize <= buf[h].r /\ buf[h].r <= buf[h].w /\ buf[h].w <= buf[h].cap

\* Up to the first such step, every buffer's indexes stay inside its memory, which is
\* there and has m_capacity bytes, is counted once for each buffer that shows it,
\* belongs to one counter, and is deleted with its last buffer: no use after a delete,
\* no second delete and no leak, moves, assignments and makeOwnBuffer included.
MemoryOwned ==
  Defined =>
    LET Users == {h \in Handles : Usable(h)} IN
    /\ IndexesInMemory
    /\ \A h \in Users :
         /\ heap.mem[buf[h].block] # Free
         /\ DOMAIN heap.mem[buf[h].block] = 0..(buf[h].cap - 1)
         /\ heap.count[buf[h].cell] = Cardinality({g \in Users : buf[g].cell = buf[h].cell})
    /\ \A h, g \in Users : buf[h].block = buf[g].block <=> buf[h].cell = buf[g].cell
    /\ {b \in Allocations : heap.mem[b] # Free} = {buf[h].block : h \in Users}
    /\ {c \in Allocations : heap.count[c] # 0} = {buf[h].cell : h \in Users}
=============================================================================
