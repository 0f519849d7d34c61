----------------------------- MODULE CircularQ -----------------------------
(***************************************************************************)
(* circular_q of the vendored spdlog (details/circular_q.h): the buffer    *)
(* that holds messages on their way to the log's worker thread.  A queue   *)
(* is a record of its slots v, of which one stays unused so that a full    *)
(* queue differs from an empty one, their number n and two indexes.        *)
(***************************************************************************)
EXTENDS Naturals, Sequences

CONSTANT NoItem \* what an unused slot holds

\* Mutant: no slot is reserved.
NewQUnreserved(items) ==
  [n |-> items, v |-> [i \in 0 .. items - 1 |-> NoItem], head |-> 0, tail |-> 0]

NewQ(items) ==
  [n |-> items + 1, v |-> [i \in 0 .. items |-> NoItem], head |-> 0, tail |-> 0]

After(q, i) == (i + 1) % q.n

Empty(q) == q.tail = q.head

Full(q) == After(q, q.tail) = q.head

Size(q) == IF q.tail >= q.head THEN q.tail - q.head ELSE q.n - (q.head - q.tail)

\* A push onto a full queue overruns its oldest item.
PushBack(q, item) ==
  LET t == After(q, q.tail)
  IN  [q EXCEPT !.v[q.tail] = item, !.tail = t,
                !.head = IF t = @ THEN After(q, @) ELSE @]

Front(q) == q.v[q.head]

\* The slot left behind is moved from.
PopFront(q) == [q EXCEPT !.v[q.head] = NoItem, !.head = After(q, @)]

\* The items, oldest first.
Contents(q) == [i \in 1 .. Size(q) |-> q.v[(q.head + i - 1) % q.n]]
=============================================================================
