------------------------------ MODULE MCBuffer ------------------------------
(* A small instance of Buffer and Decoder for TLC: decoders with an offset,  *)
(* a field of two bytes, a length that counts itself and a frame too long.   *)
EXTENDS Decoder, TLC

Symmetry == Permutations(Handles)

Case(offset, length, adjustment, max, frames) ==
  [offset |-> offset, length |-> length, adjustment |-> adjustment, max |-> max, frames |-> frames]

MCCases ==
  {Case(0, 1, 0, 2, << <<0>>, <<1, 2>> >>),
   Case(1, 1, 0, 3, << <<2, 1, 0>> >>),
   Case(1, 1, 0, 2, << <<2, 0>>, <<1, 0>> >>),
   Case(0, 2, 0, 3, << <<1, 0, 2>> >>),
   Case(0, 1, 7, 2, << <<1>>, <<2, 2>> >>),
   Case(0, 1, 0, 1, << <<0>>, <<1, 0>> >>)}

\* A state up to the names of its allocations: the fields of each object, what its
\* memory holds, its count, and with whom it shares them.
Nameless ==
  LET Seen(h) ==
        IF ~Usable(h) THEN buf[h]
        ELSE [r     |-> buf[h].r, w |-> buf[h].w, cap |-> buf[h].cap, own |-> buf[h].own,
              mem   |-> heap.mem[buf[h].block],
              count |-> heap.count[buf[h].cell],
              block |-> {g \in Handles : Usable(g) /\ buf[g].block = buf[h].block},
              cell  |-> {g \in Handles : Usable(g) /\ buf[g].cell = buf[h].cell}]
  IN <<[h \in Handles |-> Seen(h)], holds, misuse, total,
       Cardinality({b \in Allocations : heap.mem[b] # Free}),
       Cardinality({c \in Allocations : heap.count[c] # 0})>>
=============================================================================
