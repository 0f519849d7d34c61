------------------------------ MODULE Decoder ------------------------------
(***************************************************************************)
(* LengthFieldBasedFrameDecoder of src/src/codecs on the Buffer it is      *)
(* given: decode looks at the length field in the buffer's memory and cuts *)
(* the frame off with slicePacket, so that the packet shares the memory of *)
(* the buffer that goes on reading.                                        *)
(*                                                                         *)
(* Buffer names each byte by its place among all that are appended; a      *)
(* stream of frames gives the bytes their values.  A case is a decoder     *)
(* with a stream it is to decode.                                          *)
(***************************************************************************)
EXTENDS Buffer, SequencesExt

CONSTANTS
  Cases,     \* records of the decoder's fields and the frames of a stream
  ByteBase,  \* values of a byte, 256 in the code
  SizeMod    \* values of a size_t, 2^64 in the code

ASSUME DecoderAssumption == ByteBase \in Nat \ {0} /\ SizeMod \in Nat \ {0}

-----------------------------------------------------------------------------
\* The bytes of a case's stream, by their names, and the name of a frame's first byte.
Value(c, name) == FlattenSeq(c.frames)[name]

FrameStart(c, k) == Len(FlattenSeq(SubSeq(c.frames, 1, k - 1))) + 1

\* What n digits are worth in the base of a byte, the lowest first.
Worth(digits) == FoldFunction(+, 0, [i \in DOMAIN digits |-> digits[i] * ByteBase ^ i])

\* The sender's side: the field of a frame says how long the frame is.
WellFramed(c, k) ==
  LET size  == Len(c.frames[k])
      field == [i \in 0 .. (c.length - 1) |-> Value(c, FrameStart(c, k) + c.offset + i)]
  IN  /\ size \in Nat /\ FrameStart(c, k) \in Nat
      /\ size >= c.length + c.offset
      /\ size = (c.offset + c.length + Worth(field) + c.adjustment) % SizeMod

ASSUME CaseAssumption ==
  \A c \in Cases :
    /\ c.offset \in Nat /\ c.length \in {1, 2, 4, 8} /\ c.max \in Nat
    /\ \A k \in DOMAIN c.frames : WellFramed(c, k)

\* The value of the length field, c.length bytes of memory from readIndex + offset on.
LengthField(c, h, offset) ==
  LET at == buf[h].r + offset
  IN  Worth([i \in 0 .. (c.length - 1) |-> Value(c, heap.mem[buf[h].block][at + i])])

\* Mutant: the length field is taken to begin the frame.
FrameLengthAtStart(c, h) ==
  (c.offset + c.length + LengthField(c, h, 0) + c.adjustment) % SizeMod

\* A size_t: a negative adjustment is given as a number that wraps around.
FrameLength(c, h) ==
  (c.offset + c.length + LengthField(c, h, c.offset) + c.adjustment) % SizeMod

\* The length of the packet that decode cuts off, None for nullptr.
decode(c, h) ==
  IF \/ readableBytes(buf[h]) < c.length + c.offset
     \/ c.length \notin {1, 2, 4, 8}
    THEN None
    ELSE LET n == FrameLength(c, h)
         IN  IF n > c.max \/ readableBytes(buf[h]) < n THEN None ELSE n

\* The bytes of the buffer are those of the case's stream from a frame's beginning on.
FrameStarts(c) == {FrameStart(c, k) : k \in DOMAIN c.frames}

InStep(c, h) ==
  /\ Usable(h) /\ holds[h] # <<>>
  /\ Head(holds[h]) \in FrameStarts(c)
  /\ \A i \in DOMAIN holds[h] : holds[h][i] = Head(holds[h]) + i - 1
  /\ holds[h][Len(holds[h])] <= Len(FlattenSeq(c.frames))
  /\ misuse = {}

Decode(c, h, g) ==
  /\ InStep(c, h)
  /\ decode(c, h) # None
  /\ SlicePacket(h, decode(c, h), g)

DecoderNext ==
  Next \/ \E c \in Cases, h, g \in Handles : Decode(c, h, g)

DecoderSpec == Init /\ [][DecoderNext]_vars

-----------------------------------------------------------------------------
(* Properties.                                                             *)

NextFrame(c, h) ==
  c.frames[CHOOSE k \in DOMAIN c.frames : FrameStart(c, k) = Head(holds[h])]

\* A buffer that begins with a frame yields exactly that frame, no byte more or less,
\* as soon as all of it is there, however it was read, split, moved and made room for;
\* and nothing before.  A frame longer than the maximum is never yielded, and what
\* comes after it is never reached.
DecodesFrames ==
  \A c \in Cases, h \in Handles :
    InStep(c, h) =>
      LET n == Len(NextFrame(c, h))
      IN  decode(c, h) = IF n <= c.max /\ Len(holds[h]) >= n THEN n ELSE None
=============================================================================
