SPECIFICATION DecoderSpec
CONSTANTS
  Handles = {h1, h2, h3}
  None = None
  KPrependSize = 1
  InitialSizes = {1}
  ExtraBuf = 2
  MaxLen = 2
  MaxBytes = 3
  Cases <- MCCases
  ByteBase = 3
  SizeMod = 8
VIEW Nameless
SYMMETRY Symmetry
INVARIANTS MemoryOwned HoldsItsBytes DecodesFrames
CHECK_DEADLOCK FALSE
