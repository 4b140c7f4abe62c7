\* An Aiff file of 8 bits does not come back.
CONSTANTS
  Half = 86
  SampleValue <- MCExtremes
  Buffers <- MCBuffers
  Depth = {8}
  Rate = {2}
  TableRate = {44100}
  ChunkSize = {0}
  Length = {0}
  MaxChannels = 1
  Stray = {1}
  None = None
SPECIFICATION AiffSpec
INVARIANT AiffRoundTrip8
