\* Both formats, supported depths and one that is not, up to three channels, rates in
\* and out of the Aiff table, chunks, and sizes on both sides of Half.
CONSTANTS
  Half = 86
  SampleValue <- MCExtremes
  Buffers <- MCBuffers
  Depth = {8, 12, 16, 24, 32}
  Rate = {2}
  TableRate = {44100}
  ChunkSize = {0, 5}
  Length = {0, 8}
  MaxChannels = 3
  Stray = {1}
  None = None
SPECIFICATION AiffSpec
INVARIANTS
  AiffTypeOK
  Rectangular
  RoundTrip
  ExportExact
  AiffRoundTrip
  SavedAiffIsRead
