\* Every interleaving of three initializations and any number of syntheses.
SPECIFICATION EngineSpec
CONSTANTS
  Melgen  = {m1, m2}
  Vocoder = {v1, v2}
  Ids     = {a, b}
  Outfile = {f, g}
  MaxInit = 3
  None    = None
  Partial = Partial
SYMMETRY Symmetry
INVARIANTS
  EngineTypeOK
  ModelsOfLastInitialize
  BuffersOutliveModels
  CrashOnlyOnUnsetPointer
  CrashOnlyUnlessReadable
  FileHoldsSpeech
\* A process that ended takes no further step.
CHECK_DEADLOCK FALSE
