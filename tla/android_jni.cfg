\* Two initializations that reach the core, failed ones between them, any number of syntheses.
SPECIFICATION JniSpec
CONSTANTS
  Melgen  = {m1, m2}
  Vocoder = {v1, v2}
  Ids     = {a, b}
  Outfile = {f}
  MaxInit = 2
  None    = None
  Partial = Partial
SYMMETRY Symmetry
INVARIANTS
  JniTypeOK
  FailedInitializeKeepsVoice
  FaultsOnlyBeforeSuccess
  FileHasServedVoice
\* A process that ended takes no further step.
CHECK_DEADLOCK FALSE
