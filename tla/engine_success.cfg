\* Success is reported of an initialize() whose models could not be read.
SPECIFICATION EngineSpec
CONSTANTS
  Melgen  = {m1}
  Vocoder = {v1}
  Ids     = {a}
  Outfile = {f}
  MaxInit = 1
  None    = None
  Partial = Partial
INVARIANT
  SuccessMeansLoaded
CHECK_DEADLOCK FALSE
