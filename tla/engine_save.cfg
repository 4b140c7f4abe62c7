\* save() returns true of a file that was opened and not written.
SPECIFICATION EngineSpec
CONSTANTS
  Melgen  = {m1}
  Vocoder = {v1}
  Ids     = {a}
  Outfile = {f}
  MaxInit = 1
  None    = None
  Partial = Partial
INVARIANT
  SaveReportsTruth
CHECK_DEADLOCK FALSE
