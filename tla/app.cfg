\* Presses in any order, a process that is killed and started again; the buttons
\* under fairness of the isolate, its frames and the platform thread.
SPECIFICATION AppFairSpec
CONSTANTS
  p1 = p1
  m1 = m1
  v1 = v1
  Melgen  = {m1}
  Vocoder = {v1}
  Plugin  = {p1}
  Ids     = {a}
  Outfile = {f}
  App      = p1
  Sentence = a
  WavFile  = f
  MaxInit   = 4
  MaxCalls  = 4
  MaxFd     = 4
  MaxLaunch = 1
  MelgenOf  <- AppMelgen
  VocoderOf <- AppVocoder
  Bundled   <- AppBundled
  None    = None
  Partial = Partial
INVARIANTS
  AppTypeOK
  EnabledMeansInitialized
  NeverFaultsWhileDescriptorsLast
  HeardWhole
PROPERTIES
  InitializeEnables
\* A process that ended for the last time takes no further step.
CHECK_DEADLOCK FALSE
