\* Two complete voices and two with a model missing from the bundle, descriptors for two and
\* a half initializations, four calls that overlap at will (no symmetry: liveness).
SPECIFICATION FairSpec
CONSTANTS
  p1 = p1
  p2 = p2
  p3 = p3
  p4 = p4
  m1 = m1
  m2 = m2
  m3 = m3
  v1 = v1
  v2 = v2
  v3 = v3
  Melgen  = {m1, m2, m3}
  Vocoder = {v1, v2, v3}
  Plugin  = {p1, p2, p3, p4}
  Ids     = {a, b}
  Outfile = {f}
  MaxInit  = 4
  MaxCalls = 4
  MaxFd    = 5
  MelgenOf  <- MCMelgenOf
  VocoderOf <- MCVocoderOf
  Bundled   <- MCBundled
  None    = None
  Partial = Partial
INVARIANTS
  TypeOK
  FuturesCompleteInOrder
  OnlyDisposeHangs
  FileOfCompletedCall
  CrashOnlyUnprepared
  LoadsWhileDescriptorsLast
PROPERTIES
  ImplementsService
  EveryCallAnswered
\* A process that ended, and one nobody calls any more, take no further step.
CHECK_DEADLOCK FALSE
