\* Debug and release builds: with assertions and without.
SPECIFICATION Spec
CONSTANTS
  MaxText   = 5
  MaxPinyin = 2
  Text   <- MCText
  Pinyin <- MCPinyin
  Dict   <- MCDict
  Rhotic <- MCRhotic
INVARIANTS
  TypeOK
  WellFormedNeverThrows
  SpokenAsGiven
  OnePauseBetweenSyllables
CHECK_DEADLOCK FALSE
