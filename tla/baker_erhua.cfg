\* A character with an r-coloured pinyin, followed by er.
SPECIFICATION Spec
CONSTANTS
  MaxText   = 2
  MaxPinyin = 1
  Text   <- MCText
  Pinyin <- MCPinyin
  Dict   <- MCDict
  Rhotic <- MCRhotic
INVARIANT
  ErhuaIsSpoken
CHECK_DEADLOCK FALSE
