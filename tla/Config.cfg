\* All files of up to four pieces.  The number 12 is not a power of two, but 1 is,
\* which is left when its last digit is cut off.
CONSTANTS
  UNSET = UNSET
  EMPTY = EMPTY
  TEXT = TEXT
  SHORT = SHORT
  MaxPieces = 4
  Pieces <- MCPieces
  Own <- MCOwn
  TextCut <- MCTextCut
SPECIFICATION Spec
INVARIANTS
  TypeOK
  MeansWhatItSays
