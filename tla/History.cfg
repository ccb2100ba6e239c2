SPECIFICATION Spec
CONSTANTS
  Text = {"", " ", "'", "|", "<<"}
  Empty = ""
  nature <- MCnature
  MaxHistory = 3
  MaxPieces = 1
  MaxDocs = 2
  MaxPrompts = 3
CHECK_DEADLOCK FALSE
INVARIANTS
  IndicesInRange
  DraftIsLast
  JoinsOwnCommand
  LosesOldestOnly
  
