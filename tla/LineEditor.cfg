SPECIFICATION Spec
CONSTANTS
  Byte = {"a", " ", "lead", "cont"}
  Lead = {"lead"}
  Cont = {"cont"}
  Blank = {" "}
  Letter <- MCLetter
  Recalled <- MCRecalled
  MaxLen = 4
CHECK_DEADLOCK FALSE
INVARIANTS
  WholeCharacters
  InBounds
PROPERTY
  Promised
