SPECIFICATION Spec
CONSTANTS
  Plain = {"a"}
  Digit = {"1"}
  MaxChars = 5
CHECK_DEADLOCK FALSE
INVARIANTS
  LexesAsReference
  PromptsForMore
