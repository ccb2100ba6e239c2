SPECIFICATION Spec
CONSTANTS
  Word = {"ls", "f"}
  Number = {"2"}
  MaxTokens = 6
CHECK_DEADLOCK FALSE
INVARIANTS
  TreeOfGrammar
  DocumentsInOrder
